----------------------------- MODULE WatchReads -----------------------------
(***************************************************************************)
(* What the watcher of each back end puts in the attributes of a GPU       *)
(* (smi_watcher_update_all_watch_fields_ of smi_state.cc), given the       *)
(* device d: the library calls that fail this tick (d.fails) and the       *)
(* readings the device does not have (d.lacks).  An attribute that holds   *)
(* what a GPUGet reports as well has the name of that field (Readings).    *)
(* WatchSample has the ticks and the two tiers, this module the values.    *)
(***************************************************************************)
EXTENDS GpuReads, Sequences

\* Attributes with a value per engine, sensor or link.
WatchArrays ==
    {"hbm_temp", "vcn_activity", "jpeg_activity", "xgmi_link", "gfx_busy", "vcn_busy",
     "jpeg_busy"}

\* What only the metrics table has, and what a call of its own can give as well.
BulkScalars ==
    {"umc_activity", "mm_activity", "avg_power", "gfx_voltage", "soc_voltage", "mem_voltage",
     "energy", "replay_count", "recovery_count", "rollover_count", "nack_count",
     "package_power", "vram_bandwidth", "edge_temp"}

WithFallback ==
    {"gpu_clock", "memory_clock", "memory_temp", "gpu_temp", "power", "gfx_activity"}

\* k_fast_attrs: read at every tick.
FastAttrs == WatchArrays \union BulkScalars \union WithFallback

ClockList == ClockFields \union ClockRangeFields
PerXcc == {"gfx_limit_acc", "low_util_acc", "gfx_limit_per", "low_util_per"}

\* k_slow_attrs: read once per slow period.  total_vram stands for the VRAM, the
\* visible VRAM and the GTT, and so do used_vram and free_vram; pcie_usage for
\* the bytes sent and received, which nobody reads.
SlowAttrs ==
    ClockList \union ViolationFields \union
    {"pcie_usage", "pcie_bandwidth", "used_vram", "ecc_block", "ecc_total", "xgmi_requests",
     "xgmi_responses", "xgmi_throughput", "total_vram", "free_vram", "pcie_speed",
     "pcie_max_speed"}

\* aga_gpu_watch_fields_t
WatchFields == FastAttrs \union SlowAttrs
WatchLists == WatchArrays \union ClockList \union PerXcc
WatchCleared == [f \in WatchFields |-> IF f \in WatchLists THEN "absent" ELSE "zero"]

\* A mutant: the scalars keep what the last slow sample had.
ResetArrays(w) == Update(w, All(WatchArrays, "absent"))

\* aga_gpu_watch_reset_fast_fields
WatchReset(w) ==
    Update(w, All(FastAttrs \ WatchArrays, "na64") ++ All(WatchArrays, "absent"))

-----------------------------------------------------------------------------
\* The errors of each block; a block that cannot be read keeps its seed.
WatchEcc(d) == When("ecc_count" \notin d.fails, [ecc_block |-> Read(d, "ecc_block", "zero")])

\* Their sums, "not available" when no block could be read.
WatchEccTotal(d) == [ecc_total |-> Ask(d, "ecc_count", "ecc_total", "zero", "na64")]

\* A mutant: what the call would have filled is copied when it fails, too.
WatchViolationAlways(d) == [f \in ViolationFields |-> Ask(d, "violation_status", f, "na64", "zero")]

\* One call for all violations, of row 0 whatever the partition.
WatchViolation(d) ==
    When("violation_status" \notin d.fails, [f \in ViolationFields |-> Read(d, f, "na64")])

\* A mutant: the free memory is computed before the total is read.
WatchMemoryEarly(d, seed) ==
    LET used == Ask(d, "memory_usage", "used_vram", "zero", "zero")
    IN [total_vram |-> Ask(d, "memory_total", "total_vram", "zero", seed["total_vram"]),
        free_vram |-> Derived("free_vram", {seed["total_vram"], used})]

\* The memory sizes: the free memory is computed whether or not both others were
\* read, from the seed of the one and a zero of the other.  A PCIe speed the
\* device does not have leaves the seed.
WatchMemory(d, seed) ==
    LET total == Ask(d, "memory_total", "total_vram", "zero", seed["total_vram"])
        used == Ask(d, "memory_usage", "used_vram", "zero", "zero")
    IN [total_vram |-> total, free_vram |-> Derived("free_vram", {total, used})] ++
       When("pcie_info" \notin d.fails,
            [f \in {"pcie_speed", "pcie_max_speed"} \ d.lacks |-> f])

\* GPU_MEMORY_USAGE
WatchUsed(d) == When("memory_usage" \notin d.fails, [used_vram |-> Read(d, "used_vram", "zero")])

\* PCIE_BANDWIDTH, and the two attributes before it.
WatchPcie(d) ==
    [pcie_usage |-> "zero"] ++
    When("pcie_info" \notin d.fails,
         [pcie_bandwidth |-> Widen(Read(d, "pcie_bandwidth", "na32"), "na32", "na64")])

\* A counter is read if it was set up when the watcher was started.
WatchXgmi(d, f) == When("xgmi_counter" \notin d.fails /\ f \notin d.lacks, [g \in {f} |-> g])

\* The throughput of a link: the counter, by the time it ran.
WatchThroughput(d) == WatchXgmi(d, "xgmi_throughput")

\* clk_lo_hi: the range of a clock is copied as it is, in 32 bits.
WatchRange(d, c) == Ask(d, ClockCall[c], SpecRangeOf[c], "na32", "na64")

\* store_clock: a clock and its range go in the list together, if there is a
\* value for either.
Stored(d, m, c) == Widen(m[c], "na16", "na64") # "na64" \/ WatchRange(d, c) # "na64"

\* The clocks, in the list of a slow tick.
WatchClocks(d, m) ==
    [c \in DOMAIN RangeOf |-> IF Stored(d, m, c) THEN Widen(m[c], "na16", "na64") ELSE "absent"] ++
    [r \in ClockRangeFields |->
         LET c == CHOOSE x \in DOMAIN RangeOf : RangeOf[x] = r
         IN IF Stored(d, m, c) THEN WatchRange(d, c) ELSE "absent"] ++
    [soc_clock |-> IF "clk_freq_soc" \in d.fails THEN "absent"
                   ELSE Widen(m["soc_clock"], "na16", "na64"),
     fabric_clock |-> IF "clk_freq_df" \in d.fails \/ "fabric_clock" \in d.lacks THEN "absent"
                      ELSE "fabric_clock"]

\* The attributes that the metrics table has, and else a call of their own: a
\* clock that call does not know is its 32-bit sentinel by a million, a power
\* the sentinel itself, compared with the one of 16 bits.
WatchFallbacks(d, bulk, m) ==
    LET Wide(f) == Widen(m[f], "na16", "na64")
        Single(call, update) == When(call \notin d.fails, update)
        power == IF m["avg_power"] = "na16" THEN Wide("package_power") ELSE m["avg_power"]
    IN (IF bulk THEN [gpu_clock |-> Wide("gfx_clock")]
        ELSE Single("clk_freq_sys", [gpu_clock |-> Read(d, "gfx_clock", "junk")])) ++
       (IF bulk /\ m["mem_clock"] # "na16" THEN [memory_clock |-> m["mem_clock"]]
        ELSE Single("clk_freq_mem", [memory_clock |-> Read(d, "mem_clock", "junk")])) ++
       (IF bulk THEN [memory_temp |-> Wide("memory_temp")]
        ELSE When({"temp_vram", "memory_temp"} \intersect (d.fails \union d.lacks) = {},
                  [memory_temp |-> "memory_temp"])) ++
       (IF bulk /\ m["edge_temp"] \notin {"zero", "na16"} THEN [gpu_temp |-> m["edge_temp"]]
        ELSE Single("temp_edge",
                    IF "edge_temp" \notin d.lacks THEN [gpu_temp |-> "edge_temp"]
                    ELSE When({"temp_junction", "junction_temp"}
                                  \intersect (d.fails \union d.lacks) = {},
                              [gpu_temp |-> "junction_temp"]))) ++
       (IF bulk /\ power \notin {"zero", "na64"} THEN [power |-> power]
        ELSE Single("power_info", [power |-> Read(d, "avg_power", "na32")]) ++
             When(bulk, [power |-> power])) ++
       (IF bulk THEN [gfx_activity |-> Wide("gfx_activity")]
        ELSE Single("gpu_activity", [gfx_activity |-> Read(d, "gfx_activity", "na16")]))

\* The scalars only the table has.
WatchBulk(m) == Widened(m, BulkScalars, "na64")

\* The arrays only the table has: as many values as the table has room for.
WatchArraysOf(m) ==
    [f \in WatchArrays |-> Widen(Widen(m[f], "na16", "na64"), "na32", "na64")]

\* smi_watcher_update_all_watch_fields_: what was carried forward, then the calls
\* of a slow tick, then what every tick reads.
AmdsmiWatch(d, seed, refresh, bulk, m) ==
    Update(WatchReset(seed),
        When(refresh,
             WatchEcc(d) ++ WatchEccTotal(d) ++ WatchViolation(d) ++ WatchMemory(d, seed) ++
             WatchUsed(d) ++ WatchPcie(d) ++ WatchXgmi(d, "xgmi_requests") ++
             WatchXgmi(d, "xgmi_responses") ++ WatchThroughput(d) ++
             When(bulk, WatchClocks(d, m))) ++
        When(bulk, WatchBulk(m) ++ WatchArraysOf(m)) ++
        WatchFallbacks(d, bulk, m))

-----------------------------------------------------------------------------
\* The wsl watcher is that of amdsmi; its metrics table is the refilled one, and
\* counts if the structure is filled.
WslWatchBulk(d) == WslCached(d)
WslWatchEcc(d) == WatchEcc(d)
WslWatchMemory(d, seed) == WatchMemory(d, seed)
WslWatchClocks(d, m) == WatchClocks(d, m)
WslWatchFallbacks(d, bulk, m) == WatchFallbacks(d, bulk, m)
WslWatchScalars(m) == WatchBulk(m)
WslWatchArrays(m) == WatchArraysOf(m)
WslWatchViolation(d) == WatchViolation(d)
WslWatchEccTotal(d) == WatchEccTotal(d)
WslWatchXgmi(d, f) == WatchXgmi(d, f)
WslWatchThroughput(d) == WatchThroughput(d)

WslWatch(d, seed, refresh) ==
    LET m == WslMetrics(d)
        bulk == WslWatchBulk(d)
    IN Update(WatchReset(seed),
           When(refresh,
                WslWatchEcc(d) ++ WslWatchEccTotal(d) ++ WslWatchViolation(d) ++
                WslWatchMemory(d, seed) ++ WatchUsed(d) ++ WatchPcie(d) ++
                WslWatchXgmi(d, "xgmi_requests") ++ WslWatchXgmi(d, "xgmi_responses") ++
                WslWatchThroughput(d) ++ When(bulk, WslWatchClocks(d, m))) ++
           When(bulk, WslWatchScalars(m) ++ WslWatchArrays(m)) ++
           WslWatchFallbacks(d, bulk, m))

-----------------------------------------------------------------------------
\* gim: the errors of each block,
GimWatchEcc(d) == When("ecc_count" \notin d.fails, [ecc_block |-> Read(d, "ecc_block", "zero")])

\* and one stream for everything else: a metric it does not have is left, one it
\* has no value for (d.sentinels) is the 16-bit sentinel, widened but for the
\* memory clock and the hot spot.
GimWatchStream(d) ==
    LET Metric(f, na) == IF f \in d.lacks THEN na ELSE f
        In(f) == f \notin d.lacks \/ d.sentinels
        from == [gpu_clock |-> "gfx_clock", memory_temp |-> "memory_temp",
                 power |-> "package_power", avg_power |-> "package_power",
                 gfx_activity |-> "gfx_activity", umc_activity |-> "umc_activity",
                 mm_activity |-> "mm_activity", gfx_voltage |-> "gfx_voltage",
                 soc_voltage |-> "soc_voltage", mem_voltage |-> "mem_voltage",
                 pcie_bandwidth |-> "pcie_bandwidth"]
        copied == [memory_clock |-> "mem_clock", gpu_temp |-> "junction_temp"]
    IN When("metrics_stream" \notin d.fails,
            [a \in {b \in DOMAIN from : In(from[b])} |-> Metric(from[a], "na64")] ++
            [a \in {b \in DOMAIN copied : In(copied[b])} |-> Metric(copied[a], "na16")])

\* smi_watcher_update_all_watch_fields_ of gim
GimWatch(d, seed, refresh) ==
    Update(WatchReset(seed),
        When(refresh, GimWatchEcc(d) ++ WatchEccTotal(d) ++ [pcie_usage |-> "zero"]) ++
        GimWatchStream(d))

\* watcher_update_watch_db: without a session, or with a GPU the library does not
\* find, the entry of this tick is the zero it was allocated with.
GimWatched(d) == {"session_watch", "handle_from_uuid"} \intersect d.fails = {}

-----------------------------------------------------------------------------
\* The places of clocks in a list: n of a kind that has several.
Several(c, n) == [i \in 1 .. n |-> <<c, i>>]

\* The kinds that come first and have a range of their own.
Ranged(n) ==
    Several("gfx_clock", n) \o Several("mem_clock", 1) \o Several("video_clock", n) \o
    Several("data_clock", n)

\* The calls that may leave out a kind: the SOC clocks, and the single ones.
SocRead(d) == "clk_freq_soc" \notin d.fails

SingleCall ==
    [fabric_clock |-> "clk_freq_df", dce_clock |-> "clk_freq_dce", pcie_clock |-> "clk_freq_pcie"]

SingleRead(d, c) == SingleCall[c] \notin d.fails /\ c \notin d.lacks

SingleClocks(d) ==
    LET Single(c) == IF SingleRead(d, c) THEN <<<<c, 1>>>> ELSE <<>>
    IN Single("fabric_clock") \o Single("dce_clock") \o Single("pcie_clock")

\* smi_fill_clock_status_: the entry of a kind without a specification is left
\* empty in its place; the others are added when they are read.
PullSlots(d, n) ==
    Ranged(n) \o (IF SocRead(d) THEN Several("soc_clock", n) ELSE <<>>) \o SingleClocks(d)

\* The list of a watch has the entries with a value, each with an index:
\* store_clock counts the entries it does not store, too.
WatchSlots(d, m, n) ==
    LET soc == Len(Ranged(n))
        single == soc + (IF SocRead(d) THEN n ELSE 0)
    IN {<<i, Ranged(n)[i]>> : i \in {j \in 1 .. soc : Stored(d, m, Ranged(n)[j][1])}} \union
       (IF SocRead(d) THEN {<<soc + i, <<"soc_clock", i>>>> : i \in 1 .. n} ELSE {}) \union
       {<<single + i, SingleClocks(d)[i]>> : i \in DOMAIN SingleClocks(d)}
=============================================================================
