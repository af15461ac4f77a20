---------------------------- MODULE AmdsmiReads ----------------------------
(***************************************************************************)
(* What the amdsmi back end puts in the fields of a GPUGet reply           *)
(* (api/smi/amdsmi/smi_api.cc): for each function that fills a part of the *)
(* reply, the fields it writes, given the device d: the library calls that *)
(* fail (d.fails), the readings the device does not have (d.lacks), the    *)
(* filter (d.skip) and the part the GPU plays (d.partitioned, d.first).    *)
(***************************************************************************)
EXTENDS Readings

\* smi_fill_gpu_clock_frequency_spec_: a range that cannot be read stays 0 for
\* the GFX and memory clocks, and is NA for the other two.
AmdsmiClockRanges(d) ==
    [gfx_range |-> Ask(d, "clock_info_gfx", "gfx_range", "na32", "zero"),
     mem_range |-> Ask(d, "clock_info_mem", "mem_range", "na32", "zero"),
     video_range |-> Ask(d, "clock_info_video", "video_range", "na32", "na32"),
     data_range |-> Ask(d, "clock_info_data", "data_range", "na32", "na32")]

\* smi_gpu_init_config_: what is configured, read at creation only.
AmdsmiConfig(d) ==
    When("overdrive" \notin d.fails, [overdrive |-> Read(d, "overdrive", "na32")]) ++
    When("perf_level" \notin d.fails, [perf_level |-> Read(d, "perf_level", "zero")]) ++
    When("power_cap" \notin d.fails, [power_cap |-> Read(d, "power_cap", "zero")])

\* A mutant: the two identifiers change places.
EnumerationSwapped(d) ==
    When({"kfd_info", "enumeration_info"} \intersect d.fails = {},
         [kfd_id |-> Read(d, "drm_id", "na64"), drm_id |-> Read(d, "kfd_id", "na32")])

\* smi_fill_gpu_enumeration_id_status_: both calls or nothing.
AmdsmiEnumeration(d) ==
    When({"kfd_info", "enumeration_info"} \intersect d.fails = {},
         [kfd_id |-> Read(d, "kfd_id", "na64"), drm_id |-> Read(d, "drm_id", "na32")])

\* smi_fill_vram_status_
AmdsmiVramStatus(d) ==
    When("vram_info" \notin d.fails,
         [vram_type |-> Read(d, "vram_type", "zero"), vram_size |-> Read(d, "vram_size", "na64")])

\* smi_gpu_init_immutable_attrs: the strings of the board and the driver are
\* copied whether or not the call that fills them succeeded, from buffers that
\* were not cleared; the others only when it did.  A model the board does not
\* name is looked for among the asic's.
AmdsmiIdentity(d) ==
    AmdsmiClockRanges(d) ++ AmdsmiVramStatus(d) ++ AmdsmiEnumeration(d) ++
    [serial_num |-> Ask(d, "board_info", "serial_num", "zero", "junk"),
     driver_version |-> Ask(d, "driver_info", "driver_version", "zero", "junk"),
     card_model |-> LET board == Ask(d, "board_info", "card_model", "zero", "junk")
                    IN IF board = "zero" /\ "asic_info" \notin d.fails THEN "card_model" ELSE board] ++
    When("virtualization_mode" \notin d.fails,
         [virtualization_mode |-> Read(d, "virtualization_mode", "zero")]) ++
    When("vbios_info" \notin d.fails, [vbios_version |-> Read(d, "vbios_version", "zero"),
                                       card_sku |-> Read(d, "card_sku", "zero")]) ++
    When("fw_info" \notin d.fails, [fw_version |-> Read(d, "fw_version", "absent")]) ++
    When("vram_vendor" \notin d.fails, [memory_vendor |-> Read(d, "memory_vendor", "zero")]) ++
    When("bdf_id" \notin d.fails, [pcie_bus_id |-> Read(d, "pcie_bus_id", "zero")])

\* smi_gpu_init_attrs
AmdsmiCreate(d) == AmdsmiIdentity(d) ++ AmdsmiConfig(d)

-----------------------------------------------------------------------------
\* amdsmi_gpu_metrics_t, the table amdsmi_get_gpu_metrics_info fills: which
\* readings it has, and the width it has each of them in.
Metrics16 ==
    (ClockFields \ {"fabric_clock"}) \union (UsageFields \ {"gfx_busy"}) \union
    {"xgmi_width", "xgmi_speed", "avg_power", "package_power", "soc_voltage", "gfx_voltage",
     "mem_voltage", "fan_speed", "edge_temp", "junction_temp", "memory_temp", "hbm_temp"}

Metrics64 ==
    (PcieStatsFields \ {"rx_bytes", "tx_bytes"}) \union
    {"fw_timestamp", "vram_bandwidth", "energy", "xgmi_link", "gfx_activity_acc",
     "mem_activity_acc", "violation_counter", "residency_acc", "vr_acc", "hbm_acc",
     "gfx_limit_acc", "low_util_acc"}

AmdsmiMetrics(d) ==
    [f \in Metrics16 |-> Read(d, f, "na16")] ++ [f \in Metrics64 |-> Read(d, f, "na64")] ++
    [gfx_busy |-> Read(d, "gfx_busy", "na32"), throttling |-> Read(d, "throttling", "zero")]

\* smi_gpu_fill_spec: the metrics are fetched anew for every request; a fetch
\* that fails leaves no entry in the cache, and the rest of the request without.
AmdsmiCached(d) == "metrics" \notin d.fails

\* AGA_WIDEN_UINT16_NA: the readings of the table in a wider field.
Widened(m, fields, wide) == [f \in fields |-> Widen(m[f], "na16", wide)]

\* smi_fill_clock_status_: clocks come from the metrics m, ranges from the
\* specification in the reply, spec, which is read again for an RDNA GPU.  The
\* flags of a clock (locked, deep sleep) are left out.
AmdsmiClockStatus(d, m, spec) ==
    LET range == When(d.rdna /\ "clock_info_again" \notin d.fails,
                      [gfx_range |-> Read(d, "gfx_range", "na32")]) ++ spec
    IN
    [gfx_range |-> range["gfx_range"], gfx_clock_range |-> range["gfx_range"],
     mem_clock_range |-> range["mem_range"], video_clock_range |-> range["video_range"],
     data_clock_range |-> range["data_range"]] ++
    Widened(m, {"gfx_clock", "mem_clock", "video_clock", "data_clock"}, "na32") ++
    When("clk_freq_soc" \notin d.fails, Widened(m, {"soc_clock"}, "na32")) ++
    When("clk_freq_df" \notin d.fails /\ "fabric_clock" \notin d.lacks,
         [fabric_clock |-> "fabric_clock"])

\* smi_fill_pcie_status_
AmdsmiPcieStatus(d) ==
    When("pcie_info" \notin d.fails,
         [pcie_max_width |-> Read16(d, "pcie_max_width", "na32"),
          pcie_max_speed |-> Read(d, "pcie_max_speed", "na32"),
          pcie_version |-> Read(d, "pcie_version", "na32"),
          pcie_width |-> Read16(d, "pcie_width", "na32"),
          pcie_speed |-> Read(d, "pcie_speed", "na32"),
          pcie_bandwidth |-> Widen(Read(d, "pcie_bandwidth", "na32"), "na32", "na64")])

\* smi_fill_gpu_kfd_pid_status_: the number of processes, then the list.
AmdsmiProcesses(d) ==
    When("process_list" \notin d.fails, [processes |-> Read(d, "processes", "absent")])

\* A mutant: the XGMI errors are left out with the PCIe status.
AmdsmiStatusMisfiltered(d, cached, m, spec) ==
    When("skip_clock_status" \notin d.skip /\ cached,
         AmdsmiClockStatus(d, m, spec) ++ Widened(m, {"xgmi_width", "xgmi_speed"}, "na64") ++
         [f \in {"fw_timestamp", "throttling", "vram_bandwidth"} |-> m[f]]) ++
    When("skip_pcie_status" \notin d.skip,
         AmdsmiPcieStatus(d) ++ [xgmi_error |-> Read(d, "xgmi_error", "zero")]) ++
    When("skip_process_status" \notin d.skip, AmdsmiProcesses(d))

\* smi_gpu_fill_status: skip_clock_status drops all that comes from the metrics.
AmdsmiStatus(d, cached, m, spec) ==
    When("skip_clock_status" \notin d.skip /\ cached,
         AmdsmiClockStatus(d, m, spec) ++ Widened(m, {"xgmi_width", "xgmi_speed"}, "na64") ++
         [f \in {"fw_timestamp", "throttling", "vram_bandwidth"} |-> m[f]]) ++
    When("skip_pcie_status" \notin d.skip, AmdsmiPcieStatus(d)) ++
    When("skip_xgmi_status" \notin d.skip /\ "xgmi_error_status" \notin d.fails,
         [xgmi_error |-> Read(d, "xgmi_error", "zero")]) ++
    When("skip_process_status" \notin d.skip, AmdsmiProcesses(d))

-----------------------------------------------------------------------------
\* smi_fill_violation_stats_: a call that fails falls back on the metrics, which
\* have no percentages.  The low utilisation is taken from the row of the
\* partition, everything else from row 0.
AmdsmiViolation(d, m) ==
    LET accumulated == {"violation_counter", "residency_acc", "vr_acc", "hbm_acc", "gfx_limit_acc",
                        "low_util_acc"}
        percent == {"residency_per", "gfx_limit_per", "low_util_per"}
    IN IF "violation_status" \in d.fails
       THEN [f \in accumulated |-> m[f]] ++ All(percent, "na64")
       ELSE When(~ d.first /\ "low_util_acc" \notin d.lacks,
                 [low_util_acc |-> "low_util_acc_of_partition"]) ++
            [f \in accumulated \union percent |-> Read(d, f, "na64")]

\* smi_fill_ecc_stats_: a block that cannot be read keeps its count; the totals
\* add up the blocks that can.
AmdsmiEcc(d) ==
    [ecc_total |-> Ask(d, "ecc_count", "ecc_total", "zero", "zero")] ++
    When("ecc_count" \notin d.fails, [ecc_block |-> Read(d, "ecc_block", "zero")])

\* smi_fill_vram_usage_
AmdsmiVramUsage(d) ==
    LET total == Ask(d, "memory_total", "total_vram", "zero", "zero")
        used == Ask(d, "memory_usage", "used_vram", "zero", "zero")
    IN [total_vram |-> total, used_vram |-> used, free_vram |-> Derived("free_vram", {total, used})]

\* The power, voltage, temperature and energy part of smi_gpu_fill_stats.
AmdsmiPower(m) ==
    Widened(m, {"avg_power", "package_power", "soc_voltage", "gfx_voltage", "mem_voltage",
                "fan_speed"}, "na64") ++
    Widened(m, {"edge_temp", "junction_temp", "memory_temp", "hbm_temp"}, "na32") ++
    [power_usage |-> Widen(m["package_power"], "na16", "na64"), energy |-> m["energy"]]

\* What the metrics table says of the use of a GPU without partitions ...
AmdsmiActivity(m) ==
    Widened(m, UsageFields \ {"gfx_busy"}, "na32") ++
    [f \in {"gfx_busy", "gfx_activity_acc", "mem_activity_acc"} |-> m[f]]

\* ... and of a partition, for which it has no VCN and JPEG activity.
AmdsmiPartitionActivity(m) ==
    [f \in DOMAIN AmdsmiActivity(m) \ {"vcn_activity", "jpeg_activity"} |-> AmdsmiActivity(m)[f]]

\* smi_gpu_fill_stats.  What is written last wins: the metrics of the partition
\* (table p) over the ECC and violation statistics of partition 0, and for
\* partition 0 the cached metrics (table c) over both.
AmdsmiStats(d, cached, m, c, p) ==
    LET Wanted(s) == s \notin d.skip
        partition == /\ d.partitioned
                     /\ Wanted("skip_activity_stats") \/ Wanted("skip_violation_stats")
                     /\ "partition_metrics" \notin d.fails
    IN When(cached /\ d.first /\ Wanted("skip_activity_stats"),
            Widened(c, {"gfx_activity", "umc_activity"}, "na32")) ++
       When(partition /\ Wanted("skip_activity_stats"), AmdsmiPartitionActivity(p)) ++
       When(partition /\ Wanted("skip_violation_stats"), AmdsmiViolation(d, p)) ++
       When(Wanted("skip_xgmi_stats"),
            [xgmi_requests |-> Ask(d, "xgmi_counter", "xgmi_requests", "zero", "zero"),
             xgmi_responses |-> Ask(d, "xgmi_counter", "xgmi_responses", "zero", "zero")]) ++
       When(Wanted("skip_pcie_stats") /\ "pci_throughput" \notin d.fails,
            [tx_bytes |-> Read(d, "rx_bytes", "na64"), rx_bytes |-> Read(d, "tx_bytes", "na64")]) ++
       When(cached,
            AmdsmiPower(m) ++
            When(Wanted("skip_xgmi_stats"), [xgmi_link |-> m["xgmi_link"]]) ++
            When(d.first /\ Wanted("skip_ecc_stats"), AmdsmiEcc(d)) ++
            When(d.first /\ Wanted("skip_violation_stats"), AmdsmiViolation(d, m)) ++
            When(Wanted("skip_pcie_stats"),
                 [f \in PcieStatsFields \ {"rx_bytes", "tx_bytes"} |-> m[f]]) ++
            When(Wanted("skip_activity_stats") /\ ~ d.partitioned, AmdsmiActivity(m))) ++
       When(Wanted("skip_vram_usage_stats"), AmdsmiVramUsage(d)) ++
       All(UsageFields, "na32") ++
       All(PcieStatsFields \union ViolationFields \union {"xgmi_link"}, "na64")
=============================================================================
