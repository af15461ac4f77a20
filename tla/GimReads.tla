------------------------------ MODULE GimReads ------------------------------
(***************************************************************************)
(* What the gim back end puts in the fields of a GPUGet reply              *)
(* (api/smi/gimamdsmi/smi_api.cc).  The host of a virtualised GPU has no   *)
(* metrics table: a call per reading, a stream of metrics for the engines  *)
(* and the throttling, and no more.  Each function begins with a session   *)
(* (see GimSession); a session that cannot be had ends it there.           *)
(***************************************************************************)
EXTENDS Readings

\* AGA_SMI_SESSION_GUARD: the session of the function of this stage.
Guarded(d, stage, update) == When(stage \notin d.fails, update)

\* smi_fill_gpu_clock_frequency_spec_: each range, if the call for it succeeds.
GimClockRanges(d) ==
    When("clock_info_gfx" \notin d.fails, [gfx_range |-> Read(d, "gfx_range", "na32")]) ++
    When("clock_info_mem" \notin d.fails, [mem_range |-> Read(d, "mem_range", "na32")]) ++
    When("clock_info_video" \notin d.fails, [video_range |-> Read(d, "video_range", "na32")]) ++
    When("clock_info_data" \notin d.fails, [data_range |-> Read(d, "data_range", "na32")])

\* smi_gpu_fill_spec: what this library does not know, and the power cap.
GimSpecFields(d) ==
    Guarded(d, "session_spec",
        [overdrive |-> "na32", perf_level |-> "zero", spec_fan_speed |-> "na64"] ++
        When("power_cap" \notin d.fails, [power_cap |-> Read(d, "power_cap", "zero")]))

\* smi_get_gpu_metrics_stream: one metric of the stream, if there is a stream
\* and the metric is in it.
Streamed(d, f, missed) ==
    IF "metrics_stream" \in d.fails \/ f \in d.lacks THEN missed ELSE f

\* smi_fill_vram_status_
GimVramStatus(d) ==
    When("vram_info" \notin d.fails,
         [vram_type |-> Read(d, "vram_type", "zero"), vram_size |-> Read(d, "vram_size", "na64"),
          memory_vendor |-> Read(d, "memory_vendor", "zero")]) ++
    [vram_bandwidth |-> Streamed(d, "vram_bandwidth", "na64")]

\* smi_gpu_init_immutable_attrs
GimIdentity(d) ==
    Guarded(d, "session_create",
        GimClockRanges(d) ++ GimVramStatus(d) ++
        [f \in {"serial_num", "card_model"} |-> Ask(d, "board_info", f, "zero", "zero")] ++
        [driver_version |-> Ask(d, "driver_info", "driver_version", "zero", "zero")] ++
        When("virtualization_mode" \notin d.fails,
             [virtualization_mode |-> Read(d, "virtualization_mode", "zero")]) ++
        When("vbios_info" \notin d.fails, [vbios_version |-> Read(d, "vbios_version", "zero"),
                                           card_sku |-> Read(d, "card_sku", "zero")]) ++
        When("fw_info" \notin d.fails, [fw_version |-> Read(d, "fw_version", "absent")]))

\* smi_gpu_init_attrs
GimCreate(d) == GimSpecFields(d) ++ GimIdentity(d)

-----------------------------------------------------------------------------
\* amdsmi_get_clock_info, once per clock.
ClockCall ==
    [gfx_clock |-> "clock_info_gfx", mem_clock |-> "clock_info_mem",
     video_clock |-> "clock_info_video", data_clock |-> "clock_info_data",
     soc_clock |-> "clock_info_soc", fabric_clock |-> "clock_info_fabric"]

\* smi_fill_clock_status_: the clock and its range, of each clock whose call
\* succeeds.
GimClockStatus(d) ==
    LET read == {c \in ClockFields : ClockCall[c] \notin d.fails}
    IN [c \in read |-> Read(d, c, "na32")] ++
       [r \in {RangeOf[c] : c \in read \intersect DOMAIN RangeOf} |->
            LET c == CHOOSE x \in DOMAIN RangeOf : RangeOf[x] = r
            IN Read(d, SpecRangeOf[c], "na32")]

\* smi_fill_pcie_status_
GimPcieStatus(d) ==
    When("pcie_info" \notin d.fails,
         [pcie_max_width |-> Read16(d, "pcie_max_width", "na32"),
          pcie_max_speed |-> Read(d, "pcie_max_speed", "na32"),
          pcie_version |-> Read(d, "pcie_version", "na32"),
          pcie_width |-> Read16(d, "pcie_width", "na32"),
          pcie_speed |-> Read(d, "pcie_speed", "na32"),
          pcie_bandwidth |-> Widen(Read(d, "pcie_bandwidth", "na32"), "na32", "na64")]) ++
    When("bdf_id" \notin d.fails, [pcie_bus_id |-> Read(d, "pcie_bus_id", "zero")])

\* smi_gpu_fill_status
GimStatus(d) ==
    Guarded(d, "session_status",
        [xgmi_width |-> "na64", xgmi_speed |-> "na64", xgmi_error |-> "zero"] ++
        When("skip_clock_status" \notin d.skip, GimClockStatus(d)) ++
        When("skip_pcie_status" \notin d.skip, GimPcieStatus(d)))

-----------------------------------------------------------------------------
\* smi_fill_ecc_stats_: a block that cannot be read keeps its count.
GimEcc(d) ==
    [ecc_total |-> Ask(d, "ecc_count", "ecc_total", "zero", "zero")] ++
    When("ecc_count" \notin d.fails, [ecc_block |-> Read(d, "ecc_block", "zero")])

\* smi_walk_gpu_metrics: what the stream has, over sentinels; no percentages.
GimWalk(d) ==
    LET engines == {"vcn_activity", "vcn_busy", "jpeg_activity", "jpeg_busy", "gfx_busy"}
        percent == {"residency_per", "gfx_limit_per", "low_util_per"}
    IN [f \in engines |-> Streamed(d, f, "na32")] ++
       [f \in ViolationFields \ percent |-> Streamed(d, f, "na64")] ++
       All(percent, "na64")

\* smi_gpu_fill_stats: the sentinels are set after the session is had, those of
\* the violations by the walk only, which either of two filters asks for.
GimStats(d) ==
    LET Wanted(s) == s \notin d.skip
        power == {"package_power", "soc_voltage", "gfx_voltage", "mem_voltage"}
    IN Guarded(d, "session_stats",
           When("power_info" \notin d.fails, [f \in power |-> Read(d, f, "na64")]) ++
           When(Wanted("skip_activity_stats") /\ "gpu_activity" \notin d.fails,
                [f \in {"gfx_activity", "umc_activity", "mm_activity"} |-> Read(d, f, "na32")]) ++
           When(Wanted("skip_activity_stats") \/ Wanted("skip_violation_stats"), GimWalk(d)) ++
           When(Wanted("skip_pcie_stats") /\ "pcie_metric" \notin d.fails,
                [f \in {"replay_count", "recovery_count", "rollover_count", "nack_count"} |->
                     Read(d, f, "na64")]) ++
           When("temp_metric" \notin d.fails,
                [f \in {"edge_temp", "junction_temp", "memory_temp", "hbm_temp"} |->
                     Read(d, f, "zero")]) ++
           When(Wanted("skip_ecc_stats"), GimEcc(d)) ++
           All({"total_vram", "used_vram", "free_vram"}, "na64") ++
           All(UsageFields, "na32") ++
           All(PcieStatsFields \union {"xgmi_link"}, "na64"))
=============================================================================
