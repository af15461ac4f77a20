------------------------------ MODULE WslReads ------------------------------
(***************************************************************************)
(* What the wsl back end puts in the fields of a GPUGet reply              *)
(* (api/smi/wslamdsmi/smi_api.cc).  It is written as the amdsmi back end   *)
(* is, so most of its functions fill the fields those of AmdsmiReads do;   *)
(* what differs is the metrics table.  The library may give zero, not a    *)
(* sentinel, for a reading it does not have, and may not support the table *)
(* at all; each entry that is zero is then asked for by a call of its own. *)
(* WslGet has the cache and its races, this module the values.             *)
(***************************************************************************)
EXTENDS AmdsmiReads

\* smi_fill_gpu_clock_frequency_spec_
WslClockRanges(d) == AmdsmiClockRanges(d)

\* smi_gpu_init_config_
WslConfig(d) == AmdsmiConfig(d)

\* smi_fill_gpu_enumeration_id_status_
WslEnumeration(d) == AmdsmiEnumeration(d)

\* smi_fill_vram_status_
WslVramStatus(d) == AmdsmiVramStatus(d)

\* smi_gpu_init_immutable_attrs: as that of amdsmi, from buffers that are cleared.
WslIdentity(d) ==
    WslClockRanges(d) ++ WslVramStatus(d) ++ WslEnumeration(d) ++
    [serial_num |-> Ask(d, "board_info", "serial_num", "zero", "zero"),
     driver_version |-> Ask(d, "driver_info", "driver_version", "zero", "zero"),
     card_model |-> IF "asic_info" \notin d.fails THEN "card_model"
                    ELSE Ask(d, "board_info", "card_model", "zero", "zero")] ++
    When("virtualization_mode" \notin d.fails,
         [virtualization_mode |-> Read(d, "virtualization_mode", "zero")]) ++
    When("vbios_info" \notin d.fails, [vbios_version |-> Read(d, "vbios_version", "zero"),
                                       card_sku |-> Read(d, "card_sku", "zero")]) ++
    When("fw_info" \notin d.fails, [fw_version |-> Read(d, "fw_version", "absent")]) ++
    When("vram_vendor" \notin d.fails, [memory_vendor |-> Read(d, "memory_vendor", "zero")]) ++
    When("bdf_id" \notin d.fails, [pcie_bus_id |-> Read(d, "pcie_bus_id", "zero")])

\* smi_gpu_init_attrs
WslCreate(d) == WslIdentity(d) ++ WslConfig(d)

-----------------------------------------------------------------------------
\* The counters the WSL library's table has in 32 bits only.
Wsl32 == {"nack_count", "gfx_activity_acc", "mem_activity_acc"}

\* amdsmi_get_gpu_metrics_info of the WSL library: a table that has zero, or a
\* sentinel (d.sentinels), for what it lacks; or none, and then the caller's own,
\* all zero.
WslTable(d) ==
    IF "metrics_table" \in d.fails THEN All(DOMAIN AmdsmiMetrics(d), "zero")
    ELSE IF d.sentinels THEN [f \in Wsl32 |-> Read(d, f, "na32")] ++ AmdsmiMetrics(d)
    ELSE [f \in DOMAIN AmdsmiMetrics(d) |-> Read(d, f, "zero")]

\* A call that asks for one entry ("individual_calls": all of them fail).
Answered(d, call) == {call, "individual_calls"} \intersect d.fails = {}

\* smi_wsl_fill_metrics_from_individual_: an entry that is zero takes what the
\* call gives, cut to 16 bits: the "not available" of 32 bits becomes that of 16.
\* A power the device does not have stays zero, and so does an entry whose call
\* gives only what is more than zero.
WslRefilled(d, t) ==
    LET Asked(f, call, na) == IF t[f] = "zero" /\ Answered(d, call) THEN Read(d, f, na) ELSE t[f]
        replay == Asked("replay_count", "pcie_metric", "na64")
    IN [umc_activity |-> Asked("umc_activity", "gpu_activity", "na16"),
        gfx_activity |-> LET v == Asked("gfx_activity", "gpu_activity", "na16")
                         IN IF v = "zero" /\ Answered(d, "busy_percent")
                            THEN Read(d, "gfx_activity", "zero") ELSE v,
        package_power |-> Asked("package_power", "power_info", "zero"),
        avg_power |-> Asked("avg_power", "power_info", "zero"),
        gfx_clock |-> Asked("gfx_clock", "clock_info", "na16"),
        soc_clock |-> Asked("soc_clock", "clock_info", "na16"),
        mem_clock |-> Asked("mem_clock", "clock_info", "na16"),
        edge_temp |-> Asked("edge_temp", "temp_metric", "zero"),
        junction_temp |-> Asked("junction_temp", "temp_metric", "zero"),
        memory_temp |-> Asked("memory_temp", "temp_metric", "zero"),
        fan_speed |-> Asked("fan_speed", "fan_rpms", "zero"),
        gfx_voltage |-> Asked("gfx_voltage", "volt_metric", "zero"),
        replay_count |-> IF replay = "zero" /\ Answered(d, "replay_counter")
                         THEN Read(d, "replay_count", "zero") ELSE replay] ++ t

WslMetrics(d) == WslRefilled(d, WslTable(d))

\* The structure counts as filled: the library said so, or one of these is not 0.
WslFilled(d, m) ==
    \/ "metrics_table" \notin d.fails
    \/ \E f \in {"package_power", "gfx_clock", "soc_clock", "mem_clock", "gfx_activity",
                 "umc_activity"} : m[f] # "zero"

\* smi_gpu_fill_spec: what a Get finds in the cache, if it is there and filled.
WslCached(d) == "metrics" \notin d.fails /\ WslFilled(d, WslMetrics(d))

\* smi_fill_clock_status_
WslClockStatus(d, m, spec) == AmdsmiClockStatus(d, m, spec)

\* smi_fill_pcie_status_
WslPcieStatus(d) == AmdsmiPcieStatus(d)

\* smi_gpu_fill_status
WslStatus(d, cached, m, spec) ==
    When("skip_clock_status" \notin d.skip /\ cached,
         WslClockStatus(d, m, spec) ++ Widened(m, {"xgmi_width", "xgmi_speed"}, "na64") ++
         [f \in {"fw_timestamp", "throttling", "vram_bandwidth"} |-> m[f]]) ++
    When("skip_pcie_status" \notin d.skip, WslPcieStatus(d)) ++
    When("skip_xgmi_status" \notin d.skip /\ "xgmi_error_status" \notin d.fails,
         [xgmi_error |-> Read(d, "xgmi_error", "zero")]) ++
    When("skip_process_status" \notin d.skip, AmdsmiProcesses(d))

-----------------------------------------------------------------------------
\* smi_fill_violation_stats_
WslViolation(d, m) == AmdsmiViolation(d, m)

\* smi_fill_ecc_stats_
WslEcc(d) == AmdsmiEcc(d)

\* smi_fill_vram_usage_
WslVramUsage(d) == AmdsmiVramUsage(d)

\* The table of a partition is a call of its own, and is not refilled.
WslPartitionMetrics(d) == WslTable([d EXCEPT !.fails = @ \ {"metrics_table"}])

\* smi_gpu_fill_stats fetches once more when the cache gave no filled structure;
\* the refreshed table is what the cache holds then.
WslTableUsed(d) == WslCached(d) \/ ("metrics_again" \notin d.fails /\ WslFilled(d, WslMetrics(d)))

\* A power, and an activity, of zero is asked for once more ...
WslRefreshed(d, m) ==
    When(m["package_power"] = "zero" /\ "power_info_again" \notin d.fails,
         [f \in {"package_power", "avg_power"} |-> IF f \in d.lacks THEN m[f] ELSE f]) ++
    When(/\ ~ d.partitioned /\ "skip_activity_stats" \notin d.skip
         /\ m["gfx_activity"] = "zero" /\ "gpu_activity_again" \notin d.fails,
         [f \in {"gfx_activity", "umc_activity"} |-> Read(d, f, "na16")]) ++ m

\* ... but the cached table, not the refreshed one, has the last word on the
\* activity of partition 0 and of a GPU without partitions.
WslStats(d) ==
    LET m == WslMetrics(d)
    IN AmdsmiStats(d, WslTableUsed(d), WslRefreshed(d, m), m, WslPartitionMetrics(d))
=============================================================================
