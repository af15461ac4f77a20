------------------------------ MODULE GpuClient ------------------------------
(***************************************************************************)
(* From a reading to the screen: the protobuf message made of a GPU's      *)
(* fields (svc/gpu_to_proto.hpp) and what the command line client prints   *)
(* of it (cli/cmd/gpu.go).  The message has no presence: a field is a      *)
(* number, and the client compares it with the values that mean "nothing   *)
(* to show".  Hides... are those values, field by field.                   *)
(***************************************************************************)
EXTENDS Readings

\* The entries of a list that are counted, and so added to the message.
Listed(i, fields) == [f \in {g \in fields \intersect Repeated : i[g] # "absent"} |-> i[f]]

\* The fields that are set whatever they hold.
Set(i, fields) == [f \in fields \ Repeated |-> i[f]]

\* aga_gpu_api_spec_to_proto
SpecToProto(i) == Set(i, SpecFields) ++ Listed(i, SpecFields)

\* aga_gpu_fw_version_to_proto
FwVersionToProto(i) == Listed(i, {"fw_version"})

\* aga_gpu_process_status_to_proto
ProcessToProto(i) == Listed(i, {"processes"})

\* aga_gpu_clock_status_to_proto
ClockStatusToProto(i) == Listed(i, ClockFields \union ClockRangeFields)

\* aga_gpu_xgmi_status_to_proto
XgmiStatusToProto(i) == Set(i, {"xgmi_error", "xgmi_width", "xgmi_speed"})

\* aga_gpu_pcie_status_to_proto
PcieStatusToProto(i) ==
    Set(i, {"pcie_bus_id", "pcie_max_width", "pcie_max_speed", "pcie_version", "pcie_width",
            "pcie_speed", "pcie_bandwidth"})

\* aga_gpu_vram_status_to_proto
VramStatusToProto(i) == Set(i, {"vram_type", "vram_size", "vram_bandwidth"})

\* aga_gpu_api_status_to_proto
StatusToProto(i) ==
    FwVersionToProto(i) ++ ProcessToProto(i) ++ ClockStatusToProto(i) ++ XgmiStatusToProto(i) ++
    PcieStatusToProto(i) ++ VramStatusToProto(i) ++
    Set(i, {"serial_num", "card_model", "card_sku", "driver_version", "vbios_version",
            "memory_vendor", "virtualization_mode", "kfd_id", "drm_id", "throttling",
            "fw_timestamp"})

\* aga_gpu_usage_stats_to_proto
UsageToProto(i) == Set(i, UsageFields)

\* aga_gpu_pcie_stats_to_proto
PcieStatsToProto(i) == Set(i, PcieStatsFields)

\* aga_gpu_violation_stats_to_proto
ViolationToProto(i) == Set(i, ViolationFields)

\* aga_gpu_api_stats_to_proto
StatsToProto(i) ==
    UsageToProto(i) ++ PcieStatsToProto(i) ++ ViolationToProto(i) ++
    Set(i, StatsFields \ (UsageFields \union PcieStatsFields \union ViolationFields))

\* aga_gpu_api_info_to_proto
InfoToProto(i) == SpecToProto(i) ++ StatusToProto(i) ++ StatsToProto(i)

-----------------------------------------------------------------------------
\* printGPUSpec
HidesSpec ==
    All({"overdrive"} \union {SpecRangeOf[c] : c \in DOMAIN SpecRangeOf}, {"na32"}) ++
    All({"power_cap", "perf_level"}, {"zero"}) ++ All({"spec_fan_speed"}, {"na64"})

\* printGPUStatus, what identifies the GPU: some of it is always printed.
HidesIdentity ==
    All({"kfd_id", "drm_id", "virtualization_mode"}, {}) ++
    All({"serial_num", "card_model", "card_sku", "driver_version", "vbios_version",
         "fw_version", "memory_vendor"}, {"zero"})

\* printGPUStatus, the clocks: neither is printed if the range is not available.
HidesClocks == All(ClockFields, {"zero", "na16", "na32"}) ++ All(ClockRangeFields, {"na32"})

\* A mutant: the width and speed of the links are compared with 16 bits.
HidesXgmiNarrow ==
    All({"xgmi_width", "xgmi_speed"}, {"zero", "na16"}) ++
    All({"fw_timestamp"}, {"zero", "na64"}) ++
    All({"processes", "throttling", "xgmi_error"}, {"zero"})

\* printGPUStatus, processes, XGMI, throttling
HidesXgmi ==
    All({"xgmi_width", "xgmi_speed"}, {"zero", "na16", "na64"}) ++
    All({"fw_timestamp"}, {"zero", "na64"}) ++
    All({"processes", "throttling", "xgmi_error"}, {"zero"})

\* printGPUStatus, the PCIe link
HidesPcieStatus ==
    All({"pcie_width", "pcie_max_width"}, {"zero", "na16"}) ++
    All({"pcie_speed", "pcie_max_speed", "pcie_bandwidth"}, {"zero", "na32"}) ++
    All({"pcie_version", "pcie_bus_id"}, {"zero"})

\* printGPUStatus, the VRAM
HidesVramStatus == All({"vram_type", "vram_size", "vram_bandwidth"}, {"zero"})

\* printGPUStats, power and temperatures
HidesPower ==
    All({"package_power", "avg_power", "edge_temp", "junction_temp", "memory_temp",
         "hbm_temp"}, {"zero", "na16"})

\* printGPUStats, usage: more than 100 % is not printed, and no sentinel is less;
\* of an engine with several instances, 0 % is.
HidesUsage ==
    All({"gfx_activity", "umc_activity", "mm_activity"}, Sentinels \union {"zero"}) ++
    All(UsageFields, Sentinels)

\* printGPUStats, voltages
HidesVoltage == All({"soc_voltage", "gfx_voltage", "mem_voltage"}, {"zero", "na16"})

\* printGPUStats, PCIe counters
HidesPcieStats ==
    All({"replay_count", "recovery_count", "rollover_count"}, {"zero", "na64"}) ++
    All({"nack_count"}, {"zero", "na32", "na64"}) ++ All({"rx_bytes", "tx_bytes"}, {"na64"}) ++
    All({"bidir_bandwidth"}, {"zero", "na16", "na64"})

\* printGPUStats, VRAM
HidesVramUsage == All({"total_vram", "used_vram", "free_vram"}, {"zero"})

\* printGPUStats, energy and ECC counts
HidesEcc == All({"energy", "ecc_total", "ecc_block"}, {"zero"})

\* printGPUStats, XGMI counters
HidesXgmiStats == All({"xgmi_requests", "xgmi_responses"}, {"zero"})

\* printGPUStats, the rest of the metrics
HidesMetrics ==
    All({"power_usage"}, {"zero"}) ++ All({"fan_speed"}, {"zero", "na16"}) ++
    All({"gfx_activity_acc", "mem_activity_acc"}, {"zero", "na32", "na64"}) ++
    All({"xgmi_link"}, {"zero", "na64"})

\* printGPUStats, violations: whether the HBM residency is printed depends on
\* the one of the voltage regulator.
HidesAccumulated ==
    All({"hbm_acc"}, {}) ++ All({"violation_counter", "residency_acc", "vr_acc"}, {"na64"})

\* printGPUStats, the percentages of the same
HidesPercentages == All({"residency_per"}, {"na64"})

\* printGPUStats, the limits and the low utilisation, per instance; more than
\* 100 % is not printed.
HidesLimits ==
    All({"gfx_limit_acc", "low_util_acc"}, {"na64"}) ++
    All({"gfx_limit_per", "low_util_per"}, Sentinels)

Hides ==
    HidesSpec ++ HidesIdentity ++ HidesClocks ++ HidesXgmi ++ HidesPcieStatus ++
    HidesVramStatus ++ HidesPower ++ HidesUsage ++ HidesVoltage ++ HidesPcieStats ++
    HidesVramUsage ++ HidesEcc ++ HidesXgmiStats ++ HidesMetrics ++ HidesAccumulated ++
    HidesPercentages ++ HidesLimits

\* The label a clock or a range is printed under needs the one of the other.
ClockShown(msg, c) ==
    /\ c \in DOMAIN msg /\ msg[c] \notin Hides[c]
    /\ c \in DOMAIN RangeOf => msg[RangeOf[c]] \notin Hides[RangeOf[c]]

\* The responses sent over XGMI are printed with the number of requests.
Printed(msg, f) == IF f = "xgmi_responses" THEN msg["xgmi_requests"] ELSE msg[f]

\* What is on the screen: labels, with what is printed after them.
Shown(msg, labels) ==
    [f \in {g \in labels \intersect DOMAIN msg :
                /\ msg[g] \notin Hides[g]
                /\ g \in ClockFields => ClockShown(msg, g)
                /\ \A c \in DOMAIN RangeOf : g = RangeOf[c] => ClockShown(msg, c)
                /\ g = "hbm_acc" => msg["vr_acc"] \notin Hides["vr_acc"]}
         |-> Printed(msg, f)]

\* addGPUSkipFlags: what can be left out of a reply, and the parts it says it is.
SkipFlags ==
    {"skip_clock_status", "skip_pcie_status", "skip_xgmi_status", "skip_process_status",
     "skip_vram_usage_stats", "skip_ecc_stats", "skip_violation_stats", "skip_pcie_stats",
     "skip_xgmi_stats", "skip_activity_stats"}

\* gpuShowCmdHandler, gpuStatsShowCmdHandler and gpuAllShowCmdHandler; only the
\* last one sends a filter.
Commands == {"show", "show status", "show statistics", "show all"}

ShowCommand(msg, status) ==
    Shown(msg, IF status THEN IdentityFields \union StatusFields ELSE SpecFields)

StatsCommand(msg) == Shown(msg, StatsFields)

AllCommand(msg) == Shown(msg, SpecFields) ++ Shown(msg, IdentityFields \union StatusFields) ++
                   Shown(msg, StatsFields)

Screen(command, msg) ==
    CASE command = "show" -> ShowCommand(msg, FALSE)
      [] command = "show status" -> ShowCommand(msg, TRUE)
      [] command = "show statistics" -> StatsCommand(msg)
      [] command = "show all" -> AllCommand(msg)
=============================================================================
