------------------------------- MODULE GpuShow -------------------------------
(***************************************************************************)
(* A GPUGet from the library's readings to the operator's screen, through  *)
(* each of three back ends: the object is created and reads what does not  *)
(* change; a command of the client asks for the GPU; the specification,    *)
(* the status and the statistics are filled, each with calls that may fail *)
(* on their own; the message is made, and printed.  gpu_entry::read is     *)
(* what the stages follow.                                                 *)
(*                                                                         *)
(* Only one GPUGet is followed: GpuGet and WslGet have several that share  *)
(* the cached metrics, GimSession the sessions.                            *)
(***************************************************************************)
EXTENDS GpuReads, GpuClient, FiniteSets

CONSTANTS
    Shortages,      \* sets of fields a device may have no reading for
    MaxTrouble      \* bound: shortages, failed calls and filters of a behaviour

ASSUME ShowAssumption ==
    /\ \A s \in Shortages : s \subseteq Fields
    /\ MaxTrouble \in Nat

VARIABLES
    device,    \* the GPU and its back end; fails: the calls of this GPUGet that fail
    stage,     \* what is done next
    failed,    \* failed calls so far
    command,   \* the client's
    info,      \* aga_gpu_info_t: as created, then as filled for the reply
    message,   \* the GPU in the GPUGetResponse
    screen     \* what the client printed

showVars == <<device, stage, failed, command, info, message, screen>>

\* The GPUs: what they are, and how the WSL library says what it does not know.
Devices(lacks) ==
    {Device("amdsmi", role, FALSE, TRUE, lacks) : role \in {"whole", "first", "other", "parent"}}
    \union {Device("amdsmi", "whole", TRUE, TRUE, lacks), Device("gim", "whole", FALSE, TRUE, lacks)}
    \union {Device("wsl", role, FALSE, s, lacks) : role \in {"whole", "first", "other"},
                                                   s \in BOOLEAN}

\* The calls a stage makes.
Calls(backend, at) ==
    CASE at = "create" ->
           {"clock_info_gfx", "clock_info_mem", "clock_info_video", "clock_info_data", "vram_info",
            "board_info", "driver_info", "virtualization_mode", "vbios_info", "fw_info",
            "power_cap"} \union
           (IF backend = "gim" THEN {"session_create", "session_spec", "metrics_stream"}
            ELSE {"overdrive", "perf_level", "kfd_info", "enumeration_info", "asic_info",
                  "vram_vendor", "bdf_id"})
      [] at = "spec" ->
           IF backend = "gim" THEN {"session_spec", "power_cap"}
           ELSE IF backend = "amdsmi" THEN {"metrics"}
           ELSE {"metrics", "metrics_table", "individual_calls", "gpu_activity", "busy_percent",
                 "power_info", "clock_info", "temp_metric", "fan_rpms", "volt_metric",
                 "pcie_metric", "replay_counter"}
      [] at = "status" ->
           IF backend = "gim"
           THEN {"session_status", "pcie_info", "bdf_id"} \union {ClockCall[c] : c \in ClockFields}
           ELSE {"clock_info_again", "clk_freq_soc", "clk_freq_df", "pcie_info",
                 "xgmi_error_status", "process_list"}
      [] at = "stats" ->
           (IF backend = "gim"
            THEN {"session_stats", "power_info", "gpu_activity", "metrics_stream", "pcie_metric",
                  "temp_metric", "ecc_count"}
            ELSE {"violation_status", "ecc_count", "memory_total", "memory_usage", "xgmi_counter",
                  "pci_throughput", "partition_metrics"}) \union
           (IF backend = "wsl" THEN {"metrics_again", "power_info_again", "gpu_activity_again"}
            ELSE {})

\* Failures of a stage, with what is left of the bound.
Trouble == Cardinality(device.skip) + failed + (IF device.lacks = {} THEN 0 ELSE 1)

Failures(at) == Upto(MaxTrouble - Trouble, Calls(device.backend, at))

-----------------------------------------------------------------------------
\* gpu_entry::init_attrs, by way of the back end.
Create ==
    /\ stage = "create"
    /\ \E fails \in Failures("create") :
           /\ info' = Update(Cleared, Created([device EXCEPT !.fails = fails]))
           /\ failed' = failed + Cardinality(fails)
    /\ stage' = "request"
    /\ UNCHANGED <<device, command, message, screen>>

\* The client sends a GPUGet for the GPU; the reply starts with what creation
\* left in the object, a parent GPU's with nothing (gpu_entry::fill_spec_,
\* fill_status_).
Request ==
    /\ stage = "request"
    /\ command' \in Commands
    /\ \E skip \in Upto(MaxTrouble - Trouble, SkipFlags) :
           /\ skip # {} => command' = "show all"
           /\ device' = [device EXCEPT !.skip = skip]
    /\ info' = IF device.parent THEN Cleared ELSE info
    /\ stage' = IF device.parent THEN "reply" ELSE "spec"
    /\ UNCHANGED <<failed, message, screen>>

Filled(at, update(_)) ==
    /\ \E fails \in Failures(at) :
           /\ device' = [device EXCEPT !.fails = @ \union fails]
           /\ failed' = failed + Cardinality(fails)
           /\ info' = Update(info, update([device EXCEPT !.fails = @ \union fails]))
    /\ UNCHANGED <<command, message, screen>>

\* smi_gpu_fill_spec: amdsmi and wsl fetch the metrics.
FillSpec ==
    /\ stage = "spec"
    /\ stage' = "status"
    /\ Filled("spec", SpecOf)

\* smi_gpu_fill_status
FillStatus ==
    /\ stage = "status"
    /\ stage' = "stats"
    /\ LET Status(d) == StatusOf(d, info) IN Filled("status", Status)

\* smi_gpu_fill_stats
FillStats ==
    /\ stage = "stats"
    /\ stage' = "reply"
    /\ Filled("stats", StatsOf)

\* aga_svc_gpu_get: the reply,
Reply ==
    /\ stage = "reply"
    /\ stage' = "print"
    /\ message' = InfoToProto(info)
    /\ UNCHANGED <<device, failed, command, info, screen>>

\* and the client prints it.
Display ==
    /\ stage = "print"
    /\ stage' = "shown"
    /\ screen' = Screen(command, message)
    /\ UNCHANGED <<device, failed, command, info, message>>

ShowInit ==
    /\ device \in UNION {Devices(lacks) : lacks \in {{}} \union Shortages}
    /\ stage = "create"
    /\ failed = 0
    /\ command = "none"
    /\ info = Untouched
    /\ message = Untouched
    /\ screen = Untouched

ShowNext == Create \/ Request \/ FillSpec \/ FillStatus \/ FillStats \/ Reply \/ Display

ShowSpec == ShowInit /\ [][ShowNext]_showVars

-----------------------------------------------------------------------------
\* The values a field can hold, the swapped and the shared readings included.
Origins(f) ==
    CASE f = "rx_bytes" -> {"tx_bytes"}
      [] f = "tx_bytes" -> {"rx_bytes"}
      [] f = "power_usage" -> {"package_power"}
      [] f = "low_util_acc" -> {f, "low_util_acc_of_partition"}
      [] f \in ClockRangeFields -> {SpecRangeOf[c] : c \in {x \in DOMAIN RangeOf : RangeOf[x] = f}}
      [] OTHER -> {f}

\* The type invariant.
ShowTypeOK ==
    /\ device.skip \subseteq SkipFlags
    /\ stage \in {"create", "request", "spec", "status", "stats", "reply", "print", "shown"}
    /\ failed \in 0 .. MaxTrouble
    /\ command \in Commands \union {"none"}
    /\ DOMAIN info = IF stage = "create" THEN {} ELSE Fields
    /\ DOMAIN message \subseteq Fields
    /\ DOMAIN screen \subseteq Fields

\* What a field of the reply says is about that field (smi_gpu_fill_spec,
\* smi_gpu_fill_status, smi_gpu_fill_stats): its reading, a sentinel or zero.
\* It is something else for the strings of a board that was not read (amdsmi),
\* and for the free memory if one of the other two was.
RepliesHoldReadings ==
    stage \in {"reply", "print", "shown"} =>
        \A f \in Fields :
            \/ info[f] \in Origins(f) \union Sentinels \union {"zero", "absent"}
            \/ f = "free_vram"
            \/ device.backend = "amdsmi" /\ f \in {"serial_num", "card_model", "driver_version"}

\* "Widen the narrow NA sentinel to the destination width" (smi.hpp,
\* smi_api.cc): no field of a reply holds the sentinel of another width.
SentinelOfOwnWidth ==
    stage \in {"reply", "print", "shown"} =>
        \A f \in Fields : info[f] \in Sentinels =>
            info[f] = OwnNA(f) \/ (device.backend = "wsl" /\ f \in Wsl32)

\* Fields whose sentinel is 32 or 64 bits wide in a reply, and which the client
\* compares with a narrower one (gpu.go:1058-1096, 1186-1224, 1338-1356, 1766).
NarrowlyCompared ==
    {"package_power", "avg_power", "soc_voltage", "gfx_voltage", "mem_voltage", "fan_speed",
     "edge_temp", "junction_temp", "memory_temp", "hbm_temp", "pcie_width", "pcie_max_width",
     "pcie_bandwidth"}

\* Fields it compares with zero, or prints always.
ComparedWithZero ==
    {"pcie_version", "vram_size", "vram_bandwidth", "energy", "power_usage", "kfd_id", "drm_id",
     "total_vram", "used_vram", "free_vram"}

\* The client prints no sentinel as if it were a number (cli/cmd/gpu.go), but
\* for the fields it compares with a narrower one, or with none, and for the
\* HBM residency, which it compares with nothing when the voltage regulator's is
\* there.
MissingIsHidden ==
    stage = "shown" =>
        \A f \in DOMAIN screen : screen[f] \in Sentinels =>
            f \in NarrowlyCompared \union ComparedWithZero \union {"hbm_acc"}

\* Fields that are zero until a call succeeds, and are printed when they are.
PrintedWhenZero ==
    {"kfd_id", "drm_id", "virtualization_mode", "spec_fan_speed", "overdrive", "gfx_range",
     "mem_range", "gfx_clock_range", "mem_clock_range"}

\* Statistics that are printed when they are zero.
PrintedStats == (UsageFields \ {"gfx_activity", "umc_activity", "mm_activity"}) \union
                {"rx_bytes", "tx_bytes"} \union ViolationFields

\* Who fills the statistics with something before it asks for them: not the
\* request for a parent GPU, not gim without a session or with both filters of
\* the stream, not the WSL library for readings it does not have.
StatsPrepared ==
    CASE device.parent -> FALSE
      [] device.backend = "wsl" -> device.sentinels /\ "metrics_table" \notin device.fails
      [] device.backend = "gim" ->
             /\ "session_stats" \notin device.fails
             /\ ~ {"skip_activity_stats", "skip_violation_stats"} \subseteq device.skip
      [] OTHER -> TRUE

\* No statistic is printed as 0 unless the device said so: smi_gpu_fill_stats
\* sets them to "not available" before any call that may fail or be skipped.
\* What is printed for the XGMI responses is the number of requests, which may
\* be 0 when there are responses to print.
ZeroIsMeasured ==
    stage = "shown" =>
        \A f \in DOMAIN screen : screen[f] = "zero" =>
            \/ f \in PrintedWhenZero
            \/ f \in PrintedStats /\ ~ StatsPrepared
            \/ f = "xgmi_responses"

\* What was measured, and the command asks for, is printed under its own label;
\* a clock and its range need one another, the HBM residency needs the voltage
\* regulator's, and the label of the XGMI responses has the requests.
MeasuredIsShown ==
    stage = "shown" /\ command = "show all" =>
        \A f \in Fields : info[f] \in Origins(f) =>
            \/ f \in DOMAIN screen /\ screen[f] = info[f]
            \/ \E c \in DOMAIN RangeOf :
                   /\ f \in {c, RangeOf[c]}
                   /\ {info[c], info[RangeOf[c]]} \intersect (NoReading \ {"junk"}) # {}
            \/ f = "hbm_acc" /\ info["vr_acc"] \in NoReading
            \/ f = "xgmi_responses"

\* What a filter leaves out (GPUGetFilter, gpu.proto:815-838), and, for the clocks
\* of amdsmi and wsl, all else that is read from the metrics in that branch.
ScopeOf(skip) ==
    CASE skip = "skip_clock_status" ->
             ClockFields \union ClockRangeFields \union
             {"fw_timestamp", "throttling", "xgmi_width", "xgmi_speed", "vram_bandwidth"}
      [] skip = "skip_pcie_status" ->
             {"pcie_bus_id", "pcie_max_width", "pcie_max_speed", "pcie_version", "pcie_width",
              "pcie_speed", "pcie_bandwidth"}
      [] skip = "skip_xgmi_status" -> {"xgmi_error"}
      [] skip = "skip_process_status" -> {"processes"}
      [] skip = "skip_vram_usage_stats" -> {"total_vram", "used_vram", "free_vram"}
      [] skip = "skip_ecc_stats" -> {"ecc_total", "ecc_block"}
      [] skip = "skip_violation_stats" -> ViolationFields
      [] skip = "skip_pcie_stats" -> PcieStatsFields
      [] skip = "skip_xgmi_stats" -> {"xgmi_requests", "xgmi_responses", "xgmi_link"}
      [] skip = "skip_activity_stats" ->
             UsageFields \union {"gfx_activity_acc", "mem_activity_acc"}

\* What a back end has no call for, or not for this GPU.
NotProvided(d) ==
    {"spec_fan_speed"} \union
    (IF d.backend = "gim"
     THEN {"overdrive", "perf_level", "kfd_id", "drm_id", "processes",
           "xgmi_error", "xgmi_width", "xgmi_speed", "throttling", "fw_timestamp", "avg_power",
           "power_usage", "energy", "fan_speed", "total_vram", "used_vram", "free_vram",
           "xgmi_requests", "xgmi_responses", "xgmi_link", "gfx_activity_acc",
           "mem_activity_acc", "rx_bytes", "tx_bytes", "bidir_bandwidth", "residency_per",
           "gfx_limit_per", "low_util_per"}
     ELSE (IF d.partitioned THEN {"vcn_activity", "jpeg_activity"} ELSE {}) \union
          (IF d.first THEN {} ELSE {"ecc_total", "ecc_block"}))

\* A GPU that has every reading, and all of whose calls are answered, is reported
\* in full: whatever order smi_gpu_fill_status and smi_gpu_fill_stats fill and
\* overwrite fields in, a filter takes away the fields it names, and no others.
HealthyIsFull ==
    stage \in {"reply", "print", "shown"} /\ failed = 0 /\ device.lacks = {} /\ ~ device.parent =>
        \A f \in Fields \ (NotProvided(device) \union UNION {ScopeOf(s) : s \in device.skip}) :
            info[f] \in Origins(f)

\* What goes out in a reply is what was read, and a sentinel where nothing was.
RepliesFaithful == RepliesHoldReadings /\ SentinelOfOwnWidth

\* What the client prints is what was measured, all of it and nothing else
\* (cli/cmd/gpu.go).
ScreenFaithful == MissingIsHidden /\ ZeroIsMeasured /\ MeasuredIsShown
=============================================================================
