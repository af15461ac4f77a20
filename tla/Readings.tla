------------------------------ MODULE Readings ------------------------------
(***************************************************************************)
(* What a field of a GPUGet reply can hold.  A reading the device gave is  *)
(* written as the name of the field it belongs to, so that a value that    *)
(* ends up in another field is seen.  The other values are the zero a      *)
(* buffer was cleared to, "absent" for a list without the entry, the       *)
(* sentinels that say "not available" in the width they were written in,   *)
(* and "junk": a number computed from, or copied out of, something that is *)
(* no reading.                                                             *)
(*                                                                         *)
(* A field stands for all the fields the code treats alike: one for the    *)
(* correctable, uncorrectable and deferred errors of every block, one for  *)
(* the VRAM, visible VRAM and GTT totals, and so on.                       *)
(***************************************************************************)
EXTENDS Naturals

SpecFields ==
    {"overdrive", "perf_level", "power_cap", "gfx_range", "mem_range", "video_range",
     "data_range", "spec_fan_speed"}

\* Strings and identifiers, read once, when the GPU object is created.
IdentityFields ==
    {"serial_num", "card_model", "card_sku", "driver_version", "vbios_version", "fw_version",
     "memory_vendor", "pcie_bus_id", "virtualization_mode", "kfd_id", "drm_id", "vram_type",
     "vram_size"}

ClockFields ==
    {"gfx_clock", "mem_clock", "video_clock", "data_clock", "soc_clock", "fabric_clock"}

\* The frequency range some clocks are listed with, and the specification's.
RangeOf ==
    [gfx_clock |-> "gfx_clock_range", mem_clock |-> "mem_clock_range",
     video_clock |-> "video_clock_range", data_clock |-> "data_clock_range"]

SpecRangeOf ==
    [gfx_clock |-> "gfx_range", mem_clock |-> "mem_range",
     video_clock |-> "video_range", data_clock |-> "data_range"]

ClockRangeFields == {RangeOf[c] : c \in DOMAIN RangeOf}

StatusFields ==
    ClockFields \union ClockRangeFields \union
    {"processes", "xgmi_error", "xgmi_width", "xgmi_speed", "throttling", "fw_timestamp",
     "pcie_max_width", "pcie_max_speed", "pcie_version", "pcie_width", "pcie_speed",
     "pcie_bandwidth", "vram_bandwidth"}

UsageFields ==
    {"gfx_activity", "umc_activity", "mm_activity", "vcn_activity", "jpeg_activity",
     "vcn_busy", "jpeg_busy", "gfx_busy"}

PcieStatsFields ==
    {"replay_count", "recovery_count", "rollover_count", "nack_count", "rx_bytes", "tx_bytes",
     "bidir_bandwidth"}

ViolationFields ==
    {"violation_counter", "residency_acc", "vr_acc", "hbm_acc", "residency_per", "gfx_limit_acc",
     "low_util_acc", "gfx_limit_per", "low_util_per"}

StatsFields ==
    UsageFields \union PcieStatsFields \union ViolationFields \union
    {"package_power", "avg_power", "power_usage", "soc_voltage", "gfx_voltage", "mem_voltage",
     "edge_temp", "junction_temp", "memory_temp", "hbm_temp", "fan_speed", "energy",
     "total_vram", "used_vram", "free_vram", "ecc_total", "ecc_block", "xgmi_requests",
     "xgmi_responses", "xgmi_link", "gfx_activity_acc", "mem_activity_acc"}

Fields == SpecFields \union IdentityFields \union StatusFields \union StatsFields

Sentinels == {"na16", "na32", "na64"}
NoReading == Sentinels \union {"zero", "absent", "junk"}

\* The entries of lists: aga_gpu_spec_t and aga_gpu_status_t count them.
Repeated ==
    {SpecRangeOf[c] : c \in DOMAIN SpecRangeOf} \union ClockFields \union ClockRangeFields \union
    {"power_cap", "fw_version", "processes"}

\* The sentinel of the field itself: its type is 32 or 64 bits wide.
OwnNA(f) ==
    IF f \in ClockFields \union ClockRangeFields \union UsageFields \union
             {SpecRangeOf[c] : c \in DOMAIN SpecRangeOf} \union
             {"overdrive", "drm_id", "pcie_max_width", "pcie_max_speed", "pcie_version",
              "pcie_width", "pcie_speed", "edge_temp", "junction_temp", "memory_temp", "hbm_temp"}
    THEN "na32" ELSE "na64"

\* memset(info, 0, sizeof(aga_gpu_info_t))
Cleared == [f \in Fields |-> IF f \in Repeated THEN "absent" ELSE "zero"]

\* One update over another: the fields of both, and of those both have the first.
Layered(p) ==
    [x \in (DOMAIN p[1]) \union (DOMAIN p[2]) |-> IF x \in DOMAIN p[1] THEN p[1][x] ELSE p[2][x]]

f ++ g == Layered(<<f, g>>)

\* The fields of a C struct set to one value: memset(&s, 0xff, ...) or bzero.
All(fields, v) == [f \in fields |-> v]

\* A field that a branch does not write.
Untouched == All({}, "zero")

\* The reading of field f as the library gives it, in a field `na' of its own wide.
Read(d, f, na) == IF f \in d.lacks THEN na ELSE f

\* ... when the call answers, and `missed' when it fails.
Ask(d, call, f, na, missed) == IF call \in d.fails THEN missed ELSE Read(d, f, na)

\* A branch that is taken, or not.
When(cond, update) == IF cond THEN update ELSE Untouched

\* AGA_WIDEN_UINT16_NA and its like (smi.hpp): the sentinel of a narrow field
\* becomes the one of the field it is copied to, anything else passes.
Widen(v, narrow, wide) == IF v = narrow THEN wide ELSE v

\* A reading 16 bits wide that is widened to `wide'.
Read16(d, f, wide) == Widen(Read(d, f, "na16"), "na16", wide)

\* Differences and products of what was read: zero from zero, a reading from
\* readings, and else a number nobody measured.
Derived(f, from) ==
    CASE \A v \in from : v = "zero" -> "zero"
      [] \A v \in from : v \notin NoReading -> f
      [] OTHER -> "junk"

Update(info, new) == [f \in DOMAIN info |-> IF f \in DOMAIN new THEN new[f] ELSE info[f]]
=============================================================================
