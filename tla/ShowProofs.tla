------------------------------ MODULE ShowProofs ------------------------------
(***************************************************************************)
(* What a reply and a frame of a watch say of a GPU, whatever the device   *)
(* lacks and whichever calls fail.                                         *)
(*                                                                         *)
(* A function of a back end writes some fields, and a stage puts what      *)
(* several of them write one over the other.  So a fact about values is    *)
(* stated as the values each field is allowed (Within): it is shown for    *)
(* what each function writes, and holds of whatever is made of such parts. *)
(***************************************************************************)
EXTENDS GpuShow, WatchShow, FiniteSetTheorems, SequenceTheorems, TLAPS

\* Each field that u writes has a value that it is allowed.
Within(u, allowed) == \A f \in (DOMAIN u) \intersect (DOMAIN allowed) : u[f] \in allowed[f]

\* What u ++ v writes, and where it has it from.
LEMMA OverFields ==
  ASSUME NEW u, NEW v
  PROVE  /\ \A f : f \in DOMAIN (u ++ v) <=> f \in DOMAIN u \/ f \in DOMAIN v
         /\ \A f : f \in DOMAIN u => (u ++ v)[f] = u[f]
         /\ \A f : f \in DOMAIN v /\ f \notin DOMAIN u => (u ++ v)[f] = v[f]
<1>1. \A p : /\ \A f : f \in DOMAIN Layered(p) <=> f \in DOMAIN p[1] \/ f \in DOMAIN p[2]
             /\ \A f : f \in DOMAIN p[1] => Layered(p)[f] = p[1][f]
             /\ \A f : f \in DOMAIN p[2] /\ f \notin DOMAIN p[1] => Layered(p)[f] = p[2][f]
  BY DEF Layered
<1>2. PICK p : p = <<u, v>>
  OBVIOUS
<1>3. u ++ v = Layered(p) /\ p[1] = u /\ p[2] = v
  BY <1>2 DEF ++
<1> QED
  BY <1>1, <1>3

\* An update writes no other fields, and those that are new.
LEMMA UpdateFields ==
  ASSUME NEW old, NEW new
  PROVE  /\ DOMAIN Update(old, new) = DOMAIN old
         /\ \A f \in DOMAIN old : f \in DOMAIN new => Update(old, new)[f] = new[f]
         /\ \A f \in DOMAIN old : f \notin DOMAIN new => Update(old, new)[f] = old[f]
BY DEF Update

\* Allowed values over allowed values,
LEMMA OverWithin ==
  ASSUME NEW u, NEW v, NEW allowed, Within(u, allowed), Within(v, allowed)
  PROVE  Within(u ++ v, allowed)
BY OverFields DEF Within

\* on a branch that is taken or not,
LEMMA WhenWithin ==
  ASSUME NEW cond, NEW u, NEW allowed, Within(u, allowed)
  PROVE  Within(When(cond, u), allowed)
BY DEF When, Within, Untouched, All

\* and in place of allowed values, are allowed.
LEMMA UpdateWithin ==
  ASSUME NEW old, NEW new, NEW allowed, Within(old, allowed), Within(new, allowed)
  PROVE  Within(Update(old, new), allowed)
BY UpdateFields DEF Within

\* A call gives the reading of its field, or what stands for none.
LEMMA ReadingOrNone ==
  ASSUME NEW d, NEW call, NEW f, NEW na, NEW missed
  PROVE  /\ Read(d, f, na) \in {f, na}
         /\ Ask(d, call, f, na, missed) \in {f, na, missed}
         /\ f \notin d.lacks => Read(d, f, na) = f
         /\ f \notin d.lacks /\ call \notin d.fails => Ask(d, call, f, na, missed) = f
         /\ Ask(d, call, f, na, missed) = IF call \in d.fails THEN missed ELSE Read(d, f, na)
BY DEF Read, Ask

\* No more than n of S.
LEMMA AtMost ==
  ASSUME NEW n \in Int, NEW S, NEW s \in Upto(n, S)
  PROVE  /\ s \subseteq S /\ IsFiniteSet(s) /\ Cardinality(s) \in Nat
         /\ Cardinality(s) = 0 \/ Cardinality(s) <= n
<1>1. CASE s = {}
  BY <1>1, FS_EmptySet
<1>2. ASSUME NEW t \in [1 .. n -> S], s = {t[i] : i \in 1 .. n}
      PROVE  /\ s \subseteq S /\ IsFiniteSet(s) /\ Cardinality(s) \in Nat
             /\ Cardinality(s) = 0 \/ Cardinality(s) <= n
  <2>1. IsFiniteSet(1 .. n) /\ Cardinality(1 .. n) = IF 1 > n THEN 0 ELSE n - 1 + 1
    BY FS_Interval
  <2>2. t \in Surjection(1 .. n, s)
    BY <1>2 DEF Surjection
  <2>3. IsFiniteSet(s) /\ Cardinality(s) <= Cardinality(1 .. n)
    BY <2>1, <2>2, FS_Surjection
  <2>4. Cardinality(s) \in Nat
    BY <2>3, FS_CardinalityType
  <2>5. CASE n < 1
    <3>1. s = {}
      BY <1>2, <2>5
    <3> QED
      BY <3>1, <1>1
  <2> QED
    BY <1>2, <2>1, <2>3, <2>4, <2>5
<1> QED
  BY <1>1, <1>2 DEF Upto

-----------------------------------------------------------------------------
(***************************************************************************)
(* GPUGet.  The values a field of a reply is allowed.                      *)
(***************************************************************************)

\* Fields for which nothing says "not available": strings, and counts and lists
\* that are zero or empty instead.
Unmarked ==
    {"power_cap", "perf_level", "virtualization_mode", "serial_num", "card_model", "card_sku",
     "driver_version", "vbios_version", "fw_version", "memory_vendor", "pcie_bus_id", "vram_type",
     "processes", "throttling", "xgmi_error", "ecc_total", "ecc_block", "xgmi_requests",
     "xgmi_responses"}

\* Ranges that are never zero: what cannot be read is marked, or not listed.
Zeroless == {"video_range", "data_range", "video_clock_range", "data_clock_range"}

ReplyValues(backend) ==
    [f \in Fields |->
         Origins(f) \union {"absent"} \union
         (IF f \in Zeroless THEN {} ELSE {"zero"}) \union
         (IF f \in Unmarked THEN {} ELSE {OwnNA(f)}) \union
         (IF backend = "wsl" /\ f \in Wsl32 THEN {"na32"} ELSE {}) \union
         (IF \/ f = "free_vram"
             \/ backend = "amdsmi" /\ f \in {"serial_num", "card_model", "driver_version"}
          THEN {"junk"} ELSE {})]

\* The fields that hold the reading of another one.
Displaced ==
    {"gfx_clock_range", "mem_clock_range", "video_clock_range", "data_clock_range", "rx_bytes",
     "tx_bytes", "power_usage"}

\* Fields with a sentinel of 32 bits.
Narrow ==
    {"gfx_clock", "mem_clock", "video_clock", "data_clock", "soc_clock", "fabric_clock",
     "gfx_clock_range", "mem_clock_range", "video_clock_range", "data_clock_range",
     "gfx_activity", "umc_activity", "mm_activity", "vcn_activity", "jpeg_activity",
     "vcn_busy", "jpeg_busy", "gfx_busy", "gfx_range", "mem_range", "video_range", "data_range",
     "overdrive", "drm_id", "pcie_max_width", "pcie_max_speed", "pcie_version", "pcie_width",
     "pcie_speed", "edge_temp", "junction_temp", "memory_temp", "hbm_temp"}

\* The readings and sentinels a field is allowed.
LEMMA ReplyValue ==
  ASSUME NEW b, NEW f \in Fields
  PROVE  /\ "absent" \in ReplyValues(b)[f]
         /\ f \notin Zeroless => "zero" \in ReplyValues(b)[f]
         /\ f \notin Displaced => f \in ReplyValues(b)[f]
         /\ f \in Narrow => "na32" \in ReplyValues(b)[f]
         /\ f \notin Narrow \union Unmarked => "na64" \in ReplyValues(b)[f]
<1>1. f \notin Displaced => f \in Origins(f)
  BY DEF Origins, Displaced, ClockRangeFields, RangeOf
<1>2. OwnNA(f) = IF f \in Narrow THEN "na32" ELSE "na64"
  BY DEF OwnNA, Narrow, SpecRangeOf, ClockRangeFields, RangeOf, ClockFields, UsageFields
<1>3. f \in Narrow => f \notin Unmarked
  BY DEF Narrow, Unmarked
<1> QED
  BY <1>1, <1>2, <1>3 DEF ReplyValues

\* What the reply is cleared to (gpu_entry::fill_status_).
LEMMA ClearedReplyFits ==
  ASSUME NEW b
  PROVE  Within(Cleared, ReplyValues(b)) /\ DOMAIN Cleared = Fields
<1>1. Zeroless \subseteq Repeated
  BY DEF Zeroless, Repeated, SpecRangeOf, ClockRangeFields, RangeOf
<1> QED
  BY <1>1, ReplyValue DEF Within, Cleared, ReplyValues

LEMMA DisplacedValues ==
  ASSUME NEW b
  PROVE  /\ "gfx_range" \in ReplyValues(b)["gfx_clock_range"]
         /\ "mem_range" \in ReplyValues(b)["mem_clock_range"]
         /\ "video_range" \in ReplyValues(b)["video_clock_range"]
         /\ "data_range" \in ReplyValues(b)["data_clock_range"]
         /\ "tx_bytes" \in ReplyValues(b)["rx_bytes"]
         /\ "rx_bytes" \in ReplyValues(b)["tx_bytes"]
         /\ "package_power" \in ReplyValues(b)["power_usage"]
         /\ "low_util_acc_of_partition" \in ReplyValues(b)["low_util_acc"]
         /\ "junk" \in ReplyValues(b)["free_vram"]
         /\ b = "wsl" => /\ "na32" \in ReplyValues(b)["nack_count"]
                         /\ "na32" \in ReplyValues(b)["gfx_activity_acc"]
                         /\ "na32" \in ReplyValues(b)["mem_activity_acc"]
         /\ b = "amdsmi" => /\ "junk" \in ReplyValues(b)["serial_num"]
                            /\ "junk" \in ReplyValues(b)["card_model"]
                            /\ "junk" \in ReplyValues(b)["driver_version"]
<1>1. ClockRangeFields = {"gfx_clock_range", "mem_clock_range", "video_clock_range",
                          "data_clock_range"}
  BY DEF ClockRangeFields, RangeOf
<1>2. /\ "gfx_range" \in Origins("gfx_clock_range")
      /\ "mem_range" \in Origins("mem_clock_range")
      /\ "video_range" \in Origins("video_clock_range")
      /\ "data_range" \in Origins("data_clock_range")
  BY <1>1 DEF Origins, RangeOf, SpecRangeOf
<1>3. /\ "tx_bytes" \in Origins("rx_bytes") /\ "rx_bytes" \in Origins("tx_bytes")
      /\ "package_power" \in Origins("power_usage")
      /\ "low_util_acc_of_partition" \in Origins("low_util_acc")
  BY <1>1 DEF Origins
<1>4. {"gfx_clock_range", "mem_clock_range", "video_clock_range", "data_clock_range", "rx_bytes",
       "tx_bytes", "power_usage", "low_util_acc", "free_vram", "nack_count", "gfx_activity_acc",
       "mem_activity_acc", "serial_num", "card_model", "driver_version"} \subseteq Fields
  BY <1>1 DEF Fields, StatusFields, StatsFields, PcieStatsFields, ViolationFields, IdentityFields
<1> QED
  BY <1>2, <1>3, <1>4 DEF ReplyValues, Wsl32, Sentinels

\* What the functions of amdsmi and wsl that need no table write.
LEMMA CallsFit ==
  ASSUME NEW d, NEW b
  PROVE  /\ Within(AmdsmiClockRanges(d), ReplyValues(b))
         /\ Within(AmdsmiConfig(d), ReplyValues(b))
         /\ Within(AmdsmiEnumeration(d), ReplyValues(b))
         /\ Within(AmdsmiVramStatus(d), ReplyValues(b))
         /\ Within(AmdsmiPcieStatus(d), ReplyValues(b))
         /\ Within(AmdsmiProcesses(d), ReplyValues(b))
         /\ Within(AmdsmiEcc(d), ReplyValues(b))
         /\ Within(AmdsmiVramUsage(d), ReplyValues(b))
<1>1. DOMAIN ReplyValues(b) = Fields
  BY DEF ReplyValues
<1>2. Within(AmdsmiClockRanges(d), ReplyValues(b))
  BY <1>1, ReplyValue
     DEF Within, AmdsmiClockRanges, Narrow, Displaced, Zeroless, Unmarked, Read, Ask
<1>3. Within(AmdsmiConfig(d), ReplyValues(b))
  <2> DEFINE over == [overdrive |-> Read(d, "overdrive", "na32")]
             perf == [perf_level |-> Read(d, "perf_level", "zero")]
             cap  == [power_cap |-> Read(d, "power_cap", "zero")]
  <2>1. Within(over, ReplyValues(b)) /\ Within(perf, ReplyValues(b)) /\ Within(cap, ReplyValues(b))
    BY <1>1, ReplyValue DEF Within, Narrow, Displaced, Zeroless, Unmarked, Read
  <2> QED
    BY <2>1, WhenWithin, OverWithin, Zenon DEF AmdsmiConfig
<1>4. Within(AmdsmiEnumeration(d), ReplyValues(b))
  <2> DEFINE ids == [kfd_id |-> Read(d, "kfd_id", "na64"), drm_id |-> Read(d, "drm_id", "na32")]
  <2>1. Within(ids, ReplyValues(b))
    BY <1>1, ReplyValue DEF Within, Narrow, Displaced, Zeroless, Unmarked, Read
  <2> QED
    BY <2>1, WhenWithin, Zenon DEF AmdsmiEnumeration
<1>5. Within(AmdsmiVramStatus(d), ReplyValues(b))
  <2> DEFINE vram == [vram_type |-> Read(d, "vram_type", "zero"),
                      vram_size |-> Read(d, "vram_size", "na64")]
  <2>1. Within(vram, ReplyValues(b))
    BY <1>1, ReplyValue DEF Within, Narrow, Displaced, Zeroless, Unmarked, Read
  <2> QED
    BY <2>1, WhenWithin, Zenon DEF AmdsmiVramStatus
<1>6. Within(AmdsmiPcieStatus(d), ReplyValues(b))
  <2> DEFINE link == [pcie_max_width |-> Read16(d, "pcie_max_width", "na32"),
                      pcie_max_speed |-> Read(d, "pcie_max_speed", "na32"),
                      pcie_version |-> Read(d, "pcie_version", "na32"),
                      pcie_width |-> Read16(d, "pcie_width", "na32"),
                      pcie_speed |-> Read(d, "pcie_speed", "na32"),
                      pcie_bandwidth |-> Widen(Read(d, "pcie_bandwidth", "na32"), "na32", "na64")]
  <2>1. Within(link, ReplyValues(b))
    BY <1>1, ReplyValue DEF Within, Narrow, Displaced, Zeroless, Unmarked, Read, Read16, Widen
  <2> QED
    BY <2>1, WhenWithin, Zenon DEF AmdsmiPcieStatus
<1>7. Within(AmdsmiProcesses(d), ReplyValues(b))
  <2>1. Within([processes |-> Read(d, "processes", "absent")], ReplyValues(b))
    BY <1>1, ReplyValue DEF Within, Displaced, Zeroless, Read
  <2> QED
    BY <2>1, WhenWithin, Zenon DEF AmdsmiProcesses
<1>8. Within(AmdsmiEcc(d), ReplyValues(b))
  <2>1. /\ Within([ecc_total |-> Ask(d, "ecc_count", "ecc_total", "zero", "zero")], ReplyValues(b))
        /\ Within([ecc_block |-> Read(d, "ecc_block", "zero")], ReplyValues(b))
    BY <1>1, ReplyValue DEF Within, Displaced, Zeroless, Read, Ask
  <2> QED
    BY <2>1, WhenWithin, OverWithin, Zenon DEF AmdsmiEcc
<1>9. Within(AmdsmiVramUsage(d), ReplyValues(b))
  BY <1>1, ReplyValue, DisplacedValues
     DEF Within, AmdsmiVramUsage, Derived, Displaced, Zeroless, Read, Ask
<1> QED
  BY <1>2, <1>3, <1>4, <1>5, <1>6, <1>7, <1>8, <1>9

\* The metrics table: its entries, and what they hold.
Tabled == Metrics16 \union Metrics64 \union {"gfx_busy", "throttling"}

TableValues(backend) ==
    [f \in Tabled |->
         {f} \union
         (IF f \in Metrics16 THEN {"na16"} ELSE {}) \union
         (IF f \in Metrics64 THEN {"na64"} ELSE {}) \union
         (IF f = "gfx_busy" \/ (backend = "wsl" /\ f \in Wsl32) THEN {"na32"} ELSE {}) \union
         (IF f = "throttling" \/ backend = "wsl" THEN {"zero"} ELSE {})]

IsTable(m, backend) == DOMAIN m = Tabled /\ \A f \in Tabled : m[f] \in TableValues(backend)[f]

\* The widths of the entries, name by name.
LEMMA TableWidths ==
  /\ Metrics16 = {"gfx_clock", "mem_clock", "video_clock", "data_clock", "soc_clock",
                  "gfx_activity", "umc_activity", "mm_activity", "vcn_activity", "jpeg_activity",
                  "vcn_busy", "jpeg_busy", "xgmi_width", "xgmi_speed", "avg_power",
                  "package_power", "soc_voltage", "gfx_voltage", "mem_voltage", "fan_speed",
                  "edge_temp", "junction_temp", "memory_temp", "hbm_temp"}
  /\ Metrics64 = {"replay_count", "recovery_count", "rollover_count", "nack_count",
                  "bidir_bandwidth", "fw_timestamp", "vram_bandwidth", "energy", "xgmi_link",
                  "gfx_activity_acc", "mem_activity_acc", "violation_counter", "residency_acc",
                  "vr_acc", "hbm_acc", "gfx_limit_acc", "low_util_acc"}
BY DEF Metrics16, Metrics64, ClockFields, UsageFields, PcieStatsFields

\* What the library of amdsmi gives,
LEMMA AmdsmiTable ==
  ASSUME NEW d, NEW b
  PROVE  IsTable(AmdsmiMetrics(d), b)
<1> DEFINE sixteen   == [f \in Metrics16 |-> Read(d, f, "na16")]
           sixtyfour == [f \in Metrics64 |-> Read(d, f, "na64")]
           rest      == [gfx_busy |-> Read(d, "gfx_busy", "na32"),
                         throttling |-> Read(d, "throttling", "zero")]
<1>1. AmdsmiMetrics(d) = (sixteen ++ sixtyfour) ++ rest
  BY DEF AmdsmiMetrics
<1>2. PICK m : m = AmdsmiMetrics(d)
  OBVIOUS
<1>3. \A f : f \in DOMAIN m <=> f \in Tabled
  <2>1. \A f : f \in DOMAIN m <=> \/ f \in DOMAIN sixteen \/ f \in DOMAIN sixtyfour
                                  \/ f \in DOMAIN rest
    <3> HIDE DEF sixteen, sixtyfour, rest
    <3> QED
      BY <1>1, <1>2, OverFields
  <2> QED
    BY <2>1 DEF Tabled
<1>4. Within(m, TableValues(b))
  <2>1. Within(sixteen, TableValues(b))
    BY DEF Within, TableValues, Read
  <2>2. Within(sixtyfour, TableValues(b))
    BY DEF Within, TableValues, Read
  <2>3. Within(rest, TableValues(b))
    BY DEF Within, TableValues, Read
  <2> QED
    BY <1>1, <1>2, <2>1, <2>2, <2>3, OverWithin, Zenon
<1> QED
  BY <1>2, <1>3, <1>4 DEF IsTable, Within, TableValues

\* One table over another of as many entries is a table.
LEMMA TableOver ==
  ASSUME NEW u, NEW m, NEW b, IsTable(m, b), DOMAIN u \subseteq Tabled, Within(u, TableValues(b))
  PROVE  IsTable(u ++ m, b)
<1>1. PICK w : w = u ++ m
  OBVIOUS
<1>2. /\ \A f : f \in DOMAIN w <=> f \in DOMAIN u \/ f \in DOMAIN m
      /\ \A f : f \in DOMAIN u => w[f] = u[f]
      /\ \A f : f \in DOMAIN m /\ f \notin DOMAIN u => w[f] = m[f]
  BY <1>1, OverFields
<1>3. DOMAIN TableValues(b) = Tabled
  BY DEF TableValues
<1> QED
  BY <1>1, <1>2, <1>3 DEF IsTable, Within

\* that of wsl,
LEMMA WslTableFits ==
  ASSUME NEW d
  PROVE  IsTable(WslTable(d), "wsl")
<1>1. IsTable(AmdsmiMetrics(d), "wsl")
  BY AmdsmiTable
<1>2. CASE "metrics_table" \in d.fails
  BY <1>1, <1>2 DEF IsTable, WslTable, All, TableValues
<1>3. CASE "metrics_table" \notin d.fails /\ d.sentinels
  <2> DEFINE narrow == [f \in Wsl32 |-> Read(d, f, "na32")]
  <2>1. DOMAIN narrow \subseteq Tabled /\ Within(narrow, TableValues("wsl"))
    BY TableWidths DEF Within, TableValues, Read, Wsl32, Tabled
  <2>2. WslTable(d) = narrow ++ AmdsmiMetrics(d)
    BY <1>3 DEF WslTable
  <2> HIDE DEF narrow
  <2> QED
    BY <1>1, <2>1, <2>2, TableOver
<1>4. CASE "metrics_table" \notin d.fails /\ ~ d.sentinels
  BY <1>1, <1>4 DEF IsTable, WslTable, TableValues, Read
<1> QED
  BY <1>2, <1>3, <1>4

\* with what was asked for again,
LEMMA WslRefilledFits ==
  ASSUME NEW d, NEW t, IsTable(t, "wsl")
  PROVE  /\ IsTable(WslRefilled(d, t), "wsl")
         /\ \A f \in Tabled : t[f] # "zero" => WslRefilled(d, t)[f] = t[f]
<1> DEFINE Asked(f, call, na) == IF t[f] = "zero" /\ Answered(d, call) THEN Read(d, f, na) ELSE t[f]
           replay == Asked("replay_count", "pcie_metric", "na64")
           refilled ==
             [umc_activity |-> Asked("umc_activity", "gpu_activity", "na16"),
              gfx_activity |-> LET v == Asked("gfx_activity", "gpu_activity", "na16")
                               IN IF v = "zero" /\ Answered(d, "busy_percent")
                                  THEN Read(d, "gfx_activity", "zero") ELSE v,
              package_power |-> Asked("package_power", "power_info", "zero"),
              avg_power |-> Asked("avg_power", "power_info", "zero"),
              gfx_clock |-> Asked("gfx_clock", "clock_info", "na16"),
              soc_clock |-> Asked("soc_clock", "clock_info", "na16"),
              mem_clock |-> Asked("mem_clock", "clock_info", "na16"),
              edge_temp |-> Asked("edge_temp", "temp_metric", "zero"),
              junction_temp |-> Asked("junction_temp", "temp_metric", "zero"),
              memory_temp |-> Asked("memory_temp", "temp_metric", "zero"),
              fan_speed |-> Asked("fan_speed", "fan_rpms", "zero"),
              gfx_voltage |-> Asked("gfx_voltage", "volt_metric", "zero"),
              replay_count |-> IF replay = "zero" /\ Answered(d, "replay_counter")
                               THEN Read(d, "replay_count", "zero") ELSE replay]
           sixteen == {"umc_activity", "gfx_activity", "package_power", "avg_power", "gfx_clock",
                       "soc_clock", "mem_clock", "edge_temp", "junction_temp", "memory_temp",
                       "fan_speed", "gfx_voltage"}
<1>1. /\ sixteen \subseteq Metrics16 /\ "replay_count" \in Metrics64
      /\ DOMAIN refilled = sixteen \union {"replay_count"}
  BY TableWidths
<1>2. DOMAIN refilled \subseteq Tabled
  BY <1>1 DEF Tabled
<1>3. \A f \in sixteen : {f, "zero", "na16", t[f]} \subseteq TableValues("wsl")[f]
  BY <1>1, <1>2 DEF IsTable, TableValues
<1>4. {"replay_count", "zero", "na64", t["replay_count"]} \subseteq TableValues("wsl")["replay_count"]
  BY <1>1, <1>2 DEF IsTable, TableValues
<1>5. Within(refilled, TableValues("wsl"))
  <2>1. \A f \in sixteen : refilled[f] \in {f, "zero", "na16", t[f]}
    BY DEF Read
  <2>2. refilled["replay_count"] \in {"replay_count", "zero", "na64", t["replay_count"]}
    BY DEF Read
  <2> QED
    BY <1>1, <1>3, <1>4, <2>1, <2>2 DEF Within
<1>6. WslRefilled(d, t) = refilled ++ t
  BY DEF WslRefilled
<1>7. \A f \in DOMAIN refilled : t[f] # "zero" => refilled[f] = t[f]
  OBVIOUS
<1> HIDE DEF refilled
<1>8. IsTable(WslRefilled(d, t), "wsl")
  BY <1>2, <1>5, <1>6, TableOver
<1>9. \A f \in Tabled : t[f] # "zero" => WslRefilled(d, t)[f] = t[f]
  BY <1>6, <1>7, OverFields DEF IsTable
<1> QED
  BY <1>8, <1>9

\* and once more for the statistics.
LEMMA WslRefreshedFits ==
  ASSUME NEW d, NEW m, IsTable(m, "wsl")
  PROVE  /\ IsTable(WslRefreshed(d, m), "wsl")
         /\ m["package_power"] # "zero" /\ m["gfx_activity"] # "zero" =>
                \A f \in Tabled : WslRefreshed(d, m)[f] = m[f]
<1> DEFINE power == [f \in {"package_power", "avg_power"} |-> IF f \in d.lacks THEN m[f] ELSE f]
           busy  == [f \in {"gfx_activity", "umc_activity"} |-> Read(d, f, "na16")]
<1>1. {"package_power", "avg_power", "gfx_activity", "umc_activity"} \subseteq Metrics16
  BY TableWidths
<1>2. /\ DOMAIN power \subseteq Tabled /\ DOMAIN busy \subseteq Tabled
      /\ Within(power, TableValues("wsl")) /\ Within(busy, TableValues("wsl"))
  <2>1. \A f \in {"package_power", "avg_power", "gfx_activity", "umc_activity"} :
              /\ f \in Tabled /\ m[f] \in TableValues("wsl")[f]
              /\ f \in TableValues("wsl")[f] /\ "na16" \in TableValues("wsl")[f]
    BY <1>1 DEF Tabled, TableValues, IsTable
  <2>2. DOMAIN power \subseteq Tabled /\ DOMAIN busy \subseteq Tabled
    BY <2>1
  <2> QED
    BY <2>1, <2>2 DEF Within, Read
<1> HIDE DEF power, busy
<1>3. \A c : /\ DOMAIN When(c, power) \subseteq Tabled /\ DOMAIN When(c, busy) \subseteq Tabled
             /\ Within(When(c, power), TableValues("wsl")) /\ Within(When(c, busy), TableValues("wsl"))
  BY <1>2, WhenWithin DEF When, Untouched, All
<1>4. \A c, e : /\ DOMAIN (When(c, power) ++ When(e, busy)) \subseteq Tabled
                /\ Within(When(c, power) ++ When(e, busy), TableValues("wsl"))
  BY <1>3, OverFields, OverWithin
<1>5. \A c, e : IsTable((When(c, power) ++ When(e, busy)) ++ m, "wsl")
  BY <1>4, TableOver
<1>6. IsTable(WslRefreshed(d, m), "wsl")
  BY <1>5, Zenon DEF WslRefreshed, power, busy
<1>7. ASSUME m["package_power"] # "zero", m["gfx_activity"] # "zero", NEW f \in Tabled
      PROVE  WslRefreshed(d, m)[f] = m[f]
  <2> DEFINE c == m["package_power"] = "zero" /\ "power_info_again" \notin d.fails
             e == /\ ~ d.partitioned /\ "skip_activity_stats" \notin d.skip
                  /\ m["gfx_activity"] = "zero" /\ "gpu_activity_again" \notin d.fails
  <2>1. WslRefreshed(d, m) = (When(c, power) ++ When(e, busy)) ++ m
    BY Zenon DEF WslRefreshed, power, busy
  <2>2. f \notin DOMAIN When(c, power) /\ f \notin DOMAIN When(e, busy) /\ f \in DOMAIN m
    BY <1>7 DEF When, Untouched, All, IsTable
  <2> HIDE DEF c, e
  <2> QED
    BY <2>1, <2>2, OverFields
<1> QED
  BY <1>6, <1>7

LEMMA WslTables ==
  ASSUME NEW d
  PROVE  /\ IsTable(WslMetrics(d), "wsl")
         /\ IsTable(WslRefreshed(d, WslMetrics(d)), "wsl")
         /\ IsTable(WslPartitionMetrics(d), "wsl")
<1>1. IsTable(WslMetrics(d), "wsl")
  BY WslTableFits, WslRefilledFits, Zenon DEF WslMetrics
<1> QED
  BY <1>1, WslTableFits, WslRefreshedFits, Zenon DEF WslPartitionMetrics

\* What an entry of a table holds, as it is and widened.
LEMMA TableEntry ==
  ASSUME NEW m, NEW b, IsTable(m, b), NEW f \in Tabled
  PROVE  /\ f \in Metrics16 => m[f] \in {f, "zero", "na16"}
         /\ f \in Metrics64 \ Wsl32 => m[f] \in {f, "zero", "na64"}
         /\ f \in Wsl32 => m[f] \in {f, "zero", "na64"} \/ (b = "wsl" /\ m[f] = "na32")
         /\ f = "gfx_busy" => m[f] \in {f, "zero", "na32"}
         /\ f = "throttling" => m[f] \in {f, "zero"}
         /\ b # "wsl" /\ f # "throttling" => m[f] # "zero"
<1>1. m[f] \in TableValues(b)[f]
  BY DEF IsTable
<1>2. /\ f \in Metrics16 => f \notin Metrics64 \union {"gfx_busy", "throttling"} \union Wsl32
      /\ f \in Metrics64 => f \notin {"gfx_busy", "throttling"}
      /\ Wsl32 \subseteq Metrics64
  BY TableWidths DEF Wsl32
<1>3. f # "zero"
  BY TableWidths DEF Tabled
<1> QED
  BY <1>1, <1>2, <1>3 DEF TableValues

\* A part of the table in fields of w.
LEMMA WidenedFits ==
  ASSUME NEW m, NEW b, IsTable(m, b), NEW fields, fields \subseteq Metrics16, NEW w,
         \A f \in fields \intersect Fields : {f, "zero", w} \subseteq ReplyValues(b)[f]
  PROVE  Within(Widened(m, fields, w), ReplyValues(b))
<1>1. \A f \in fields : m[f] \in {f, "zero", "na16"}
  BY TableEntry DEF Tabled
<1>2. DOMAIN ReplyValues(b) = Fields
  BY DEF ReplyValues
<1> QED
  BY <1>1, <1>2 DEF Within, Widened, Widen

\* smi_fill_clock_status_
LEMMA ClockStatusFits ==
  ASSUME NEW d, NEW b, NEW m, NEW spec, IsTable(m, b), DOMAIN spec = Fields,
         Within(spec, ReplyValues(b))
  PROVE  Within(AmdsmiClockStatus(d, m, spec), ReplyValues(b))
<1>1. DOMAIN ReplyValues(b) = Fields
  BY DEF ReplyValues
<1> DEFINE again == [gfx_range |-> Read(d, "gfx_range", "na32")]
           c     == d.rdna /\ "clock_info_again" \notin d.fails
           range == When(c, again) ++ spec
           ranges ==
             [gfx_range |-> range["gfx_range"], gfx_clock_range |-> range["gfx_range"],
              mem_clock_range |-> range["mem_range"], video_clock_range |-> range["video_range"],
              data_clock_range |-> range["data_range"]]
           clocks == Widened(m, {"gfx_clock", "mem_clock", "video_clock", "data_clock"}, "na32")
           soc    == Widened(m, {"soc_clock"}, "na32")
<1>2. {"gfx_range", "mem_range", "video_range", "data_range"} \subseteq Fields
  BY DEF Fields, SpecFields
<1>3. /\ range["gfx_range"] \in {"gfx_range", "na32", "zero", "absent"}
      /\ range["mem_range"] \in {"mem_range", "na32", "zero", "absent"}
      /\ range["video_range"] \in {"video_range", "na32", "absent"}
      /\ range["data_range"] \in {"data_range", "na32", "absent"}
  <2>1. \A f \in {"gfx_range", "mem_range", "video_range", "data_range"} :
            /\ spec[f] \in {f, "na32", "zero", "absent"}
            /\ f \in Zeroless => spec[f] \in {f, "na32", "absent"}
    <3>1. \A f \in {"gfx_range", "mem_range", "video_range", "data_range"} :
              spec[f] \in ReplyValues(b)[f]
      BY <1>1, <1>2 DEF Within
    <3>2. \A f \in {"gfx_range", "mem_range", "video_range", "data_range"} :
              Origins(f) = {f} /\ OwnNA(f) = "na32" /\ f \notin Wsl32
      BY DEF Origins, OwnNA, Wsl32, ClockRangeFields, RangeOf, SpecRangeOf
    <3> QED
      BY <1>2, <3>1, <3>2 DEF ReplyValues, Zeroless
  <2>2. /\ \A f : f \in DOMAIN range <=> f \in DOMAIN When(c, again) \/ f \in DOMAIN spec
        /\ \A f : f \in DOMAIN When(c, again) => range[f] = When(c, again)[f]
        /\ \A f : f \in DOMAIN spec /\ f \notin DOMAIN When(c, again) => range[f] = spec[f]
    <3>1. PICK w : w = When(c, again)
      OBVIOUS
    <3> QED
      BY <3>1, OverFields
  <2>3. /\ DOMAIN When(c, again) \subseteq {"gfx_range"}
        /\ \A f \in DOMAIN When(c, again) : When(c, again)[f] \in {"gfx_range", "na32"}
    BY DEF When, Untouched, All, Read
  <2> HIDE DEF range
  <2> QED
    BY <1>2, <2>1, <2>2, <2>3 DEF Zeroless
<1>4. Within(ranges, ReplyValues(b))
  <2> HIDE DEF range
  <2> QED
    BY <1>1, <1>3, ReplyValue, DisplacedValues DEF Within, Narrow, Displaced, Zeroless, Unmarked
<1>5. Within(clocks, ReplyValues(b)) /\ Within(soc, ReplyValues(b))
  BY TableWidths, ReplyValue, WidenedFits DEF Narrow, Displaced, Zeroless, Unmarked
<1>6. Within([fabric_clock |-> "fabric_clock"], ReplyValues(b))
  BY <1>1, ReplyValue DEF Within, Displaced, Zeroless
<1> HIDE DEF clocks, soc, ranges
<1> QED
  BY <1>4, <1>5, <1>6, OverWithin, WhenWithin, Zenon
     DEF AmdsmiClockStatus, ranges, range, c, again, clocks, soc

\* smi_gpu_fill_status
LEMMA StatusFits ==
  ASSUME NEW d, NEW b, NEW cached, NEW m, NEW spec, IsTable(m, b), DOMAIN spec = Fields,
         Within(spec, ReplyValues(b))
  PROVE  Within(AmdsmiStatus(d, cached, m, spec), ReplyValues(b))
<1>1. DOMAIN ReplyValues(b) = Fields
  BY DEF ReplyValues
<1>2. Within(AmdsmiClockStatus(d, m, spec), ReplyValues(b))
  BY ClockStatusFits
<1>3. Within(Widened(m, {"xgmi_width", "xgmi_speed"}, "na64"), ReplyValues(b))
  BY TableWidths, ReplyValue, WidenedFits DEF Narrow, Displaced, Zeroless, Unmarked
<1>4. Within([f \in {"fw_timestamp", "throttling", "vram_bandwidth"} |-> m[f]], ReplyValues(b))
  <2>1. \A f \in {"fw_timestamp", "throttling", "vram_bandwidth"} :
            m[f] \in {f, "zero"} \/ (f # "throttling" /\ m[f] = "na64")
    BY TableWidths, TableEntry DEF Tabled, Wsl32
  <2> QED
    BY <1>1, <2>1, ReplyValue DEF Within, Narrow, Displaced, Zeroless, Unmarked
<1>5. Within([xgmi_error |-> Read(d, "xgmi_error", "zero")], ReplyValues(b))
  BY <1>1, ReplyValue DEF Within, Displaced, Zeroless, Read
<1>6. Within(AmdsmiPcieStatus(d), ReplyValues(b)) /\ Within(AmdsmiProcesses(d), ReplyValues(b))
  BY CallsFit
<1> QED
  BY <1>2, <1>3, <1>4, <1>5, <1>6, OverWithin, WhenWithin, Zenon DEF AmdsmiStatus

\* smi_fill_violation_stats_ writes what the call gives, or what the table has.
LEMMA ViolationLayers ==
  ASSUME NEW d, NEW m, NEW allowed,
         Within([f \in {"violation_counter", "residency_acc", "vr_acc", "hbm_acc", "gfx_limit_acc",
                        "low_util_acc"} |-> m[f]], allowed),
         Within(All({"residency_per", "gfx_limit_per", "low_util_per"}, "na64"), allowed),
         Within([low_util_acc |-> "low_util_acc_of_partition"], allowed),
         Within([f \in {"violation_counter", "residency_acc", "vr_acc", "hbm_acc", "gfx_limit_acc",
                        "low_util_acc"} \union {"residency_per", "gfx_limit_per", "low_util_per"} |->
                     Read(d, f, "na64")], allowed)
  PROVE  Within(AmdsmiViolation(d, m), allowed)
<1> DEFINE accumulated == {"violation_counter", "residency_acc", "vr_acc", "hbm_acc",
                           "gfx_limit_acc", "low_util_acc"}
           percent == {"residency_per", "gfx_limit_per", "low_util_per"}
<1>1. CASE "violation_status" \in d.fails
  <2>1. AmdsmiViolation(d, m) = [f \in accumulated |-> m[f]] ++ All(percent, "na64")
    BY <1>1 DEF AmdsmiViolation
  <2> QED
    BY <2>1, OverWithin, Zenon
<1>2. CASE "violation_status" \notin d.fails
  <2>1. AmdsmiViolation(d, m) = When(~ d.first /\ "low_util_acc" \notin d.lacks,
                                     [low_util_acc |-> "low_util_acc_of_partition"]) ++
                                [f \in accumulated \union percent |-> Read(d, f, "na64")]
    BY <1>2 DEF AmdsmiViolation
  <2>2. Within(When(~ d.first /\ "low_util_acc" \notin d.lacks,
                    [low_util_acc |-> "low_util_acc_of_partition"]), allowed)
    BY WhenWithin, Zenon
  <2>3. Within(When(~ d.first /\ "low_util_acc" \notin d.lacks,
                    [low_util_acc |-> "low_util_acc_of_partition"]) ++
               [f \in accumulated \union percent |-> Read(d, f, "na64")], allowed)
    BY <2>2, OverWithin, Zenon
  <2> QED
    BY <2>1, <2>3, Zenon
<1> QED
  BY <1>1, <1>2

\* smi_fill_violation_stats_
LEMMA ViolationFits ==
  ASSUME NEW d, NEW b, NEW m, IsTable(m, b)
  PROVE  Within(AmdsmiViolation(d, m), ReplyValues(b))
<1>1. DOMAIN ReplyValues(b) = Fields
  BY DEF ReplyValues
<1> DEFINE accumulated == {"violation_counter", "residency_acc", "vr_acc", "hbm_acc",
                           "gfx_limit_acc", "low_util_acc"}
           percent == {"residency_per", "gfx_limit_per", "low_util_per"}
<1>2. Within([f \in accumulated |-> m[f]], ReplyValues(b))
  <2>1. \A f \in accumulated : m[f] \in {f, "zero", "na64"}
    BY TableWidths, TableEntry DEF Tabled, Wsl32
  <2> QED
    BY <1>1, <2>1, ReplyValue DEF Within, Narrow, Displaced, Zeroless, Unmarked
<1>3. Within(All(percent, "na64"), ReplyValues(b))
  BY <1>1, ReplyValue DEF Within, Narrow, Displaced, Zeroless, Unmarked, All
<1>4. Within([low_util_acc |-> "low_util_acc_of_partition"], ReplyValues(b))
  BY DisplacedValues DEF Within
<1>5. Within([f \in accumulated \union percent |-> Read(d, f, "na64")], ReplyValues(b))
  BY <1>1, ReplyValue DEF Within, Narrow, Displaced, Zeroless, Unmarked, Read
<1> QED
  BY <1>2, <1>3, <1>4, <1>5, ViolationLayers, Zenon

\* The power, and the activity with or without partitions.
LEMMA PowerFits ==
  ASSUME NEW b, NEW m, IsTable(m, b)
  PROVE  /\ Within(AmdsmiPower(m), ReplyValues(b))
         /\ Within(AmdsmiActivity(m), ReplyValues(b))
         /\ Within(AmdsmiPartitionActivity(m), ReplyValues(b))
<1>1. DOMAIN ReplyValues(b) = Fields
  BY DEF ReplyValues
<1>2. Within(AmdsmiPower(m), ReplyValues(b))
  <2>1. Within(Widened(m, {"avg_power", "package_power", "soc_voltage", "gfx_voltage",
                           "mem_voltage", "fan_speed"}, "na64"), ReplyValues(b))
    BY TableWidths, ReplyValue, WidenedFits DEF Narrow, Displaced, Zeroless, Unmarked
  <2>2. Within(Widened(m, {"edge_temp", "junction_temp", "memory_temp", "hbm_temp"}, "na32"),
               ReplyValues(b))
    BY TableWidths, ReplyValue, WidenedFits DEF Narrow, Displaced, Zeroless, Unmarked
  <2>3. Within([power_usage |-> Widen(m["package_power"], "na16", "na64"),
                energy |-> m["energy"]], ReplyValues(b))
    <3>1. /\ m["package_power"] \in {"package_power", "zero", "na16"}
          /\ m["energy"] \in {"energy", "zero", "na64"}
      BY TableWidths, TableEntry DEF Tabled, Wsl32
    <3> QED
      BY <1>1, <3>1, ReplyValue, DisplacedValues
         DEF Within, Narrow, Displaced, Zeroless, Unmarked, Widen
  <2> QED
    BY <2>1, <2>2, <2>3, OverWithin, Zenon DEF AmdsmiPower
<1>3. Within(AmdsmiActivity(m), ReplyValues(b))
  <2>1. Within(Widened(m, UsageFields \ {"gfx_busy"}, "na32"), ReplyValues(b))
    BY TableWidths, ReplyValue, WidenedFits DEF Narrow, Displaced, Zeroless, Unmarked, UsageFields
  <2>2. Within([f \in {"gfx_busy", "gfx_activity_acc", "mem_activity_acc"} |-> m[f]],
               ReplyValues(b))
    <3>1. /\ m["gfx_busy"] \in {"gfx_busy", "zero", "na32"}
          /\ \A f \in {"gfx_activity_acc", "mem_activity_acc"} :
                 m[f] \in {f, "zero", "na64"} \/ (b = "wsl" /\ m[f] = "na32")
      BY TableWidths, TableEntry DEF Tabled, Wsl32
    <3> QED
      BY <1>1, <3>1, ReplyValue, DisplacedValues DEF Within, Narrow, Displaced, Zeroless, Unmarked
  <2> QED
    BY <2>1, <2>2, OverWithin, Zenon DEF AmdsmiActivity
<1> QED
  BY <1>2, <1>3 DEF AmdsmiPartitionActivity, Within

\* What smi_gpu_fill_stats reads, over what it marks as not available.
StatsReadings(d, cached, m, c, p) ==
    LET Wanted(s) == s \notin d.skip
        partition == /\ d.partitioned
                     /\ Wanted("skip_activity_stats") \/ Wanted("skip_violation_stats")
                     /\ "partition_metrics" \notin d.fails
    IN When(cached /\ d.first /\ Wanted("skip_activity_stats"),
            Widened(c, {"gfx_activity", "umc_activity"}, "na32")) ++
       When(partition /\ Wanted("skip_activity_stats"), AmdsmiPartitionActivity(p)) ++
       When(partition /\ Wanted("skip_violation_stats"), AmdsmiViolation(d, p)) ++
       When(Wanted("skip_xgmi_stats"),
            [xgmi_requests |-> Ask(d, "xgmi_counter", "xgmi_requests", "zero", "zero"),
             xgmi_responses |-> Ask(d, "xgmi_counter", "xgmi_responses", "zero", "zero")]) ++
       When(Wanted("skip_pcie_stats") /\ "pci_throughput" \notin d.fails,
            [tx_bytes |-> Read(d, "rx_bytes", "na64"), rx_bytes |-> Read(d, "tx_bytes", "na64")]) ++
       When(cached,
            AmdsmiPower(m) ++
            When(Wanted("skip_xgmi_stats"), [xgmi_link |-> m["xgmi_link"]]) ++
            When(d.first /\ Wanted("skip_ecc_stats"), AmdsmiEcc(d)) ++
            When(d.first /\ Wanted("skip_violation_stats"), AmdsmiViolation(d, m)) ++
            When(Wanted("skip_pcie_stats"),
                 [f \in PcieStatsFields \ {"rx_bytes", "tx_bytes"} |-> m[f]]) ++
            When(Wanted("skip_activity_stats") /\ ~ d.partitioned, AmdsmiActivity(m))) ++
       When(Wanted("skip_vram_usage_stats"), AmdsmiVramUsage(d))

LEMMA StatsOverMarks ==
  ASSUME NEW d, NEW cached, NEW m, NEW c, NEW p
  PROVE  AmdsmiStats(d, cached, m, c, p) =
             (StatsReadings(d, cached, m, c, p) ++ All(UsageFields, "na32")) ++
             All(PcieStatsFields \union ViolationFields \union {"xgmi_link"}, "na64")
BY DEF AmdsmiStats, StatsReadings

\* smi_gpu_fill_stats writes what each of its parts does.
LEMMA StatsLayers ==
  ASSUME NEW d, NEW cached, NEW m, NEW c, NEW p, NEW allowed,
         Within(Widened(c, {"gfx_activity", "umc_activity"}, "na32"), allowed),
         Within(AmdsmiPartitionActivity(p), allowed), Within(AmdsmiViolation(d, p), allowed),
         Within([xgmi_requests |-> Ask(d, "xgmi_counter", "xgmi_requests", "zero", "zero"),
                 xgmi_responses |-> Ask(d, "xgmi_counter", "xgmi_responses", "zero", "zero")],
                allowed),
         Within([tx_bytes |-> Read(d, "rx_bytes", "na64"), rx_bytes |-> Read(d, "tx_bytes", "na64")],
                allowed),
         Within(AmdsmiPower(m), allowed), Within([xgmi_link |-> m["xgmi_link"]], allowed),
         Within(AmdsmiEcc(d), allowed), Within(AmdsmiViolation(d, m), allowed),
         Within([f \in PcieStatsFields \ {"rx_bytes", "tx_bytes"} |-> m[f]], allowed),
         Within(AmdsmiActivity(m), allowed), Within(AmdsmiVramUsage(d), allowed)
  PROVE  /\ Within(StatsReadings(d, cached, m, c, p), allowed)
         /\ /\ Within(All(UsageFields, "na32"), allowed)
            /\ Within(All(PcieStatsFields \union ViolationFields \union {"xgmi_link"}, "na64"),
                      allowed)
            => Within(AmdsmiStats(d, cached, m, c, p), allowed)
<1> DEFINE Wanted(s) == s \notin d.skip
           partition == /\ d.partitioned
                        /\ Wanted("skip_activity_stats") \/ Wanted("skip_violation_stats")
                        /\ "partition_metrics" \notin d.fails
           first    == When(cached /\ d.first /\ Wanted("skip_activity_stats"),
                            Widened(c, {"gfx_activity", "umc_activity"}, "na32"))
           activity == When(partition /\ Wanted("skip_activity_stats"), AmdsmiPartitionActivity(p))
           violated == When(partition /\ Wanted("skip_violation_stats"), AmdsmiViolation(d, p))
           links    == When(Wanted("skip_xgmi_stats"),
                            [xgmi_requests |-> Ask(d, "xgmi_counter", "xgmi_requests", "zero", "zero"),
                             xgmi_responses |-> Ask(d, "xgmi_counter", "xgmi_responses", "zero", "zero")])
           bytes    == When(Wanted("skip_pcie_stats") /\ "pci_throughput" \notin d.fails,
                            [tx_bytes |-> Read(d, "rx_bytes", "na64"),
                             rx_bytes |-> Read(d, "tx_bytes", "na64")])
           link     == When(Wanted("skip_xgmi_stats"), [xgmi_link |-> m["xgmi_link"]])
           ecc      == When(d.first /\ Wanted("skip_ecc_stats"), AmdsmiEcc(d))
           row0     == When(d.first /\ Wanted("skip_violation_stats"), AmdsmiViolation(d, m))
           pcie     == When(Wanted("skip_pcie_stats"),
                            [f \in PcieStatsFields \ {"rx_bytes", "tx_bytes"} |-> m[f]])
           busy     == When(Wanted("skip_activity_stats") /\ ~ d.partitioned, AmdsmiActivity(m))
           metrics  == When(cached, AmdsmiPower(m) ++ link ++ ecc ++ row0 ++ pcie ++ busy)
           vram     == When(Wanted("skip_vram_usage_stats"), AmdsmiVramUsage(d))
<1>1. /\ Within(first, allowed) /\ Within(activity, allowed)
       /\ Within(violated, allowed) /\ Within(links, allowed)
       /\ Within(bytes, allowed) /\ Within(vram, allowed)
  BY WhenWithin, Zenon
<1>2. Within(metrics, allowed)
  <2>1. /\ Within(link, allowed) /\ Within(ecc, allowed) /\ Within(row0, allowed)
        /\ Within(pcie, allowed) /\ Within(busy, allowed)
    BY WhenWithin, Zenon
  <2> HIDE DEF link, ecc, row0, pcie, busy
  <2>2. Within(AmdsmiPower(m) ++ link ++ ecc ++ row0 ++ pcie ++ busy, allowed)
    BY <2>1, OverWithin
  <2> QED
    BY <2>2, WhenWithin, Zenon
<1>3. StatsReadings(d, cached, m, c, p) =
           first ++ activity ++ violated ++ links ++ bytes ++ metrics ++ vram
  BY DEF StatsReadings
<1> HIDE DEF first, activity, violated, links, bytes, metrics, vram
<1>4. Within(StatsReadings(d, cached, m, c, p), allowed)
  BY <1>1, <1>2, <1>3, OverWithin
<1> QED
  BY <1>4, StatsOverMarks, OverWithin

\* smi_gpu_fill_stats
LEMMA StatsFit ==
  ASSUME NEW d, NEW b, NEW cached, NEW m, NEW c, NEW p,
         IsTable(m, b), IsTable(c, b), IsTable(p, b)
  PROVE  Within(AmdsmiStats(d, cached, m, c, p), ReplyValues(b))
<1>1. DOMAIN ReplyValues(b) = Fields
  BY DEF ReplyValues
<1>2. Within(Widened(c, {"gfx_activity", "umc_activity"}, "na32"), ReplyValues(b))
  BY TableWidths, ReplyValue, WidenedFits DEF Narrow, Displaced, Zeroless, Unmarked
<1>3. Within([xgmi_requests |-> Ask(d, "xgmi_counter", "xgmi_requests", "zero", "zero"),
              xgmi_responses |-> Ask(d, "xgmi_counter", "xgmi_responses", "zero", "zero")],
             ReplyValues(b))
  BY <1>1, ReplyValue DEF Within, Displaced, Zeroless, Read, Ask
<1>4. Within([tx_bytes |-> Read(d, "rx_bytes", "na64"), rx_bytes |-> Read(d, "tx_bytes", "na64")],
             ReplyValues(b))
  BY <1>1, ReplyValue, DisplacedValues DEF Within, Narrow, Zeroless, Unmarked, Read
<1>5. Within([xgmi_link |-> m["xgmi_link"]], ReplyValues(b))
  <2>1. m["xgmi_link"] \in {"xgmi_link", "zero", "na64"}
    BY TableWidths, TableEntry DEF Tabled, Wsl32
  <2> QED
    BY <1>1, <2>1, ReplyValue DEF Within, Narrow, Displaced, Zeroless, Unmarked
<1>6. Within([f \in PcieStatsFields \ {"rx_bytes", "tx_bytes"} |-> m[f]], ReplyValues(b))
  <2>1. \A f \in PcieStatsFields \ {"rx_bytes", "tx_bytes"} :
            m[f] \in {f, "zero", "na64"} \/ (b = "wsl" /\ f = "nack_count" /\ m[f] = "na32")
    BY TableWidths, TableEntry DEF Tabled, Wsl32, PcieStatsFields
  <2> QED
    BY <1>1, <2>1, ReplyValue, DisplacedValues
       DEF Within, Narrow, Displaced, Zeroless, Unmarked, PcieStatsFields
<1>7. Within(All(UsageFields, "na32"), ReplyValues(b))
  BY <1>1, ReplyValue DEF Within, Narrow, Zeroless, Unmarked, All, UsageFields
<1>8. Within(All(PcieStatsFields \union ViolationFields \union {"xgmi_link"}, "na64"), ReplyValues(b))
  BY <1>1, ReplyValue DEF Within, Narrow, Zeroless, Unmarked, All, PcieStatsFields, ViolationFields
<1>9. /\ Within(AmdsmiEcc(d), ReplyValues(b)) /\ Within(AmdsmiVramUsage(d), ReplyValues(b))
      /\ Within(AmdsmiViolation(d, m), ReplyValues(b))
      /\ Within(AmdsmiViolation(d, p), ReplyValues(b))
      /\ Within(AmdsmiPower(m), ReplyValues(b)) /\ Within(AmdsmiActivity(m), ReplyValues(b))
      /\ Within(AmdsmiPartitionActivity(p), ReplyValues(b))
  BY CallsFit, ViolationFits, PowerFits
<1> QED
  BY <1>2, <1>3, <1>4, <1>5, <1>6, <1>7, <1>8, <1>9, StatsLayers, Zenon

\* smi_gpu_init_attrs of amdsmi and of wsl.
LEMMA CreateFits ==
  ASSUME NEW d
  PROVE  /\ Within(AmdsmiCreate(d), ReplyValues("amdsmi"))
         /\ Within(WslCreate(d), ReplyValues("wsl"))
<1>1. \A b : DOMAIN ReplyValues(b) = Fields
  BY DEF ReplyValues
<1>2. ASSUME NEW b
      PROVE  /\ Within([virtualization_mode |-> Read(d, "virtualization_mode", "zero")],
                       ReplyValues(b))
             /\ Within([vbios_version |-> Read(d, "vbios_version", "zero"),
                        card_sku |-> Read(d, "card_sku", "zero")], ReplyValues(b))
             /\ Within([fw_version |-> Read(d, "fw_version", "absent")], ReplyValues(b))
             /\ Within([memory_vendor |-> Read(d, "memory_vendor", "zero")], ReplyValues(b))
             /\ Within([pcie_bus_id |-> Read(d, "pcie_bus_id", "zero")], ReplyValues(b))
  BY <1>1, ReplyValue DEF Within, Displaced, Zeroless, Read
<1>3. Within([serial_num |-> Ask(d, "board_info", "serial_num", "zero", "junk"),
              driver_version |-> Ask(d, "driver_info", "driver_version", "zero", "junk"),
              card_model |-> LET board == Ask(d, "board_info", "card_model", "zero", "junk")
                             IN IF board = "zero" /\ "asic_info" \notin d.fails
                                THEN "card_model" ELSE board], ReplyValues("amdsmi"))
  BY <1>1, ReplyValue, DisplacedValues DEF Within, Displaced, Zeroless, Read, Ask
<1>4. Within([serial_num |-> Ask(d, "board_info", "serial_num", "zero", "zero"),
              driver_version |-> Ask(d, "driver_info", "driver_version", "zero", "zero"),
              card_model |-> IF "asic_info" \notin d.fails THEN "card_model"
                             ELSE Ask(d, "board_info", "card_model", "zero", "zero")],
             ReplyValues("wsl"))
  BY <1>1, ReplyValue DEF Within, Displaced, Zeroless, Read, Ask
<1> DEFINE virt   == When("virtualization_mode" \notin d.fails,
                          [virtualization_mode |-> Read(d, "virtualization_mode", "zero")])
           vbios  == When("vbios_info" \notin d.fails,
                          [vbios_version |-> Read(d, "vbios_version", "zero"),
                           card_sku |-> Read(d, "card_sku", "zero")])
           fw     == When("fw_info" \notin d.fails, [fw_version |-> Read(d, "fw_version", "absent")])
           vendor == When("vram_vendor" \notin d.fails,
                          [memory_vendor |-> Read(d, "memory_vendor", "zero")])
           bdf    == When("bdf_id" \notin d.fails, [pcie_bus_id |-> Read(d, "pcie_bus_id", "zero")])
<1>5. ASSUME NEW b
      PROVE  /\ Within(virt, ReplyValues(b)) /\ Within(vbios, ReplyValues(b))
             /\ Within(fw, ReplyValues(b)) /\ Within(vendor, ReplyValues(b))
             /\ Within(bdf, ReplyValues(b))
  BY <1>2, WhenWithin, Zenon
<1>6. Within(AmdsmiCreate(d), ReplyValues("amdsmi"))
  <2>1. PICK board :
          /\ AmdsmiIdentity(d) = AmdsmiClockRanges(d) ++ AmdsmiVramStatus(d) ++
                                 AmdsmiEnumeration(d) ++ board ++ virt ++ vbios ++ fw ++ vendor ++ bdf
          /\ Within(board, ReplyValues("amdsmi"))
    BY <1>3, Zenon DEF AmdsmiIdentity
  <2> HIDE DEF virt, vbios, fw, vendor, bdf
  <2>2. Within(AmdsmiIdentity(d), ReplyValues("amdsmi"))
    BY <1>5, <2>1, CallsFit, OverWithin
  <2> QED
    BY <2>2, CallsFit, OverWithin DEF AmdsmiCreate
<1>7. Within(WslCreate(d), ReplyValues("wsl"))
  <2>1. PICK board :
          /\ WslIdentity(d) = AmdsmiClockRanges(d) ++ AmdsmiVramStatus(d) ++
                              AmdsmiEnumeration(d) ++ board ++ virt ++ vbios ++ fw ++ vendor ++ bdf
          /\ Within(board, ReplyValues("wsl"))
    BY <1>4, Zenon DEF WslIdentity, WslClockRanges, WslVramStatus, WslEnumeration
  <2> HIDE DEF virt, vbios, fw, vendor, bdf
  <2>2. Within(WslIdentity(d), ReplyValues("wsl"))
    BY <1>5, <2>1, CallsFit, OverWithin
  <2> QED
    BY <2>2, CallsFit, OverWithin DEF WslCreate, WslConfig
<1> QED
  BY <1>6, <1>7

\* The clock a range belongs to.
LEMMA ClockOfRange ==
  ASSUME NEW r \in ClockRangeFields
  PROVE  LET c == CHOOSE x \in DOMAIN RangeOf : RangeOf[x] = r
         IN /\ c \in DOMAIN RangeOf /\ RangeOf[c] = r
            /\ \A b : SpecRangeOf[c] \in ReplyValues(b)[r]
<1> DEFINE c == CHOOSE x \in DOMAIN RangeOf : RangeOf[x] = r
<1>1. \E x \in DOMAIN RangeOf : RangeOf[x] = r
  BY DEF ClockRangeFields
<1>2. c \in DOMAIN RangeOf /\ RangeOf[c] = r
  BY <1>1
<1> HIDE DEF c
<1>3. c \in {"gfx_clock", "mem_clock", "video_clock", "data_clock"}
  BY <1>2 DEF RangeOf
<1>4. \A b : SpecRangeOf[c] \in ReplyValues(b)[r]
  BY <1>2, <1>3, DisplacedValues DEF RangeOf, SpecRangeOf
<1> QED
  BY <1>2, <1>4 DEF c

\* gim: the specification and the status.
LEMMA GimStatusFits ==
  ASSUME NEW d, NEW b
  PROVE  /\ Within(GimSpecFields(d), ReplyValues(b))
         /\ Within(GimClockRanges(d), ReplyValues(b))
         /\ Within(GimStatus(d), ReplyValues(b))
<1>1. DOMAIN ReplyValues(b) = Fields
  BY DEF ReplyValues
<1>2. Within(GimSpecFields(d), ReplyValues(b))
  <2>1. /\ Within([overdrive |-> "na32", perf_level |-> "zero", spec_fan_speed |-> "na64"],
                  ReplyValues(b))
        /\ Within([power_cap |-> Read(d, "power_cap", "zero")], ReplyValues(b))
    BY <1>1, ReplyValue DEF Within, Narrow, Displaced, Zeroless, Unmarked, Read
  <2> QED
    BY <2>1, OverWithin, WhenWithin, Zenon DEF GimSpecFields, Guarded
<1>3. Within(GimClockRanges(d), ReplyValues(b))
  <2> DEFINE gfx   == When("clock_info_gfx" \notin d.fails, [gfx_range |-> Read(d, "gfx_range", "na32")])
             mem   == When("clock_info_mem" \notin d.fails, [mem_range |-> Read(d, "mem_range", "na32")])
             video == When("clock_info_video" \notin d.fails,
                           [video_range |-> Read(d, "video_range", "na32")])
             data  == When("clock_info_data" \notin d.fails,
                           [data_range |-> Read(d, "data_range", "na32")])
  <2>1. /\ Within([gfx_range |-> Read(d, "gfx_range", "na32")], ReplyValues(b))
        /\ Within([mem_range |-> Read(d, "mem_range", "na32")], ReplyValues(b))
        /\ Within([video_range |-> Read(d, "video_range", "na32")], ReplyValues(b))
        /\ Within([data_range |-> Read(d, "data_range", "na32")], ReplyValues(b))
    BY <1>1, ReplyValue DEF Within, Narrow, Displaced, Zeroless, Unmarked, Read
  <2>2. /\ Within(gfx, ReplyValues(b)) /\ Within(mem, ReplyValues(b))
        /\ Within(video, ReplyValues(b)) /\ Within(data, ReplyValues(b))
    BY <2>1, WhenWithin, Zenon
  <2>3. GimClockRanges(d) = gfx ++ mem ++ video ++ data
    BY DEF GimClockRanges
  <2> HIDE DEF gfx, mem, video, data
  <2> QED
    BY <2>2, <2>3, OverWithin
<1>4. Within(GimClockStatus(d), ReplyValues(b))
  <2> DEFINE read   == {c \in ClockFields : ClockCall[c] \notin d.fails}
             clocks == [c \in read |-> Read(d, c, "na32")]
             ranges == [r \in {RangeOf[c] : c \in read \intersect DOMAIN RangeOf} |->
                            LET c == CHOOSE x \in DOMAIN RangeOf : RangeOf[x] = r
                            IN Read(d, SpecRangeOf[c], "na32")]
  <2>1. Within(clocks, ReplyValues(b))
    BY <1>1, ReplyValue DEF Within, Narrow, Displaced, Zeroless, Unmarked, Read, ClockFields
  <2>2. Within(ranges, ReplyValues(b))
    <3>1. DOMAIN ranges \subseteq ClockRangeFields
      BY DEF ClockRangeFields
    <3>2. ASSUME NEW r \in DOMAIN ranges
          PROVE  /\ SpecRangeOf[CHOOSE x \in DOMAIN RangeOf : RangeOf[x] = r] \in ReplyValues(b)[r]
                 /\ r \in Fields => "na32" \in ReplyValues(b)[r]
      <4>1. r \in ClockRangeFields
        BY <3>1
      <4>2. r \in Narrow
        BY <4>1 DEF ClockRangeFields, RangeOf, Narrow, Zeroless, Unmarked
      <4> QED
        BY <4>1, <4>2, ClockOfRange, ReplyValue
    <3> QED
      BY <1>1, <3>2 DEF Within, Read
  <2>3. GimClockStatus(d) = clocks ++ ranges
    BY DEF GimClockStatus
  <2> HIDE DEF clocks, ranges
  <2> QED
    BY <2>1, <2>2, <2>3, OverWithin
<1>5. Within(GimPcieStatus(d), ReplyValues(b))
  <2>1. Within([pcie_bus_id |-> Read(d, "pcie_bus_id", "zero")], ReplyValues(b))
    BY <1>1, ReplyValue DEF Within, Displaced, Zeroless, Read
  <2>2. GimPcieStatus(d) = AmdsmiPcieStatus(d) ++
            When("bdf_id" \notin d.fails, [pcie_bus_id |-> Read(d, "pcie_bus_id", "zero")])
    BY DEF GimPcieStatus, AmdsmiPcieStatus
  <2> QED
    BY <2>1, <2>2, CallsFit, OverWithin, WhenWithin, Zenon
<1>6. Within(GimStatus(d), ReplyValues(b))
  <2>1. Within([xgmi_width |-> "na64", xgmi_speed |-> "na64", xgmi_error |-> "zero"],
               ReplyValues(b))
    BY <1>1, ReplyValue DEF Within, Narrow, Zeroless, Unmarked
  <2> QED
    BY <1>4, <1>5, <2>1, OverWithin, WhenWithin, Zenon DEF GimStatus, Guarded
<1> QED
  BY <1>2, <1>3, <1>6

\* gim: what is read when the GPU is created.
LEMMA GimCreateFits ==
  ASSUME NEW d, NEW b
  PROVE  Within(GimCreate(d), ReplyValues(b))
<1>1. DOMAIN ReplyValues(b) = Fields
  BY DEF ReplyValues
<1> DEFINE strings == [f \in {"serial_num", "card_model"} |-> Ask(d, "board_info", f, "zero", "zero")]
           driver  == [driver_version |-> Ask(d, "driver_info", "driver_version", "zero", "zero")]
           virt    == When("virtualization_mode" \notin d.fails,
                           [virtualization_mode |-> Read(d, "virtualization_mode", "zero")])
           vbios   == When("vbios_info" \notin d.fails,
                           [vbios_version |-> Read(d, "vbios_version", "zero"),
                            card_sku |-> Read(d, "card_sku", "zero")])
           fw      == When("fw_info" \notin d.fails, [fw_version |-> Read(d, "fw_version", "absent")])
<1>2. Within(strings, ReplyValues(b)) /\ Within(driver, ReplyValues(b))
  BY <1>1, ReplyValue DEF Within, Displaced, Zeroless, Read, Ask
<1>3. /\ Within([virtualization_mode |-> Read(d, "virtualization_mode", "zero")], ReplyValues(b))
      /\ Within([vbios_version |-> Read(d, "vbios_version", "zero"),
                 card_sku |-> Read(d, "card_sku", "zero")], ReplyValues(b))
      /\ Within([fw_version |-> Read(d, "fw_version", "absent")], ReplyValues(b))
  BY <1>1, ReplyValue DEF Within, Displaced, Zeroless, Read
<1>4. Within(virt, ReplyValues(b)) /\ Within(vbios, ReplyValues(b)) /\ Within(fw, ReplyValues(b))
  BY <1>3, WhenWithin, Zenon
<1>5. Within(GimVramStatus(d), ReplyValues(b))
  <2>1. Within([vram_type |-> Read(d, "vram_type", "zero"), vram_size |-> Read(d, "vram_size", "na64"),
                memory_vendor |-> Read(d, "memory_vendor", "zero")], ReplyValues(b))
    BY <1>1, ReplyValue DEF Within, Narrow, Displaced, Zeroless, Unmarked, Read
  <2>2. Within([vram_bandwidth |-> Streamed(d, "vram_bandwidth", "na64")], ReplyValues(b))
    BY <1>1, ReplyValue DEF Within, Narrow, Displaced, Zeroless, Unmarked, Streamed
  <2> QED
    BY <2>1, <2>2, OverWithin, WhenWithin, Zenon DEF GimVramStatus
<1> DEFINE all == GimClockRanges(d) ++ GimVramStatus(d) ++ strings ++ driver ++ virt ++ vbios ++ fw
<1>6. Within(all, ReplyValues(b))
  <2> HIDE DEF strings, driver, virt, vbios, fw
  <2> QED
    BY <1>2, <1>4, <1>5, GimStatusFits, OverWithin
<1>7. GimIdentity(d) = When("session_create" \notin d.fails, all)
  BY Zenon DEF GimIdentity, Guarded
<1> HIDE DEF all
<1> QED
  BY <1>6, <1>7, GimStatusFits, OverWithin, WhenWithin, Zenon DEF GimCreate

\* gim: what smi_gpu_fill_stats reads, over what it marks as not available.
GimReadings(d) ==
    LET Wanted(s) == s \notin d.skip
    IN When("power_info" \notin d.fails,
            [f \in {"package_power", "soc_voltage", "gfx_voltage", "mem_voltage"} |->
                 Read(d, f, "na64")]) ++
       When(Wanted("skip_activity_stats") /\ "gpu_activity" \notin d.fails,
            [f \in {"gfx_activity", "umc_activity", "mm_activity"} |-> Read(d, f, "na32")]) ++
       When(Wanted("skip_activity_stats") \/ Wanted("skip_violation_stats"), GimWalk(d)) ++
       When(Wanted("skip_pcie_stats") /\ "pcie_metric" \notin d.fails,
            [f \in {"replay_count", "recovery_count", "rollover_count", "nack_count"} |->
                 Read(d, f, "na64")]) ++
       When("temp_metric" \notin d.fails,
            [f \in {"edge_temp", "junction_temp", "memory_temp", "hbm_temp"} |->
                 Read(d, f, "zero")]) ++
       When(Wanted("skip_ecc_stats"), GimEcc(d))

LEMMA GimOverMarks ==
  ASSUME NEW d
  PROVE  GimStats(d) =
             When("session_stats" \notin d.fails,
                  ((GimReadings(d) ++ All({"total_vram", "used_vram", "free_vram"}, "na64")) ++
                   All(UsageFields, "na32")) ++ All(PcieStatsFields \union {"xgmi_link"}, "na64"))
BY Zenon DEF GimStats, GimReadings, Guarded

\* ... which is what each of its parts writes.
LEMMA GimStatsLayers ==
  ASSUME NEW d, NEW allowed,
         Within([f \in {"package_power", "soc_voltage", "gfx_voltage", "mem_voltage"} |->
                     Read(d, f, "na64")], allowed),
         Within([f \in {"gfx_activity", "umc_activity", "mm_activity"} |-> Read(d, f, "na32")],
                allowed),
         Within(GimWalk(d), allowed),
         Within([f \in {"replay_count", "recovery_count", "rollover_count", "nack_count"} |->
                     Read(d, f, "na64")], allowed),
         Within([f \in {"edge_temp", "junction_temp", "memory_temp", "hbm_temp"} |->
                     Read(d, f, "zero")], allowed),
         Within(GimEcc(d), allowed)
  PROVE  /\ Within(GimReadings(d), allowed)
         /\ /\ Within(All({"total_vram", "used_vram", "free_vram"}, "na64"), allowed)
            /\ Within(All(UsageFields, "na32"), allowed)
            /\ Within(All(PcieStatsFields \union {"xgmi_link"}, "na64"), allowed)
            => Within(GimStats(d), allowed)
<1> DEFINE Wanted(s) == s \notin d.skip
           power    == When("power_info" \notin d.fails,
                            [f \in {"package_power", "soc_voltage", "gfx_voltage", "mem_voltage"} |->
                                 Read(d, f, "na64")])
           activity == When(Wanted("skip_activity_stats") /\ "gpu_activity" \notin d.fails,
                            [f \in {"gfx_activity", "umc_activity", "mm_activity"} |->
                                 Read(d, f, "na32")])
           walk     == When(Wanted("skip_activity_stats") \/ Wanted("skip_violation_stats"),
                            GimWalk(d))
           counters == When(Wanted("skip_pcie_stats") /\ "pcie_metric" \notin d.fails,
                            [f \in {"replay_count", "recovery_count", "rollover_count",
                                    "nack_count"} |-> Read(d, f, "na64")])
           temps    == When("temp_metric" \notin d.fails,
                            [f \in {"edge_temp", "junction_temp", "memory_temp", "hbm_temp"} |->
                                 Read(d, f, "zero")])
           ecc      == When(Wanted("skip_ecc_stats"), GimEcc(d))
<1>1. /\ Within(power, allowed) /\ Within(activity, allowed) /\ Within(walk, allowed)
      /\ Within(counters, allowed) /\ Within(temps, allowed) /\ Within(ecc, allowed)
  BY WhenWithin, Zenon
<1>2. GimReadings(d) = power ++ activity ++ walk ++ counters ++ temps ++ ecc
  BY Zenon DEF GimReadings
<1> HIDE DEF power, activity, walk, counters, temps, ecc
<1>3. Within(GimReadings(d), allowed)
  BY <1>1, <1>2, OverWithin
<1> QED
  BY <1>3, GimOverMarks, OverWithin, WhenWithin

\* ... and its walk.
LEMMA GimWalkLayers ==
  ASSUME NEW d, NEW allowed,
         Within([f \in {"vcn_activity", "vcn_busy", "jpeg_activity", "jpeg_busy", "gfx_busy"} |->
                     Streamed(d, f, "na32")], allowed),
         Within([f \in ViolationFields \ {"residency_per", "gfx_limit_per", "low_util_per"} |->
                     Streamed(d, f, "na64")], allowed),
         Within(All({"residency_per", "gfx_limit_per", "low_util_per"}, "na64"), allowed)
  PROVE  Within(GimWalk(d), allowed)
BY OverWithin, Zenon DEF GimWalk

\* gim: the statistics.
LEMMA GimStatsFit ==
  ASSUME NEW d, NEW b
  PROVE  Within(GimStats(d), ReplyValues(b))
<1>1. DOMAIN ReplyValues(b) = Fields
  BY DEF ReplyValues
<1>2. /\ Within([f \in {"package_power", "soc_voltage", "gfx_voltage", "mem_voltage"} |->
                     Read(d, f, "na64")], ReplyValues(b))
      /\ Within([f \in {"gfx_activity", "umc_activity", "mm_activity"} |-> Read(d, f, "na32")],
                ReplyValues(b))
      /\ Within([f \in {"replay_count", "recovery_count", "rollover_count", "nack_count"} |->
                     Read(d, f, "na64")], ReplyValues(b))
      /\ Within([f \in {"edge_temp", "junction_temp", "memory_temp", "hbm_temp"} |->
                     Read(d, f, "zero")], ReplyValues(b))
  BY <1>1, ReplyValue DEF Within, Narrow, Displaced, Zeroless, Unmarked, Read
<1>3. Within(GimWalk(d), ReplyValues(b))
  <2>1. Within([f \in {"vcn_activity", "vcn_busy", "jpeg_activity", "jpeg_busy", "gfx_busy"} |->
                    Streamed(d, f, "na32")], ReplyValues(b))
    BY <1>1, ReplyValue DEF Within, Narrow, Displaced, Zeroless, Unmarked, Streamed
  <2>2. /\ Within([f \in ViolationFields \ {"residency_per", "gfx_limit_per", "low_util_per"} |->
                        Streamed(d, f, "na64")], ReplyValues(b))
        /\ Within(All({"residency_per", "gfx_limit_per", "low_util_per"}, "na64"), ReplyValues(b))
    BY <1>1, ReplyValue
       DEF Within, Narrow, Displaced, Zeroless, Unmarked, Streamed, ViolationFields, All
  <2> QED
    BY <2>1, <2>2, GimWalkLayers, Zenon
<1>4. /\ Within(All({"total_vram", "used_vram", "free_vram"}, "na64"), ReplyValues(b))
      /\ Within(All(UsageFields, "na32"), ReplyValues(b))
      /\ Within(All(PcieStatsFields \union {"xgmi_link"}, "na64"), ReplyValues(b))
  BY <1>1, ReplyValue
     DEF Within, Narrow, Displaced, Zeroless, Unmarked, All, UsageFields, PcieStatsFields
<1>5. Within(GimEcc(d), ReplyValues(b))
  BY CallsFit, Zenon DEF GimEcc, AmdsmiEcc
<1> QED
  BY <1>2, <1>3, <1>4, <1>5, GimStatsLayers, Zenon

Backends == {"amdsmi", "wsl", "gim"}

\* The stages of gpu_entry::read, through whichever back end.
LEMMA StagesFit ==
  ASSUME NEW d, d.backend \in Backends
  PROVE  LET allowed == ReplyValues(d.backend)
         IN /\ Within(Created(d), allowed) /\ Within(SpecOf(d), allowed)
            /\ Within(StatsOf(d), allowed)
            /\ \A reply : DOMAIN reply = Fields /\ Within(reply, allowed) =>
                               Within(StatusOf(d, reply), allowed)
<1>1. Within(Created(d), ReplyValues(d.backend))
  BY CreateFits, GimCreateFits DEF Created, Backends
<1>2. Within(SpecOf(d), ReplyValues(d.backend))
  BY GimStatusFits, WhenWithin, Zenon DEF SpecOf
<1>3. Within(StatsOf(d), ReplyValues(d.backend))
  <2>1. CASE d.backend = "amdsmi"
    <3>1. IsTable(AmdsmiMetrics(d), d.backend)
      BY AmdsmiTable
    <3> QED
      BY <2>1, <3>1, StatsFit DEF StatsOf
  <2>2. CASE d.backend = "wsl"
    BY <2>2, WslTables, StatsFit DEF StatsOf, WslStats
  <2>3. CASE d.backend = "gim"
    BY <2>3, GimStatsFit DEF StatsOf
  <2> QED
    BY <2>1, <2>2, <2>3 DEF Backends
<1>4. ASSUME NEW reply, DOMAIN reply = Fields, Within(reply, ReplyValues(d.backend))
      PROVE  Within(StatusOf(d, reply), ReplyValues(d.backend))
  <2>1. CASE d.backend = "amdsmi"
    <3>1. IsTable(AmdsmiMetrics(d), d.backend)
      BY AmdsmiTable
    <3> QED
      BY <1>4, <2>1, <3>1, StatusFits DEF StatusOf
  <2>2. CASE d.backend = "wsl"
    <3>1. WslStatus(d, WslCached(d), WslMetrics(d), reply)
              = AmdsmiStatus(d, WslCached(d), WslMetrics(d), reply)
      BY DEF WslStatus, AmdsmiStatus, WslClockStatus, WslPcieStatus
    <3> QED
      BY <1>4, <2>2, <3>1, WslTables, StatusFits DEF StatusOf
  <2>3. CASE d.backend = "gim"
    BY <2>3, GimStatusFits DEF StatusOf
  <2> QED
    BY <2>1, <2>2, <2>3 DEF Backends
<1> QED
  BY <1>1, <1>2, <1>3, <1>4

-----------------------------------------------------------------------------
\* The inductive invariant of a GPUGet: what has been filled is allowed.
ReplyInv ==
    /\ ShowTypeOK
    /\ {"backend", "lacks", "skip", "fails"} \subseteq DOMAIN device
    /\ device.backend \in Backends
    /\ IsFiniteSet(device.skip)
    /\ stage \notin {"create", "request"} => command \in Commands
    /\ stage # "create" => Within(info, ReplyValues(device.backend))

\* A reply as the calls of a stage leave it.
LEMMA FillPreserves ==
  ASSUME ReplyInv, NEW fails, NEW at,
         fails \in Failures(at),
         stage \in {"spec", "status", "stats"},
         device' = [device EXCEPT !.fails = @ \union fails],
         failed' = failed + Cardinality(fails),
         NEW new, Within(new, ReplyValues(device.backend)),
         info' = Update(info, new),
         stage' \in {"status", "stats", "reply"},
         UNCHANGED <<command, message, screen>>
  PROVE  ReplyInv'
<1>1. failed' \in 0 .. MaxTrouble
  <2>1. Cardinality(device.skip) \in Nat
    BY FS_CardinalityType DEF ReplyInv
  <2>2. MaxTrouble - Trouble \in Int /\ failed <= Trouble /\ Trouble \in Int
    BY <2>1, ShowAssumption DEF Trouble, ReplyInv, ShowTypeOK
  <2>3. Cardinality(fails) \in Nat /\ (Cardinality(fails) = 0 \/ Cardinality(fails) <= MaxTrouble - Trouble)
    BY <2>2, AtMost DEF Failures
  <2> QED
    BY <2>2, <2>3, ShowAssumption DEF ReplyInv, ShowTypeOK
<1>2. /\ DOMAIN device' = DOMAIN device /\ device'.backend = device.backend
      /\ device'.skip = device.skip /\ device'.lacks = device.lacks
  BY DEF ReplyInv
<1>3. DOMAIN info' = Fields
  BY UpdateFields DEF ReplyInv, ShowTypeOK
<1>4. Within(info', ReplyValues(device'.backend))
  BY <1>2, UpdateWithin DEF ReplyInv
<1>5. ShowTypeOK'
  BY <1>1, <1>2, <1>3 DEF ReplyInv, ShowTypeOK
<1> QED
  BY <1>2, <1>4, <1>5 DEF ReplyInv

\* Nothing but fields is written by one part over another,
LEMMA OverNarrow ==
  ASSUME NEW u, NEW v, NEW S, DOMAIN u \subseteq S, DOMAIN v \subseteq S
  PROVE  DOMAIN (u ++ v) \subseteq S
BY OverFields

\* so a message has fields only,
LEMMA MessageFields ==
  ASSUME NEW i
  PROVE  DOMAIN InfoToProto(i) \subseteq Fields
<1>1. \A fields : DOMAIN Set(i, fields) \subseteq fields /\ DOMAIN Listed(i, fields) \subseteq fields
  BY DEF Set, Listed
<1>2. /\ SpecFields \subseteq Fields /\ StatusFields \subseteq Fields /\ StatsFields \subseteq Fields
      /\ IdentityFields \subseteq Fields /\ UsageFields \subseteq Fields
      /\ PcieStatsFields \subseteq Fields /\ ViolationFields \subseteq Fields
      /\ ClockFields \union ClockRangeFields \subseteq Fields
  BY DEF Fields, StatusFields, StatsFields
<1>3. DOMAIN SpecToProto(i) \subseteq Fields
  <2>1. DOMAIN Set(i, SpecFields) \subseteq Fields /\ DOMAIN Listed(i, SpecFields) \subseteq Fields
    BY <1>1, <1>2
  <2> QED
    BY <2>1, OverNarrow, Zenon DEF SpecToProto
<1>4. DOMAIN StatusToProto(i) \subseteq Fields
  <2> DEFINE rest == Set(i, {"serial_num", "card_model", "card_sku", "driver_version",
                             "vbios_version", "memory_vendor", "virtualization_mode", "kfd_id",
                             "drm_id", "throttling", "fw_timestamp"})
  <2>1. /\ DOMAIN FwVersionToProto(i) \subseteq Fields /\ DOMAIN ProcessToProto(i) \subseteq Fields
        /\ DOMAIN ClockStatusToProto(i) \subseteq Fields
        /\ DOMAIN XgmiStatusToProto(i) \subseteq Fields
        /\ DOMAIN PcieStatusToProto(i) \subseteq Fields
        /\ DOMAIN VramStatusToProto(i) \subseteq Fields /\ DOMAIN rest \subseteq Fields
    BY <1>1, <1>2 DEF FwVersionToProto, ProcessToProto, ClockStatusToProto, XgmiStatusToProto,
       PcieStatusToProto, VramStatusToProto, Fields, StatusFields, IdentityFields
  <2>2. StatusToProto(i) = FwVersionToProto(i) ++ ProcessToProto(i) ++ ClockStatusToProto(i) ++
            XgmiStatusToProto(i) ++ PcieStatusToProto(i) ++ VramStatusToProto(i) ++ rest
    BY DEF StatusToProto
  <2> HIDE DEF rest
  <2> QED
    BY <2>1, <2>2, OverNarrow
<1>5. DOMAIN StatsToProto(i) \subseteq Fields
  <2> DEFINE rest == Set(i, StatsFields \ (UsageFields \union PcieStatsFields \union ViolationFields))
  <2>1. /\ DOMAIN UsageToProto(i) \subseteq Fields /\ DOMAIN PcieStatsToProto(i) \subseteq Fields
        /\ DOMAIN ViolationToProto(i) \subseteq Fields
    BY <1>1, <1>2 DEF UsageToProto, PcieStatsToProto, ViolationToProto
  <2>2. DOMAIN rest \subseteq Fields
    BY <1>1, <1>2
  <2>3. StatsToProto(i) = UsageToProto(i) ++ PcieStatsToProto(i) ++ ViolationToProto(i) ++ rest
    BY DEF StatsToProto
  <2> HIDE DEF rest
  <2> QED
    BY <2>1, <2>2, <2>3, OverNarrow
<1> QED
  BY <1>3, <1>4, <1>5, OverNarrow, Zenon DEF InfoToProto

\* and a screen what the message has.
LEMMA ScreenFields ==
  ASSUME NEW msg, NEW c \in Commands
  PROVE  DOMAIN Screen(c, msg) \subseteq DOMAIN msg
<1>1. \A labels : DOMAIN Shown(msg, labels) \subseteq DOMAIN msg
  BY DEF Shown
<1>2. DOMAIN AllCommand(msg) \subseteq DOMAIN msg
  BY <1>1, OverNarrow, Zenon DEF AllCommand
<1> QED
  BY <1>1, <1>2 DEF Screen, ShowCommand, StatsCommand, Commands

\* The GPU of a behaviour.
LEMMA DeviceFits ==
  ASSUME NEW lacks, NEW d \in Devices(lacks)
  PROVE  /\ {"backend", "lacks", "skip", "fails"} \subseteq DOMAIN d
         /\ d.backend \in Backends
         /\ d.skip = {} /\ d.lacks = lacks
BY DEF Devices, Device, Backends

LEMMA ReplyInvInit == ShowInit => ReplyInv
<1> SUFFICES ASSUME ShowInit PROVE ReplyInv
  OBVIOUS
<1>1. PICK lacks : device \in Devices(lacks)
  BY DEF ShowInit
<1>2. IsFiniteSet(device.skip) /\ device.skip = {} /\ device.skip \subseteq SkipFlags
  BY <1>1, DeviceFits, FS_EmptySet
<1> QED
  BY <1>1, <1>2, DeviceFits, ShowAssumption
     DEF ShowInit, ReplyInv, ShowTypeOK, Untouched, All

LEMMA ReplyInvStep == ReplyInv /\ [ShowNext]_showVars => ReplyInv'
<1> SUFFICES ASSUME ReplyInv, [ShowNext]_showVars PROVE ReplyInv'
  OBVIOUS
<1>1. CASE Create
  <2>1. PICK fails \in Failures("create") :
            /\ info' = Update(Cleared, Created([device EXCEPT !.fails = fails]))
            /\ failed' = failed + Cardinality(fails)
    BY <1>1 DEF Create
  <2>2. PICK d : d = [device EXCEPT !.fails = fails]
    OBVIOUS
  <2>3. d.backend = device.backend
    BY <2>2 DEF ReplyInv
  <2>4. Within(Created(d), ReplyValues(device.backend))
    BY <2>3, StagesFit DEF ReplyInv
  <2>5. Within(Cleared, ReplyValues(device.backend)) /\ DOMAIN Cleared = Fields
    BY ClearedReplyFits
  <2>6. DOMAIN info' = Fields /\ Within(info', ReplyValues(device.backend))
    BY <2>1, <2>2, <2>4, <2>5, UpdateFields, UpdateWithin
  <2>7. failed' \in 0 .. MaxTrouble
    <3>1. Cardinality(device.skip) \in Nat
      BY FS_CardinalityType DEF ReplyInv
    <3>2. MaxTrouble - Trouble \in Int /\ failed <= Trouble /\ Trouble \in Int
      BY <3>1, ShowAssumption DEF Trouble, ReplyInv, ShowTypeOK
    <3>3. /\ Cardinality(fails) \in Nat
          /\ Cardinality(fails) = 0 \/ Cardinality(fails) <= MaxTrouble - Trouble
      BY <3>2, AtMost DEF Failures
    <3> QED
      BY <2>1, <3>2, <3>3, ShowAssumption DEF ReplyInv, ShowTypeOK
  <2> QED
    BY <1>1, <2>6, <2>7 DEF Create, ReplyInv, ShowTypeOK
<1>2. CASE Request
  <2>1. PICK skip \in Upto(MaxTrouble - Trouble, SkipFlags) : device' = [device EXCEPT !.skip = skip]
    BY <1>2 DEF Request
  <2>2. IsFiniteSet(skip) /\ skip \subseteq SkipFlags
    <3>1. Cardinality(device.skip) \in Nat
      BY FS_CardinalityType DEF ReplyInv
    <3>2. MaxTrouble - Trouble \in Int
      BY <3>1, ShowAssumption DEF Trouble, ReplyInv, ShowTypeOK
    <3> QED
      BY <3>2, AtMost
  <2>3. /\ DOMAIN device' = DOMAIN device /\ device'.skip = skip
        /\ device'.backend = device.backend
    BY <2>1 DEF ReplyInv
  <2>4. /\ DOMAIN info' = Fields /\ Within(info', ReplyValues(device.backend))
    BY <1>2, ClearedReplyFits DEF Request, ReplyInv, ShowTypeOK
  <2> QED
    BY <1>2, <2>2, <2>3, <2>4 DEF Request, ReplyInv, ShowTypeOK
<1>3. CASE FillSpec
  <2>1. PICK fails \in Failures("spec") :
            /\ device' = [device EXCEPT !.fails = @ \union fails]
            /\ failed' = failed + Cardinality(fails)
            /\ info' = Update(info, SpecOf([device EXCEPT !.fails = @ \union fails]))
    BY <1>3 DEF FillSpec, Filled
  <2>2. Within(SpecOf(device'), ReplyValues(device.backend))
    BY <2>1, StagesFit DEF ReplyInv
  <2> QED
    BY <1>3, <2>1, <2>2, FillPreserves DEF FillSpec, Filled
<1>4. CASE FillStatus
  <2>1. PICK fails \in Failures("status") :
            /\ device' = [device EXCEPT !.fails = @ \union fails]
            /\ failed' = failed + Cardinality(fails)
            /\ info' = Update(info, StatusOf([device EXCEPT !.fails = @ \union fails], info))
    BY <1>4 DEF FillStatus, Filled
  <2>2. Within(StatusOf(device', info), ReplyValues(device.backend))
    BY <1>4, <2>1, StagesFit DEF ReplyInv, ShowTypeOK, FillStatus
  <2> QED
    BY <1>4, <2>1, <2>2, FillPreserves DEF FillStatus, Filled
<1>5. CASE FillStats
  <2>1. PICK fails \in Failures("stats") :
            /\ device' = [device EXCEPT !.fails = @ \union fails]
            /\ failed' = failed + Cardinality(fails)
            /\ info' = Update(info, StatsOf([device EXCEPT !.fails = @ \union fails]))
    BY <1>5 DEF FillStats, Filled
  <2>2. Within(StatsOf(device'), ReplyValues(device.backend))
    BY <2>1, StagesFit DEF ReplyInv
  <2> QED
    BY <1>5, <2>1, <2>2, FillPreserves DEF FillStats, Filled
<1>6. CASE Reply
  BY <1>6, MessageFields DEF Reply, ReplyInv, ShowTypeOK
<1>7. CASE Display
  <2>1. command \in Commands => DOMAIN screen' \subseteq Fields
    BY <1>7, ScreenFields DEF Display, ReplyInv, ShowTypeOK
  <2> QED
    BY <1>7, <2>1 DEF Display, ReplyInv, ShowTypeOK
<1>8. CASE UNCHANGED showVars
  BY <1>8 DEF showVars, ReplyInv, ShowTypeOK
<1> QED
  BY <1>1, <1>2, <1>3, <1>4, <1>5, <1>6, <1>7, <1>8 DEF ShowNext

\* The inductive invariant holds of every behaviour.
THEOREM RepliesInvariant == ShowSpec => []ReplyInv
BY ReplyInvInit, ReplyInvStep, PTL DEF ShowSpec

\* The types of a GPUGet: no more calls fail than the bound allows, and a reply,
\* a message and a screen have the fields of aga_gpu_info_t and no others.
THEOREM ShowTypeCorrect == ShowSpec => []ShowTypeOK
<1>1. ReplyInv => ShowTypeOK
  BY DEF ReplyInv
<1> QED
  BY <1>1, RepliesInvariant, PTL

\* No reading looks like the want of one.
LEMMA OriginsAreReadings ==
  ASSUME NEW f \in Fields
  PROVE  Origins(f) \intersect NoReading = {}
<1>1. f \notin NoReading
  BY DEF Fields, SpecFields, IdentityFields, StatusFields, StatsFields, ClockFields,
     ClockRangeFields, RangeOf, UsageFields, PcieStatsFields, ViolationFields, NoReading, Sentinels
<1>2. CASE f \in ClockRangeFields
  <2>1. Origins(f) \subseteq {"gfx_range", "mem_range", "video_range", "data_range"}
    BY <1>2 DEF Origins, ClockRangeFields, RangeOf, SpecRangeOf
  <2> QED
    BY <2>1 DEF NoReading, Sentinels
<1>3. CASE f \notin ClockRangeFields
  <2>1. Origins(f) \subseteq {f, "tx_bytes", "rx_bytes", "package_power",
                              "low_util_acc_of_partition"}
    BY <1>3 DEF Origins
  <2> QED
    BY <1>1, <2>1 DEF NoReading, Sentinels
<1> QED
  BY <1>2, <1>3

\* Whichever calls fail, whatever the device lacks and whatever is filtered, what
\* a field of a reply holds is about that field, and the sentinel in it has the
\* width of the field (smi_gpu_fill_spec, smi_gpu_fill_status, smi_gpu_fill_stats
\* of the three back ends).
THEOREM RepliesAreFaithful == ShowSpec => []RepliesFaithful
<1>1. ReplyInv => RepliesFaithful
  <2> SUFFICES ASSUME ReplyInv, stage \in {"reply", "print", "shown"}, NEW f \in Fields
               PROVE  /\ \/ info[f] \in Origins(f) \union Sentinels \union {"zero", "absent"}
                         \/ f = "free_vram"
                         \/ /\ device.backend = "amdsmi"
                            /\ f \in {"serial_num", "card_model", "driver_version"}
                      /\ info[f] \in Sentinels =>
                             info[f] = OwnNA(f) \/ (device.backend = "wsl" /\ f \in Wsl32)
    BY DEF RepliesFaithful, RepliesHoldReadings, SentinelOfOwnWidth
  <2>1. info[f] \in ReplyValues(device.backend)[f]
    BY DEF ReplyInv, ShowTypeOK, Within, ReplyValues
  <2>2. OwnNA(f) \in Sentinels
    BY DEF OwnNA, Sentinels
  <2>3. Origins(f) \intersect Sentinels = {}
    BY OriginsAreReadings DEF NoReading
  <2> QED
    BY <2>1, <2>2, <2>3 DEF ReplyValues, Sentinels
<1> QED
  BY <1>1, RepliesInvariant, PTL

-----------------------------------------------------------------------------
(***************************************************************************)
(* GPUGet.  What the client makes of a reply.                              *)
(***************************************************************************)
\* A table in which nothing that it lacks is said to be zero.
Told(m) == \A f \in Tabled \ {"throttling"} : m[f] # "zero"

\* That is how the library of amdsmi fills it, and the one of wsl if it has the
\* sentinels, however often it is asked again.
LEMMA TablesTold ==
  ASSUME NEW d, {"sentinels", "fails"} \subseteq DOMAIN d
  PROVE  /\ Told(AmdsmiMetrics(d))
         /\ d.sentinels => Told(WslPartitionMetrics(d))
         /\ d.sentinels /\ "metrics_table" \notin d.fails =>
                /\ Told(WslMetrics(d)) /\ Told(WslRefreshed(d, WslMetrics(d)))
<1>1. \A e : IsTable(AmdsmiMetrics(e), "amdsmi") /\ Told(AmdsmiMetrics(e))
  BY AmdsmiTable, TableEntry DEF Told
<1>2. ASSUME NEW e, e.sentinels, "metrics_table" \notin e.fails
      PROVE  Told(WslTable(e))
  <2> DEFINE narrow == [f \in Wsl32 |-> Read(e, f, "na32")]
  <2>1. \A f \in DOMAIN narrow : narrow[f] # "zero"
    BY DEF Read, Wsl32
  <2>2. WslTable(e) = narrow ++ AmdsmiMetrics(e)
    BY <1>2 DEF WslTable
  <2> HIDE DEF narrow
  <2> QED
    BY <1>1, <2>1, <2>2, OverFields DEF Told, IsTable
<1>3. d.sentinels => Told(WslPartitionMetrics(d))
  <2>1. PICK e : e = [d EXCEPT !.fails = @ \ {"metrics_table"}]
    OBVIOUS
  <2>2. d.sentinels => e.sentinels /\ "metrics_table" \notin e.fails
    BY <2>1
  <2> QED
    BY <1>2, <2>1, <2>2 DEF WslPartitionMetrics
<1>4. ASSUME d.sentinels, "metrics_table" \notin d.fails
      PROVE  /\ Told(WslMetrics(d)) /\ Told(WslRefreshed(d, WslMetrics(d)))
  <2>1. Told(WslTable(d)) /\ IsTable(WslTable(d), "wsl")
    BY <1>2, <1>4, WslTableFits
  <2>2. Told(WslMetrics(d)) /\ IsTable(WslMetrics(d), "wsl")
    BY <2>1, WslRefilledFits DEF Told, WslMetrics
  <2>3. {"package_power", "gfx_activity"} \subseteq Tabled \ {"throttling"}
    BY TableWidths DEF Tabled
  <2> QED
    BY <2>2, <2>3, WslRefreshedFits DEF Told
<1> QED
  BY <1>1, <1>3, <1>4

\* What is measured, or marked as not measured.
MeasuredStats ==
    [f \in PrintedStats |-> Fields \union Sentinels \union {"low_util_acc_of_partition"}]

LEMMA PrintedNames ==
  /\ PrintedStats = {"vcn_activity", "jpeg_activity", "vcn_busy", "jpeg_busy", "gfx_busy",
                     "rx_bytes", "tx_bytes", "violation_counter", "residency_acc", "vr_acc",
                     "hbm_acc", "residency_per", "gfx_limit_acc", "low_util_acc",
                     "gfx_limit_per", "low_util_per"}
  /\ DOMAIN MeasuredStats = PrintedStats /\ PrintedStats \subseteq Fields
  /\ \A f \in PrintedStats :
         /\ {f, "na16", "na32", "na64"} \subseteq MeasuredStats[f]
         /\ "rx_bytes" \in MeasuredStats[f] /\ "tx_bytes" \in MeasuredStats[f]
         /\ "low_util_acc_of_partition" \in MeasuredStats[f]
<1>1. PrintedStats = {"vcn_activity", "jpeg_activity", "vcn_busy", "jpeg_busy", "gfx_busy",
                      "rx_bytes", "tx_bytes", "violation_counter", "residency_acc", "vr_acc",
                      "hbm_acc", "residency_per", "gfx_limit_acc", "low_util_acc",
                      "gfx_limit_per", "low_util_per"}
  BY DEF PrintedStats, UsageFields, ViolationFields
<1>2. PrintedStats \subseteq Fields /\ {"rx_bytes", "tx_bytes"} \subseteq Fields
  BY <1>1 DEF Fields, StatsFields, UsageFields, PcieStatsFields, ViolationFields
<1> QED
  BY <1>1, <1>2 DEF MeasuredStats, Sentinels

\* smi_gpu_fill_stats of amdsmi and wsl, from tables that tell what they lack.
LEMMA StatsMeasured ==
  ASSUME NEW d, NEW b, NEW cached, NEW m, NEW c, NEW p,
         IsTable(m, b), IsTable(c, b), IsTable(p, b), Told(m), Told(c), Told(p)
  PROVE  /\ Within(AmdsmiStats(d, cached, m, c, p), MeasuredStats)
         /\ PrintedStats \subseteq DOMAIN AmdsmiStats(d, cached, m, c, p)
<1>1. ASSUME NEW t, IsTable(t, b), Told(t), NEW f \in (PrintedStats \intersect Tabled)
      PROVE  t[f] \in {f, "na16", "na32", "na64"}
  BY <1>1, TableEntry, TableWidths, PrintedNames DEF Told, Tabled, Wsl32
<1>2. ASSUME NEW t, IsTable(t, b), Told(t)
      PROVE  /\ Within(AmdsmiViolation(d, t), MeasuredStats)
             /\ Within(AmdsmiActivity(t), MeasuredStats)
             /\ Within(AmdsmiPartitionActivity(t), MeasuredStats)
  <2> DEFINE accumulated == {"violation_counter", "residency_acc", "vr_acc", "hbm_acc",
                             "gfx_limit_acc", "low_util_acc"}
             percent == {"residency_per", "gfx_limit_per", "low_util_per"}
  <2>1. accumulated \subseteq PrintedStats \intersect Tabled
    BY TableWidths, PrintedNames DEF Tabled
  <2>2. Within([f \in accumulated |-> t[f]], MeasuredStats)
    BY <1>1, <1>2, <2>1, PrintedNames DEF Within
  <2>3. /\ Within(All(percent, "na64"), MeasuredStats)
        /\ Within([low_util_acc |-> "low_util_acc_of_partition"], MeasuredStats)
        /\ Within([f \in accumulated \union percent |-> Read(d, f, "na64")], MeasuredStats)
    BY PrintedNames DEF Within, All, Read
  <2>4. Within(AmdsmiViolation(d, t), MeasuredStats)
    BY <2>2, <2>3, ViolationLayers, Zenon
  <2>5. Within(Widened(t, UsageFields \ {"gfx_busy"}, "na32"), MeasuredStats)
    <3>1. \A f \in UsageFields \ {"gfx_busy"} : f \in Metrics16 /\ f \in Tabled
      BY TableWidths DEF Tabled, UsageFields
    <3> QED
      BY <1>1, <1>2, <3>1, PrintedNames DEF Within, Widened, Widen
  <2>6. Within([f \in {"gfx_busy", "gfx_activity_acc", "mem_activity_acc"} |-> t[f]], MeasuredStats)
    BY <1>1, <1>2, PrintedNames DEF Within, Tabled
  <2>7. Within(AmdsmiActivity(t), MeasuredStats)
    BY <2>5, <2>6, OverWithin, Zenon DEF AmdsmiActivity
  <2> QED
    BY <2>4, <2>7 DEF AmdsmiPartitionActivity, Within
<1>3. /\ Within(Widened(c, {"gfx_activity", "umc_activity"}, "na32"), MeasuredStats)
      /\ Within([xgmi_requests |-> Ask(d, "xgmi_counter", "xgmi_requests", "zero", "zero"),
                 xgmi_responses |-> Ask(d, "xgmi_counter", "xgmi_responses", "zero", "zero")],
                MeasuredStats)
      /\ Within([xgmi_link |-> m["xgmi_link"]], MeasuredStats)
      /\ Within([f \in PcieStatsFields \ {"rx_bytes", "tx_bytes"} |-> m[f]], MeasuredStats)
  BY PrintedNames DEF Within, Widened, PcieStatsFields
<1>4. Within([tx_bytes |-> Read(d, "rx_bytes", "na64"), rx_bytes |-> Read(d, "tx_bytes", "na64")],
             MeasuredStats)
  BY PrintedNames DEF Within, Read
<1>5. Within(AmdsmiPower(m), MeasuredStats)
  <2>1. /\ Within(Widened(m, {"avg_power", "package_power", "soc_voltage", "gfx_voltage",
                              "mem_voltage", "fan_speed"}, "na64"), MeasuredStats)
        /\ Within(Widened(m, {"edge_temp", "junction_temp", "memory_temp", "hbm_temp"}, "na32"),
                  MeasuredStats)
        /\ Within([power_usage |-> Widen(m["package_power"], "na16", "na64"),
                   energy |-> m["energy"]], MeasuredStats)
    BY PrintedNames DEF Within, Widened
  <2> QED
    BY <2>1, OverWithin, Zenon DEF AmdsmiPower
<1>6. Within(AmdsmiEcc(d), MeasuredStats)
  <2>1. /\ Within([ecc_total |-> Ask(d, "ecc_count", "ecc_total", "zero", "zero")], MeasuredStats)
        /\ Within([ecc_block |-> Read(d, "ecc_block", "zero")], MeasuredStats)
    BY PrintedNames DEF Within
  <2> QED
    BY <2>1, WhenWithin, OverWithin, Zenon DEF AmdsmiEcc
<1>7. Within(AmdsmiVramUsage(d), MeasuredStats)
  BY PrintedNames DEF Within, AmdsmiVramUsage
<1>8. /\ Within(All(UsageFields, "na32"), MeasuredStats)
      /\ Within(All(PcieStatsFields \union ViolationFields \union {"xgmi_link"}, "na64"),
                MeasuredStats)
  BY PrintedNames DEF Within, All
<1>9. Within(AmdsmiStats(d, cached, m, c, p), MeasuredStats)
  BY <1>2, <1>3, <1>4, <1>5, <1>6, <1>7, <1>8, StatsLayers, Zenon
<1>10. PrintedStats \subseteq DOMAIN AmdsmiStats(d, cached, m, c, p)
  <2> DEFINE usage == All(UsageFields, "na32")
             rest  == All(PcieStatsFields \union ViolationFields \union {"xgmi_link"}, "na64")
  <2>1. PICK u : AmdsmiStats(d, cached, m, c, p) = (u ++ usage) ++ rest
    BY StatsOverMarks
  <2>2. \A f \in PrintedStats : f \in DOMAIN usage \/ f \in DOMAIN rest
    BY DEF PrintedStats, All, PcieStatsFields
  <2> HIDE DEF usage, rest
  <2> QED
    BY <2>1, <2>2, OverFields
<1> QED
  BY <1>9, <1>10

\* gim: the same, with a session and without both filters of the stream.
LEMMA GimStatsMeasured ==
  ASSUME NEW d, "session_stats" \notin d.fails,
         ~ {"skip_activity_stats", "skip_violation_stats"} \subseteq d.skip
  PROVE  Within(GimStats(d), MeasuredStats) /\ PrintedStats \subseteq DOMAIN GimStats(d)
<1>1. Within(GimWalk(d), MeasuredStats)
  <2>1. /\ Within([f \in {"vcn_activity", "vcn_busy", "jpeg_activity", "jpeg_busy", "gfx_busy"} |->
                       Streamed(d, f, "na32")], MeasuredStats)
        /\ Within([f \in ViolationFields \ {"residency_per", "gfx_limit_per", "low_util_per"} |->
                       Streamed(d, f, "na64")], MeasuredStats)
        /\ Within(All({"residency_per", "gfx_limit_per", "low_util_per"}, "na64"), MeasuredStats)
    BY PrintedNames DEF Within, Streamed, All
  <2> QED
    BY <2>1, GimWalkLayers, Zenon
<1>2. /\ Within([f \in {"package_power", "soc_voltage", "gfx_voltage", "mem_voltage"} |->
                     Read(d, f, "na64")], MeasuredStats)
      /\ Within([f \in {"gfx_activity", "umc_activity", "mm_activity"} |-> Read(d, f, "na32")],
                MeasuredStats)
      /\ Within([f \in {"replay_count", "recovery_count", "rollover_count", "nack_count"} |->
                     Read(d, f, "na64")], MeasuredStats)
      /\ Within([f \in {"edge_temp", "junction_temp", "memory_temp", "hbm_temp"} |->
                     Read(d, f, "zero")], MeasuredStats)
  BY PrintedNames DEF Within
<1>3. Within(GimEcc(d), MeasuredStats)
  <2>1. /\ Within([ecc_total |-> Ask(d, "ecc_count", "ecc_total", "zero", "zero")], MeasuredStats)
        /\ Within([ecc_block |-> Read(d, "ecc_block", "zero")], MeasuredStats)
    BY PrintedNames DEF Within
  <2> QED
    BY <2>1, WhenWithin, OverWithin, Zenon DEF GimEcc
<1>4. /\ Within(All({"total_vram", "used_vram", "free_vram"}, "na64"), MeasuredStats)
      /\ Within(All(UsageFields, "na32"), MeasuredStats)
      /\ Within(All(PcieStatsFields \union {"xgmi_link"}, "na64"), MeasuredStats)
  BY PrintedNames DEF Within, All
<1>5. Within(GimStats(d), MeasuredStats)
  BY <1>1, <1>2, <1>3, <1>4, GimStatsLayers, Zenon
<1>6. PrintedStats \subseteq DOMAIN GimStats(d)
  <2> DEFINE usage == All(UsageFields, "na32")
             rest  == All(PcieStatsFields \union {"xgmi_link"}, "na64")
             walk  == When("skip_activity_stats" \notin d.skip \/ "skip_violation_stats" \notin d.skip,
                           GimWalk(d))
  <2>1. PICK u, v : /\ GimStats(d) = (u ++ usage) ++ rest
                    /\ u = GimReadings(d) ++ v
    BY GimOverMarks DEF When
  <2>2. PICK x, y, z, w : GimReadings(d) = (((x ++ walk) ++ y) ++ z) ++ w
    BY DEF GimReadings
  <2>3. walk = GimWalk(d)
    BY DEF When
  <2>4. ViolationFields \subseteq DOMAIN walk
    <3> DEFINE percent == All({"residency_per", "gfx_limit_per", "low_util_per"}, "na64")
               limits  == [f \in ViolationFields \ {"residency_per", "gfx_limit_per", "low_util_per"} |->
                               Streamed(d, f, "na64")]
    <3>1. PICK e : GimWalk(d) = (e ++ limits) ++ percent
      BY Zenon DEF GimWalk
    <3>2. \A f \in ViolationFields : f \in DOMAIN limits \/ f \in DOMAIN percent
      BY DEF All
    <3> HIDE DEF percent, limits, walk
    <3> QED
      BY <2>3, <3>1, <3>2, OverFields
  <2>5. \A f \in PrintedStats : f \in ViolationFields \/ f \in DOMAIN usage \/ f \in DOMAIN rest
    BY DEF PrintedStats, All, PcieStatsFields
  <2> HIDE DEF usage, rest, walk
  <2> QED
    BY <2>1, <2>2, <2>4, <2>5, OverFields
<1> QED
  BY <1>5, <1>6

\* The fields of a message that are made of `fields' of the reply i.
Part(u, i, fields) ==
    \A f : /\ f \in DOMAIN u <=> f \in fields /\ (f \in Repeated => i[f] # "absent")
           /\ f \in DOMAIN u => u[f] = i[f]

LEMMA PartOver ==
  ASSUME NEW u, NEW v, NEW i, NEW S, NEW T, Part(u, i, S), Part(v, i, T)
  PROVE  Part(u ++ v, i, S \union T)
<1>1. PICK w : w = u ++ v
  OBVIOUS
<1>2. /\ \A f : f \in DOMAIN w <=> f \in DOMAIN u \/ f \in DOMAIN v
      /\ \A f : f \in DOMAIN u => w[f] = u[f]
      /\ \A f : f \in DOMAIN v /\ f \notin DOMAIN u => w[f] = v[f]
  BY <1>1, OverFields
<1> QED
  BY <1>1, <1>2 DEF Part

LEMMA SetAndListed ==
  ASSUME NEW i, NEW S
  PROVE  /\ S \intersect Repeated = {} => Part(Set(i, S), i, S)
         /\ S \subseteq Repeated => Part(Listed(i, S), i, S)
         /\ Part(Set(i, S) ++ Listed(i, S), i, S)
<1>1. Part(Set(i, S), i, S \ Repeated)
  BY DEF Part, Set
<1>2. Part(Listed(i, S), i, S \intersect Repeated)
  BY DEF Part, Listed
<1>3. Part(Set(i, S) ++ Listed(i, S), i, (S \ Repeated) \union (S \intersect Repeated))
  BY <1>1, <1>2, PartOver
<1>4. (S \ Repeated) \union (S \intersect Repeated) = S
  OBVIOUS
<1>5. S \intersect Repeated = {} => S \ Repeated = S
  OBVIOUS
<1>6. S \subseteq Repeated => S \intersect Repeated = S
  OBVIOUS
<1> QED
  BY <1>1, <1>2, <1>3, <1>4, <1>5, <1>6

\* The names of what is repeated.
LEMMA RepeatedNames ==
  Repeated = {"gfx_range", "mem_range", "video_range", "data_range", "gfx_clock", "mem_clock",
              "video_clock", "data_clock", "soc_clock", "fabric_clock", "gfx_clock_range",
              "mem_clock_range", "video_clock_range", "data_clock_range", "power_cap",
              "fw_version", "processes"}
<1>1. /\ ClockRangeFields = {"gfx_clock_range", "mem_clock_range", "video_clock_range",
                             "data_clock_range"}
      /\ {SpecRangeOf[c] : c \in DOMAIN SpecRangeOf} =
             {"gfx_range", "mem_range", "video_range", "data_range"}
  BY DEF ClockRangeFields, RangeOf, SpecRangeOf
<1> QED
  BY <1>1 DEF Repeated, ClockFields

\* aga_gpu_api_info_to_proto: a message has every field of the reply, but for the
\* lists without an entry, as it is in the reply.
LEMMA MessageIs ==
  ASSUME NEW i
  PROVE  Part(InfoToProto(i), i, Fields)
<1>1. Part(SpecToProto(i), i, SpecFields)
  BY SetAndListed DEF SpecToProto
<1>2. Part(StatusToProto(i), i, IdentityFields \union StatusFields)
  <2> DEFINE clocks == ClockFields \union ClockRangeFields
             xgmi   == {"xgmi_error", "xgmi_width", "xgmi_speed"}
             pcie   == {"pcie_bus_id", "pcie_max_width", "pcie_max_speed", "pcie_version",
                        "pcie_width", "pcie_speed", "pcie_bandwidth"}
             vram   == {"vram_type", "vram_size", "vram_bandwidth"}
             rest   == {"serial_num", "card_model", "card_sku", "driver_version", "vbios_version",
                        "memory_vendor", "virtualization_mode", "kfd_id", "drm_id", "throttling",
                        "fw_timestamp"}
  <2>1. /\ {"fw_version"} \subseteq Repeated /\ {"processes"} \subseteq Repeated
        /\ clocks \subseteq Repeated
        /\ xgmi \intersect Repeated = {} /\ pcie \intersect Repeated = {}
        /\ vram \intersect Repeated = {} /\ rest \intersect Repeated = {}
    <3>1. clocks \subseteq Repeated
      BY DEF Repeated
    <3> QED
      BY <3>1, RepeatedNames
  <2>2. /\ Part(FwVersionToProto(i), i, {"fw_version"})
        /\ Part(ProcessToProto(i), i, {"processes"})
        /\ Part(ClockStatusToProto(i), i, clocks) /\ Part(XgmiStatusToProto(i), i, xgmi)
        /\ Part(PcieStatusToProto(i), i, pcie) /\ Part(VramStatusToProto(i), i, vram)
        /\ Part(Set(i, rest), i, rest)
    BY <2>1, SetAndListed, Zenon DEF FwVersionToProto, ProcessToProto, ClockStatusToProto,
       XgmiStatusToProto, PcieStatusToProto, VramStatusToProto
  <2>3. StatusToProto(i) = FwVersionToProto(i) ++ ProcessToProto(i) ++ ClockStatusToProto(i) ++
            XgmiStatusToProto(i) ++ PcieStatusToProto(i) ++ VramStatusToProto(i) ++ Set(i, rest)
    BY DEF StatusToProto
  <2>4. {"fw_version"} \union {"processes"} \union clocks \union xgmi \union pcie \union vram
            \union rest = IdentityFields \union StatusFields
    BY DEF IdentityFields, StatusFields
  <2> HIDE DEF clocks, xgmi, pcie, vram, rest
  <2>5. Part(FwVersionToProto(i) ++ ProcessToProto(i) ++ ClockStatusToProto(i), i,
             {"fw_version"} \union {"processes"} \union clocks)
    BY <2>2, PartOver, Zenon
  <2>6. Part(FwVersionToProto(i) ++ ProcessToProto(i) ++ ClockStatusToProto(i) ++
             XgmiStatusToProto(i) ++ PcieStatusToProto(i), i,
             {"fw_version"} \union {"processes"} \union clocks \union xgmi \union pcie)
    BY <2>2, <2>5, PartOver, Zenon
  <2>7. Part(FwVersionToProto(i) ++ ProcessToProto(i) ++ ClockStatusToProto(i) ++
             XgmiStatusToProto(i) ++ PcieStatusToProto(i) ++ VramStatusToProto(i) ++ Set(i, rest), i,
             {"fw_version"} \union {"processes"} \union clocks \union xgmi \union pcie
             \union vram \union rest)
    BY <2>2, <2>6, PartOver, Zenon
  <2> QED
    BY <2>3, <2>4, <2>7
<1>3. Part(StatsToProto(i), i, StatsFields)
  <2> DEFINE rest == StatsFields \ (UsageFields \union PcieStatsFields \union ViolationFields)
  <2>1. StatsFields \intersect Repeated = {}
    BY RepeatedNames DEF StatsFields, UsageFields, PcieStatsFields, ViolationFields
  <2>2. UsageFields \union PcieStatsFields \union ViolationFields \union rest = StatsFields
    BY DEF StatsFields
  <2>3. /\ UsageFields \intersect Repeated = {} /\ PcieStatsFields \intersect Repeated = {}
        /\ ViolationFields \intersect Repeated = {} /\ rest \intersect Repeated = {}
    BY <2>1, <2>2
  <2>4. /\ Part(UsageToProto(i), i, UsageFields) /\ Part(PcieStatsToProto(i), i, PcieStatsFields)
        /\ Part(ViolationToProto(i), i, ViolationFields) /\ Part(Set(i, rest), i, rest)
    BY <2>3, SetAndListed, Zenon DEF UsageToProto, PcieStatsToProto, ViolationToProto
  <2>5. StatsToProto(i) = UsageToProto(i) ++ PcieStatsToProto(i) ++ ViolationToProto(i) ++ Set(i, rest)
    BY DEF StatsToProto
  <2> HIDE DEF rest
  <2>6. Part(UsageToProto(i) ++ PcieStatsToProto(i) ++ ViolationToProto(i) ++ Set(i, rest), i,
             UsageFields \union PcieStatsFields \union ViolationFields \union rest)
    BY <2>4, PartOver, Zenon
  <2> QED
    BY <2>2, <2>5, <2>6
<1>4. Part(InfoToProto(i), i, SpecFields \union (IdentityFields \union StatusFields)
                              \union StatsFields)
  BY <1>1, <1>2, <1>3, PartOver, Zenon DEF InfoToProto
<1>5. SpecFields \union (IdentityFields \union StatusFields) \union StatsFields = Fields
  BY DEF Fields
<1> QED
  BY <1>4, <1>5

\* printGPUSpec, printGPUStatus and printGPUStats: what is printed is what the
\* message has, unless it is a value that is hidden.
LEMMA ScreenIs ==
  ASSUME NEW msg, DOMAIN msg \subseteq Fields, NEW c \in Commands
  PROVE  /\ \A f : f \in DOMAIN Screen(c, msg) =>
                       /\ f \in DOMAIN msg /\ msg[f] \notin Hides[f]
                       /\ Screen(c, msg)[f] = Printed(msg, f)
         /\ \A f : /\ f \in DOMAIN msg /\ msg[f] \notin Hides[f]
                   /\ f \in ClockFields => ClockShown(msg, f)
                   /\ \A k \in DOMAIN RangeOf : f = RangeOf[k] => ClockShown(msg, k)
                   /\ f = "hbm_acc" => msg["vr_acc"] \notin Hides["vr_acc"]
                   => f \in DOMAIN Screen("show all", msg)
<1> DEFINE Visible(f) == /\ f \in DOMAIN msg /\ msg[f] \notin Hides[f]
                         /\ f \in ClockFields => ClockShown(msg, f)
                         /\ \A k \in DOMAIN RangeOf : f = RangeOf[k] => ClockShown(msg, k)
                         /\ f = "hbm_acc" => msg["vr_acc"] \notin Hides["vr_acc"]
<1>1. \A labels : \A f : /\ f \in DOMAIN Shown(msg, labels) <=> f \in labels /\ Visible(f)
                         /\ f \in DOMAIN Shown(msg, labels) =>
                                Shown(msg, labels)[f] = Printed(msg, f)
  <2> SUFFICES ASSUME NEW labels, NEW f
               PROVE  /\ f \in DOMAIN Shown(msg, labels) <=> f \in labels /\ Visible(f)
                      /\ f \in DOMAIN Shown(msg, labels) =>
                             Shown(msg, labels)[f] = Printed(msg, f)
    OBVIOUS
  <2>1. DOMAIN Shown(msg, labels) =
            {g \in labels \intersect DOMAIN msg :
                /\ msg[g] \notin Hides[g]
                /\ g \in ClockFields => ClockShown(msg, g)
                /\ \A k \in DOMAIN RangeOf : g = RangeOf[k] => ClockShown(msg, k)
                /\ g = "hbm_acc" => msg["vr_acc"] \notin Hides["vr_acc"]}
    BY DEF Shown
  <2>2. f \in DOMAIN Shown(msg, labels) => Shown(msg, labels)[f] = Printed(msg, f)
    BY DEF Shown
  <2>3. f \in DOMAIN Shown(msg, labels) <=> f \in labels /\ Visible(f)
    BY <2>1
  <2> QED
    BY <2>2, <2>3
<1> HIDE DEF Visible
<1>2. \A f : /\ f \in DOMAIN AllCommand(msg) <=>
                    /\ f \in SpecFields \union (IdentityFields \union StatusFields) \union StatsFields
                    /\ Visible(f)
             /\ f \in DOMAIN AllCommand(msg) => AllCommand(msg)[f] = Printed(msg, f)
  <2> DEFINE spec   == Shown(msg, SpecFields)
             status == Shown(msg, IdentityFields \union StatusFields)
             stats  == Shown(msg, StatsFields)
  <2>1. AllCommand(msg) = (spec ++ status) ++ stats
    BY DEF AllCommand
  <2>2. /\ \A f : f \in DOMAIN spec <=> f \in SpecFields /\ Visible(f)
        /\ \A f : f \in DOMAIN status <=> f \in IdentityFields \union StatusFields /\ Visible(f)
        /\ \A f : f \in DOMAIN stats <=> f \in StatsFields /\ Visible(f)
        /\ \A f : f \in DOMAIN spec => spec[f] = Printed(msg, f)
        /\ \A f : f \in DOMAIN status => status[f] = Printed(msg, f)
        /\ \A f : f \in DOMAIN stats => stats[f] = Printed(msg, f)
    BY <1>1
  <2> HIDE DEF spec, status, stats
  <2> QED
    BY <2>1, <2>2, OverFields
<1>3. SpecFields \union (IdentityFields \union StatusFields) \union StatsFields = Fields
  BY DEF Fields
<1>4. Screen("show all", msg) = AllCommand(msg)
  BY DEF Screen
<1>5. ASSUME NEW f, f \in DOMAIN Screen(c, msg)
      PROVE  Visible(f) /\ Screen(c, msg)[f] = Printed(msg, f)
  <2>1. \/ \E labels : Screen(c, msg) = Shown(msg, labels)
        \/ Screen(c, msg) = AllCommand(msg)
    BY DEF Commands, Screen, ShowCommand, StatsCommand
  <2> QED
    BY <1>1, <1>2, <1>5, <2>1
<1>6. \A f : Visible(f) => f \in DOMAIN Screen("show all", msg)
  BY <1>2, <1>3, <1>4 DEF Visible
<1> QED
  BY <1>5, <1>6 DEF Visible

\* What the client hides of a field: its sentinel, but for the fields it compares
\* with another one or with none; and zero, but for those that are printed then.
HideValues ==
    [f \in Fields |->
         {h \in SUBSET (Sentinels \union {"zero"}) :
              /\ f \notin NarrowlyCompared \union ComparedWithZero \union {"hbm_acc"} =>
                     /\ f \notin Unmarked => OwnNA(f) \in h
                     /\ f \in Wsl32 => "na32" \in h
              /\ f \notin PrintedWhenZero \union PrintedStats \union Zeroless => "zero" \in h}]

LEMMA HideValue ==
  ASSUME NEW f \in Fields, NEW h, h \subseteq {"na16", "na32", "na64", "zero"},
         \/ f \in NarrowlyCompared \union ComparedWithZero \union {"hbm_acc"}
         \/ f \in Unmarked
         \/ f \in Narrow /\ "na32" \in h
         \/ f \notin Narrow /\ "na64" \in h /\ (f \in Wsl32 => "na32" \in h),
         f \notin PrintedWhenZero \union PrintedStats \union Zeroless => "zero" \in h
  PROVE  h \in HideValues[f]
<1>1. OwnNA(f) = IF f \in Narrow THEN "na32" ELSE "na64"
  BY DEF OwnNA, Narrow, SpecRangeOf, ClockRangeFields, RangeOf, ClockFields, UsageFields
<1>2. f \in Wsl32 => f \notin Narrow \union Unmarked
  BY DEF Wsl32, Narrow, Unmarked
<1>3. f \notin NarrowlyCompared \union ComparedWithZero \union {"hbm_acc"} =>
          /\ f \notin Unmarked => OwnNA(f) \in h
          /\ f \in Wsl32 => "na32" \in h
  BY <1>1, <1>2 DEF Wsl32
<1> QED
  BY <1>3 DEF HideValues, Sentinels

\* One set for several fields.
LEMMA HideAll ==
  ASSUME NEW S, NEW h, \A f \in S \intersect Fields : h \in HideValues[f]
  PROVE  Within(All(S, h), HideValues)
BY DEF Within, All, HideValues

LEMMA HidesWithin ==
  /\ Within(HidesSpec, HideValues) /\ Within(HidesIdentity, HideValues)
  /\ Within(HidesClocks, HideValues) /\ Within(HidesXgmi, HideValues)
  /\ Within(HidesPcieStatus, HideValues) /\ Within(HidesVramStatus, HideValues)
  /\ Within(HidesPower, HideValues) /\ Within(HidesUsage, HideValues)
  /\ Within(HidesVoltage, HideValues) /\ Within(HidesPcieStats, HideValues)
  /\ Within(HidesVramUsage, HideValues) /\ Within(HidesEcc, HideValues)
  /\ Within(HidesXgmiStats, HideValues) /\ Within(HidesMetrics, HideValues)
  /\ Within(HidesAccumulated, HideValues) /\ Within(HidesPercentages, HideValues)
  /\ Within(HidesLimits, HideValues)
<1> DEFINE Compared(f, h) ==
             \/ f \in NarrowlyCompared \union ComparedWithZero \union {"hbm_acc"}
             \/ f \in Unmarked
             \/ f \in Narrow /\ "na32" \in h
             \/ f \notin Narrow /\ "na64" \in h /\ (f \in Wsl32 => "na32" \in h)
           Zeroed(f, h) == f \in PrintedWhenZero \union PrintedStats \union Zeroless \/ "zero" \in h
<1>1. ASSUME NEW S, NEW h, h \subseteq {"na16", "na32", "na64", "zero"},
             \A f \in S : Compared(f, h) /\ Zeroed(f, h)
      PROVE  Within(All(S, h), HideValues)
  BY <1>1, HideValue, HideAll
<1>2. /\ {SpecRangeOf[c] : c \in DOMAIN SpecRangeOf} =
             {"gfx_range", "mem_range", "video_range", "data_range"}
      /\ ClockRangeFields = {"gfx_clock_range", "mem_clock_range", "video_clock_range",
                             "data_clock_range"}
  BY DEF SpecRangeOf, ClockRangeFields, RangeOf
<1>3. Within(HidesSpec, HideValues)
  <2>1. /\ Within(All({"overdrive"} \union {SpecRangeOf[c] : c \in DOMAIN SpecRangeOf}, {"na32"}),
                  HideValues)
        /\ Within(All({"power_cap", "perf_level"}, {"zero"}), HideValues)
        /\ Within(All({"spec_fan_speed"}, {"na64"}), HideValues)
    BY <1>1, <1>2 DEF Narrow, Unmarked, Wsl32, PrintedWhenZero, Zeroless
  <2> QED
    BY <2>1, OverWithin, Zenon DEF HidesSpec
<1>4. Within(HidesIdentity, HideValues)
  <2>1. /\ Within(All({"kfd_id", "drm_id", "virtualization_mode"}, {}), HideValues)
        /\ Within(All({"serial_num", "card_model", "card_sku", "driver_version", "vbios_version",
                       "fw_version", "memory_vendor"}, {"zero"}), HideValues)
    BY <1>1 DEF ComparedWithZero, Unmarked, PrintedWhenZero
  <2> QED
    BY <2>1, OverWithin, Zenon DEF HidesIdentity
<1>5. Within(HidesClocks, HideValues)
  <2>1. /\ Within(All(ClockFields, {"zero", "na16", "na32"}), HideValues)
        /\ Within(All(ClockRangeFields, {"na32"}), HideValues)
    BY <1>1, <1>2 DEF ClockFields, Narrow, PrintedWhenZero, Zeroless
  <2> QED
    BY <2>1, OverWithin, Zenon DEF HidesClocks
<1>6. Within(HidesXgmi, HideValues)
  <2>1. /\ Within(All({"xgmi_width", "xgmi_speed"}, {"zero", "na16", "na64"}), HideValues)
        /\ Within(All({"fw_timestamp"}, {"zero", "na64"}), HideValues)
        /\ Within(All({"processes", "throttling", "xgmi_error"}, {"zero"}), HideValues)
    BY <1>1 DEF Narrow, Unmarked, Wsl32
  <2> QED
    BY <2>1, OverWithin, Zenon DEF HidesXgmi
<1>7. Within(HidesPcieStatus, HideValues)
  <2>1. /\ Within(All({"pcie_width", "pcie_max_width"}, {"zero", "na16"}), HideValues)
        /\ Within(All({"pcie_speed", "pcie_max_speed", "pcie_bandwidth"}, {"zero", "na32"}),
                  HideValues)
        /\ Within(All({"pcie_version", "pcie_bus_id"}, {"zero"}), HideValues)
    BY <1>1 DEF Narrow, Unmarked, NarrowlyCompared, ComparedWithZero
  <2> QED
    BY <2>1, OverWithin, Zenon DEF HidesPcieStatus
<1>8. /\ Within(HidesVramStatus, HideValues) /\ Within(HidesPower, HideValues)
      /\ Within(HidesVoltage, HideValues) /\ Within(HidesVramUsage, HideValues)
      /\ Within(HidesEcc, HideValues) /\ Within(HidesXgmiStats, HideValues)
      /\ Within(HidesPercentages, HideValues)
  BY <1>1 DEF HidesVramStatus, HidesPower, HidesVoltage, HidesVramUsage, HidesEcc,
     HidesXgmiStats, HidesPercentages, Narrow, Unmarked, NarrowlyCompared, ComparedWithZero,
     Wsl32, PrintedStats, ViolationFields
<1>9. Within(HidesUsage, HideValues)
  <2> DEFINE compared == {"gfx_activity", "umc_activity", "mm_activity"}
             first    == All(compared, Sentinels \union {"zero"})
             usage    == All(UsageFields, Sentinels)
  <2>1. /\ \A f : f \in DOMAIN HidesUsage <=> f \in DOMAIN first \/ f \in DOMAIN usage
        /\ \A f : f \in DOMAIN first => HidesUsage[f] = first[f]
        /\ \A f : f \in DOMAIN usage /\ f \notin DOMAIN first => HidesUsage[f] = usage[f]
    <3>1. HidesUsage = first ++ usage
      BY DEF HidesUsage
    <3> HIDE DEF first, usage
    <3> QED
      BY <3>1, OverFields
  <2>2. /\ \A f \in compared : HidesUsage[f] = Sentinels \union {"zero"}
        /\ \A f \in UsageFields \ compared : HidesUsage[f] = Sentinels
        /\ \A f \in DOMAIN HidesUsage : f \in UsageFields
    BY <2>1 DEF All, UsageFields
  <2>3. \A f \in UsageFields : f \in Narrow /\ f \in Fields /\ (f \notin compared => f \in PrintedStats)
    BY DEF Narrow, UsageFields, PrintedStats, Fields, StatsFields
  <2>4. ASSUME NEW f \in UsageFields
        PROVE  HidesUsage[f] \in HideValues[f]
    BY <2>2, <2>3, HideValue DEF Sentinels
  <2> QED
    BY <2>2, <2>4 DEF Within
<1>10. Within(HidesPcieStats, HideValues)
  <2>1. /\ Within(All({"replay_count", "recovery_count", "rollover_count"}, {"zero", "na64"}),
                  HideValues)
        /\ Within(All({"nack_count"}, {"zero", "na32", "na64"}), HideValues)
        /\ Within(All({"rx_bytes", "tx_bytes"}, {"na64"}), HideValues)
        /\ Within(All({"bidir_bandwidth"}, {"zero", "na16", "na64"}), HideValues)
    BY <1>1 DEF Narrow, Wsl32, PrintedStats
  <2> QED
    BY <2>1, OverWithin, Zenon DEF HidesPcieStats
<1>11. Within(HidesMetrics, HideValues)
  <2>1. /\ Within(All({"power_usage"}, {"zero"}), HideValues)
        /\ Within(All({"fan_speed"}, {"zero", "na16"}), HideValues)
        /\ Within(All({"gfx_activity_acc", "mem_activity_acc"}, {"zero", "na32", "na64"}),
                  HideValues)
        /\ Within(All({"xgmi_link"}, {"zero", "na64"}), HideValues)
    BY <1>1 DEF Narrow, Wsl32, NarrowlyCompared, ComparedWithZero
  <2> QED
    BY <2>1, OverWithin, Zenon DEF HidesMetrics
<1>12. Within(HidesAccumulated, HideValues)
  <2>1. /\ Within(All({"hbm_acc"}, {}), HideValues)
        /\ Within(All({"violation_counter", "residency_acc", "vr_acc"}, {"na64"}), HideValues)
    BY <1>1 DEF Narrow, Wsl32, PrintedStats, ViolationFields
  <2> QED
    BY <2>1, OverWithin, Zenon DEF HidesAccumulated
<1>13. Within(HidesLimits, HideValues)
  <2>1. /\ Within(All({"gfx_limit_acc", "low_util_acc"}, {"na64"}), HideValues)
        /\ Within(All({"gfx_limit_per", "low_util_per"}, Sentinels), HideValues)
    BY <1>1 DEF Narrow, Wsl32, PrintedStats, ViolationFields, Sentinels
  <2> QED
    BY <2>1, OverWithin, Zenon DEF HidesLimits
<1> QED
  BY <1>3, <1>4, <1>5, <1>6, <1>7, <1>8, <1>9, <1>10, <1>11, <1>12, <1>13

\* The fields each of them has a row for.
LEMMA HidesNames ==
  /\ SpecFields \subseteq DOMAIN HidesSpec
  /\ {"kfd_id", "drm_id", "virtualization_mode", "serial_num", "card_model", "card_sku",
      "driver_version", "vbios_version", "fw_version", "memory_vendor"}
         \subseteq DOMAIN HidesIdentity
  /\ ClockFields \union ClockRangeFields \subseteq DOMAIN HidesClocks
  /\ {"xgmi_width", "xgmi_speed", "fw_timestamp", "processes", "throttling", "xgmi_error"}
         \subseteq DOMAIN HidesXgmi
  /\ {"pcie_width", "pcie_max_width", "pcie_speed", "pcie_max_speed", "pcie_bandwidth",
      "pcie_version", "pcie_bus_id"} \subseteq DOMAIN HidesPcieStatus
  /\ UsageFields \subseteq DOMAIN HidesUsage
  /\ PcieStatsFields \subseteq DOMAIN HidesPcieStats
  /\ {"power_usage", "fan_speed", "gfx_activity_acc", "mem_activity_acc", "xgmi_link"}
         \subseteq DOMAIN HidesMetrics
  /\ {"hbm_acc", "violation_counter", "residency_acc", "vr_acc"} \subseteq DOMAIN HidesAccumulated
  /\ {"gfx_limit_acc", "low_util_acc", "gfx_limit_per", "low_util_per"} \subseteq DOMAIN HidesLimits
<1>1. \A S, h : DOMAIN All(S, h) = S
  BY DEF All
<1>2. ASSUME NEW S, NEW T, NEW g, NEW h
      PROVE  \A f : f \in DOMAIN (All(S, g) ++ All(T, h)) <=> f \in S \/ f \in T
  <2>1. \A u, v : DOMAIN u = S /\ DOMAIN v = T =>
                     \A f : f \in DOMAIN (u ++ v) <=> f \in S \/ f \in T
    BY OverFields
  <2> QED
    BY <1>1, <2>1, Zenon
<1>3. ASSUME NEW S, NEW T, NEW U, NEW g, NEW h, NEW k
      PROVE  \A f : f \in DOMAIN (All(S, g) ++ All(T, h) ++ All(U, k)) <=>
                        f \in S \/ f \in T \/ f \in U
  <2>1. \A u, v : DOMAIN v = U =>
                     \A f : f \in DOMAIN (u ++ v) <=> f \in DOMAIN u \/ f \in U
    BY OverFields
  <2>2. \A f : f \in DOMAIN (All(S, g) ++ All(T, h) ++ All(U, k)) <=>
                   f \in DOMAIN (All(S, g) ++ All(T, h)) \/ f \in U
    BY <1>1, <2>1, Zenon
  <2> QED
    BY <1>2, <2>2
<1>4. ASSUME NEW S, NEW T, NEW U, NEW V, NEW g, NEW h, NEW k, NEW l
      PROVE  \A f : f \in DOMAIN (All(S, g) ++ All(T, h) ++ All(U, k) ++ All(V, l)) <=>
                        f \in S \/ f \in T \/ f \in U \/ f \in V
  <2>1. \A u, v : DOMAIN v = V =>
                     \A f : f \in DOMAIN (u ++ v) <=> f \in DOMAIN u \/ f \in V
    BY OverFields
  <2>2. \A f : f \in DOMAIN (All(S, g) ++ All(T, h) ++ All(U, k) ++ All(V, l)) <=>
                   f \in DOMAIN (All(S, g) ++ All(T, h) ++ All(U, k)) \/ f \in V
    BY <1>1, <2>1, Zenon
  <2> QED
    BY <1>3, <2>2
<1>5. SpecFields \subseteq DOMAIN HidesSpec
  BY <1>3 DEF HidesSpec, SpecFields, SpecRangeOf
<1>6. {"kfd_id", "drm_id", "virtualization_mode", "serial_num", "card_model", "card_sku",
       "driver_version", "vbios_version", "fw_version", "memory_vendor"}
          \subseteq DOMAIN HidesIdentity
  BY <1>2 DEF HidesIdentity
<1>7. ClockFields \union ClockRangeFields \subseteq DOMAIN HidesClocks
  BY <1>2 DEF HidesClocks
<1>8. {"xgmi_width", "xgmi_speed", "fw_timestamp", "processes", "throttling", "xgmi_error"}
          \subseteq DOMAIN HidesXgmi
  BY <1>3 DEF HidesXgmi
<1>9. {"pcie_width", "pcie_max_width", "pcie_speed", "pcie_max_speed", "pcie_bandwidth",
       "pcie_version", "pcie_bus_id"} \subseteq DOMAIN HidesPcieStatus
  BY <1>3 DEF HidesPcieStatus
<1>10. UsageFields \subseteq DOMAIN HidesUsage
  BY <1>2 DEF HidesUsage
<1>11. PcieStatsFields \subseteq DOMAIN HidesPcieStats
  BY <1>4 DEF HidesPcieStats, PcieStatsFields
<1>12. {"power_usage", "fan_speed", "gfx_activity_acc", "mem_activity_acc", "xgmi_link"}
           \subseteq DOMAIN HidesMetrics
  BY <1>4 DEF HidesMetrics
<1>13. {"hbm_acc", "violation_counter", "residency_acc", "vr_acc"} \subseteq DOMAIN HidesAccumulated
  BY <1>2 DEF HidesAccumulated
<1>14. {"gfx_limit_acc", "low_util_acc", "gfx_limit_per", "low_util_per"} \subseteq DOMAIN HidesLimits
  BY <1>2 DEF HidesLimits
<1> QED
  BY <1>5, <1>6, <1>7, <1>8, <1>9, <1>10, <1>11, <1>12, <1>13, <1>14

\* Every field has its row.
LEMMA HidesFit ==
  ASSUME NEW f \in Fields
  PROVE  f \in DOMAIN Hides /\ Hides[f] \in HideValues[f]
<1> DEFINE first  == HidesSpec ++ HidesIdentity ++ HidesClocks ++ HidesXgmi ++ HidesPcieStatus ++
                     HidesVramStatus ++ HidesPower ++ HidesUsage
           second == first ++ HidesVoltage ++ HidesPcieStats ++ HidesVramUsage ++ HidesEcc ++
                     HidesXgmiStats
<1>1. Hides = second ++ HidesMetrics ++ HidesAccumulated ++ HidesPercentages ++ HidesLimits
  BY DEF Hides
<1>2. Within(first, HideValues)
  BY HidesWithin, OverWithin
<1>3. \A g : g \in DOMAIN first <=>
          \/ g \in DOMAIN HidesSpec \/ g \in DOMAIN HidesIdentity \/ g \in DOMAIN HidesClocks
          \/ g \in DOMAIN HidesXgmi \/ g \in DOMAIN HidesPcieStatus
          \/ g \in DOMAIN HidesVramStatus \/ g \in DOMAIN HidesPower \/ g \in DOMAIN HidesUsage
  BY OverFields
<1> HIDE DEF first
<1>4. Within(second, HideValues)
  BY <1>2, HidesWithin, OverWithin
<1>5. \A g : g \in DOMAIN second <=>
          \/ g \in DOMAIN first \/ g \in DOMAIN HidesVoltage \/ g \in DOMAIN HidesPcieStats
          \/ g \in DOMAIN HidesVramUsage \/ g \in DOMAIN HidesEcc \/ g \in DOMAIN HidesXgmiStats
  BY OverFields
<1> HIDE DEF second
<1>6. Within(Hides, HideValues)
  BY <1>1, <1>4, HidesWithin, OverWithin
<1>7. \A g : g \in DOMAIN Hides <=>
          \/ g \in DOMAIN second \/ g \in DOMAIN HidesMetrics \/ g \in DOMAIN HidesAccumulated
          \/ g \in DOMAIN HidesPercentages \/ g \in DOMAIN HidesLimits
  BY <1>1, OverFields
<1>8. /\ f \in SpecFields \union ClockFields \union ClockRangeFields \union UsageFields \union
                PcieStatsFields => f \in DOMAIN Hides
      /\ f \in IdentityFields => f \in DOMAIN Hides
  <2>1. f \in SpecFields \union ClockFields \union ClockRangeFields \union UsageFields \union
             PcieStatsFields => f \in DOMAIN Hides
    BY <1>3, <1>5, <1>7, HidesNames
  <2>2. DOMAIN HidesVramStatus = {"vram_type", "vram_size", "vram_bandwidth"}
    BY DEF HidesVramStatus, All
  <2>3. f \in IdentityFields =>
            \/ f \in {"kfd_id", "drm_id", "virtualization_mode", "serial_num", "card_model",
                     "card_sku", "driver_version", "vbios_version", "fw_version", "memory_vendor"}
            \/ f = "pcie_bus_id" \/ f \in {"vram_type", "vram_size"}
    BY DEF IdentityFields
  <2> QED
    BY <1>3, <1>5, <1>7, <2>1, <2>2, <2>3, HidesNames
<1>9. f \in StatusFields => f \in DOMAIN Hides
  <2>1. DOMAIN HidesVramStatus = {"vram_type", "vram_size", "vram_bandwidth"}
    BY DEF HidesVramStatus, All
  <2> QED
    BY <1>3, <1>5, <1>7, <1>8, <2>1, HidesNames DEF StatusFields
<1>10. f \in StatsFields => f \in DOMAIN Hides
  <2>1. /\ DOMAIN HidesPower = {"package_power", "avg_power", "edge_temp", "junction_temp",
                                "memory_temp", "hbm_temp"}
        /\ DOMAIN HidesVoltage = {"soc_voltage", "gfx_voltage", "mem_voltage"}
        /\ DOMAIN HidesVramUsage = {"total_vram", "used_vram", "free_vram"}
        /\ DOMAIN HidesEcc = {"energy", "ecc_total", "ecc_block"}
        /\ DOMAIN HidesXgmiStats = {"xgmi_requests", "xgmi_responses"}
        /\ DOMAIN HidesPercentages = {"residency_per"}
    BY DEF HidesPower, HidesVoltage, HidesVramUsage, HidesEcc, HidesXgmiStats, HidesPercentages, All
  <2> QED
    BY <1>3, <1>5, <1>7, <1>8, <2>1, HidesNames DEF StatsFields, ViolationFields
<1>11. f \in DOMAIN Hides
  BY <1>8, <1>9, <1>10 DEF Fields
<1> QED
  BY <1>6, <1>11 DEF Within, HideValues

\* smi_gpu_fill_stats of each back end, when it prepares the statistics.
LEMMA StatsOfMeasured ==
  ASSUME NEW d, {"sentinels", "fails"} \subseteq DOMAIN d, d.backend \in Backends,
         d.backend = "wsl" => d.sentinels /\ "metrics_table" \notin d.fails,
         d.backend = "gim" => /\ "session_stats" \notin d.fails
                              /\ ~ {"skip_activity_stats", "skip_violation_stats"} \subseteq d.skip
  PROVE  Within(StatsOf(d), MeasuredStats) /\ PrintedStats \subseteq DOMAIN StatsOf(d)
<1>1. CASE d.backend = "amdsmi"
  <2>1. IsTable(AmdsmiMetrics(d), "amdsmi") /\ Told(AmdsmiMetrics(d))
    BY AmdsmiTable, TablesTold
  <2> QED
    BY <1>1, <2>1, StatsMeasured DEF StatsOf
<1>2. CASE d.backend = "wsl"
  <2>1. /\ IsTable(WslMetrics(d), "wsl") /\ Told(WslMetrics(d))
        /\ IsTable(WslRefreshed(d, WslMetrics(d)), "wsl") /\ Told(WslRefreshed(d, WslMetrics(d)))
        /\ IsTable(WslPartitionMetrics(d), "wsl") /\ Told(WslPartitionMetrics(d))
    BY <1>2, WslTables, TablesTold
  <2> QED
    BY <1>2, <2>1, StatsMeasured DEF StatsOf, WslStats
<1>3. CASE d.backend = "gim"
  BY <1>3, GimStatsMeasured DEF StatsOf
<1> QED
  BY <1>1, <1>2, <1>3 DEF Backends

\* The inductive invariant: the message is made of the reply, and the screen of
\* the message; and the statistics were prepared before they were filled.
ScreenInv ==
    /\ ReplyInv
    /\ {"parent", "sentinels"} \subseteq DOMAIN device
    /\ device.parent => device.backend = "amdsmi"
    /\ stage \in {"reply", "print", "shown"} /\ StatsPrepared => Within(info, MeasuredStats)
    /\ stage \in {"print", "shown"} => message = InfoToProto(info)
    /\ stage = "shown" => screen = Screen(command, message)

LEMMA ScreenInvInit == ShowInit => ScreenInv
<1> SUFFICES ASSUME ShowInit PROVE ScreenInv
  OBVIOUS
<1>1. PICK lacks : device \in Devices(lacks)
  BY DEF ShowInit
<1>2. /\ {"parent", "sentinels"} \subseteq DOMAIN device
      /\ device.parent => device.backend = "amdsmi"
  <2>1. {"parent", "sentinels"} \subseteq DOMAIN device
    BY <1>1 DEF Devices, Device
  <2>2. CASE device.backend = "gim"
    <3>1. device = Device("gim", "whole", FALSE, TRUE, lacks)
      BY <1>1, <2>2 DEF Devices, Device
    <3>2. device.parent = FALSE
      BY <3>1 DEF Device
    <3> QED
      BY <2>1, <3>2, Zenon
  <2>3. CASE device.backend = "wsl"
    <3>1. PICK role \in {"whole", "first", "other"}, s \in BOOLEAN :
              device = Device("wsl", role, FALSE, s, lacks)
      BY <1>1, <2>3 DEF Devices, Device
    <3>2. device.parent = FALSE
      BY <3>1 DEF Device
    <3> QED
      BY <2>1, <3>2, Zenon
  <2> QED
    BY <1>1, <2>1, <2>2, <2>3, DeviceFits DEF Backends
<1> QED
  BY <1>2, ReplyInvInit DEF ShowInit, ScreenInv

LEMMA ScreenInvStep == ScreenInv /\ [ShowNext]_showVars => ScreenInv'
<1> SUFFICES ASSUME ScreenInv, [ShowNext]_showVars PROVE ScreenInv'
  OBVIOUS
<1>1. ReplyInv'
  BY ReplyInvStep DEF ScreenInv
<1>2. CASE Create
  BY <1>1, <1>2 DEF Create, ScreenInv
<1>3. CASE Request
  <2>1. PICK skip : device' = [device EXCEPT !.skip = skip]
    BY <1>3 DEF Request
  <2>2. /\ {"parent", "sentinels"} \subseteq DOMAIN device'
        /\ device'.parent = device.parent /\ device'.backend = device.backend
    BY <2>1 DEF ScreenInv, ReplyInv
  <2>3. stage' = "reply" => ~ StatsPrepared'
    BY <1>3, <2>2 DEF Request, StatsPrepared, ScreenInv
  <2> QED
    BY <1>1, <1>3, <2>2, <2>3 DEF Request, ScreenInv
<1>4. CASE FillSpec \/ FillStatus
  <2>1. PICK fails : device' = [device EXCEPT !.fails = @ \union fails]
    BY <1>4 DEF FillSpec, FillStatus, Filled
  <2>2. /\ {"parent", "sentinels"} \subseteq DOMAIN device'
        /\ device'.parent = device.parent /\ device'.backend = device.backend
    BY <2>1 DEF ScreenInv, ReplyInv
  <2> QED
    BY <1>1, <1>4, <2>2 DEF FillSpec, FillStatus, ScreenInv
<1>5. CASE FillStats
  <2>1. PICK fails : /\ device' = [device EXCEPT !.fails = @ \union fails]
                     /\ info' = Update(info, StatsOf([device EXCEPT !.fails = @ \union fails]))
    BY <1>5 DEF FillStats, Filled
  <2>2. /\ {"parent", "sentinels", "fails"} \subseteq DOMAIN device'
        /\ device'.parent = device.parent /\ device'.backend = device.backend
        /\ device'.backend \in Backends
    BY <2>1 DEF ScreenInv, ReplyInv
  <2>3. info' = Update(info, StatsOf(device')) /\ DOMAIN info = Fields
    BY <1>5, <2>1 DEF FillStats, ScreenInv, ReplyInv, ShowTypeOK
  <2>4. ASSUME StatsPrepared'
        PROVE  Within(info', MeasuredStats)
    <3>1. /\ device'.backend = "wsl" => device'.sentinels /\ "metrics_table" \notin device'.fails
          /\ device'.backend = "gim" =>
                 /\ "session_stats" \notin device'.fails
                 /\ ~ {"skip_activity_stats", "skip_violation_stats"} \subseteq device'.skip
      <4>1. ~ device'.parent \/ device'.backend = "amdsmi"
        BY <2>2 DEF ScreenInv
      <4> QED
        BY <2>4, <4>1 DEF StatsPrepared
    <3>2. Within(StatsOf(device'), MeasuredStats) /\ PrintedStats \subseteq DOMAIN StatsOf(device')
      BY <2>2, <3>1, StatsOfMeasured
    <3> QED
      BY <2>3, <3>2, PrintedNames, UpdateFields DEF Within
  <2> QED
    BY <1>1, <1>5, <2>2, <2>4 DEF FillStats, ScreenInv
<1>6. CASE Reply
  BY <1>1, <1>6 DEF Reply, ScreenInv, StatsPrepared
<1>7. CASE Display
  BY <1>1, <1>7 DEF Display, ScreenInv, StatsPrepared
<1>8. CASE UNCHANGED showVars
  BY <1>1, <1>8 DEF showVars, ScreenInv, StatsPrepared
<1> QED
  BY <1>2, <1>3, <1>4, <1>5, <1>6, <1>7, <1>8 DEF ShowNext

\* What is not a reading, and where it may be.
LEMMA NotReading ==
  ASSUME NEW b, NEW f \in Fields, NEW v \in ReplyValues(b)[f]
  PROVE  /\ v \in Sentinels => \/ f \notin Unmarked /\ v = OwnNA(f)
                               \/ f \in Wsl32 /\ v = "na32"
         /\ v = "zero" => f \notin Zeroless
BY OriginsAreReadings DEF ReplyValues, NoReading, Sentinels, OwnNA

\* The fields of the screen, at last.
LEMMA ShownFits ==
  ASSUME ScreenInv, stage = "shown", command \in Commands
  PROVE  /\ Part(message, info, Fields) /\ DOMAIN message \subseteq Fields
         /\ \A f \in DOMAIN screen :
                /\ f \in Fields /\ f \in DOMAIN message
                /\ message[f] = info[f] /\ info[f] \notin Hides[f]
                /\ f # "xgmi_responses" => screen[f] = info[f]
                /\ f = "xgmi_responses" => screen[f] = info["xgmi_requests"]
         /\ \A f \in Fields : info[f] \in ReplyValues(device.backend)[f]
<1>1. Part(message, info, Fields)
  BY MessageIs DEF ScreenInv
<1>2. DOMAIN message \subseteq Fields
  BY <1>1 DEF Part
<1>3. "xgmi_requests" \in Fields /\ "xgmi_requests" \notin Repeated
  BY RepeatedNames DEF Fields, StatsFields
<1>4. message["xgmi_requests"] = info["xgmi_requests"]
  BY <1>1, <1>3 DEF Part
<1>5. \A f \in DOMAIN screen : /\ f \in DOMAIN message /\ message[f] \notin Hides[f]
                               /\ screen[f] = Printed(message, f)
  <2>1. screen = Screen(command, message)
    BY DEF ScreenInv
  <2> QED
    BY <1>2, <2>1, ScreenIs
<1>6. \A f \in Fields : info[f] \in ReplyValues(device.backend)[f]
  BY DEF ScreenInv, ReplyInv, ShowTypeOK, Within, ReplyValues
<1> QED
  BY <1>1, <1>2, <1>4, <1>5, <1>6 DEF Part, Printed

LEMMA ScreenInvFaithful == ScreenInv => ScreenFaithful
<1> SUFFICES ASSUME ScreenInv, stage = "shown"
             PROVE  MissingIsHidden /\ ZeroIsMeasured /\ MeasuredIsShown
  BY DEF ScreenFaithful, MissingIsHidden, ZeroIsMeasured, MeasuredIsShown
<1>1. command \in Commands
  BY DEF ScreenInv, ReplyInv
<1>2. MissingIsHidden
  <2> SUFFICES ASSUME NEW f \in DOMAIN screen, screen[f] \in Sentinels,
                      f \notin NarrowlyCompared \union ComparedWithZero \union {"hbm_acc"}
               PROVE  FALSE
    BY DEF MissingIsHidden
  <2>1. CASE f = "xgmi_responses"
    <3>1. "xgmi_requests" \in Fields /\ "xgmi_requests" \in Unmarked \ Wsl32
      BY DEF Fields, StatsFields, Unmarked, Wsl32
    <3> QED
      BY <1>1, <2>1, <3>1, ShownFits, NotReading
  <2>2. CASE f # "xgmi_responses"
    <3>1. /\ f \in Fields /\ info[f] \in Sentinels /\ info[f] \notin Hides[f]
          /\ info[f] \in ReplyValues(device.backend)[f]
      BY <1>1, <2>2, ShownFits
    <3>2. /\ f \notin Unmarked => OwnNA(f) \in Hides[f]
          /\ f \in Wsl32 => "na32" \in Hides[f]
      BY <3>1, HidesFit DEF HideValues
    <3> QED
      BY <3>1, <3>2, NotReading
  <2> QED
    BY <2>1, <2>2
<1>3. ZeroIsMeasured
  <2> SUFFICES ASSUME NEW f \in DOMAIN screen, screen[f] = "zero",
                      f \notin PrintedWhenZero, f # "xgmi_responses"
               PROVE  f \in PrintedStats /\ ~ StatsPrepared
    BY DEF ZeroIsMeasured
  <2>1. /\ f \in Fields /\ info[f] = "zero" /\ info[f] \notin Hides[f]
        /\ info[f] \in ReplyValues(device.backend)[f]
    BY <1>1, ShownFits
  <2>2. f \notin Zeroless
    BY <2>1, NotReading
  <2>3. f \in PrintedStats
    BY <2>1, <2>2, HidesFit DEF HideValues
  <2>4. "zero" \notin MeasuredStats[f]
    <3>1. "zero" \notin Fields
      BY DEF Fields, SpecFields, IdentityFields, StatusFields, StatsFields, ClockFields,
         ClockRangeFields, RangeOf, UsageFields, PcieStatsFields, ViolationFields
    <3> QED
      BY <2>3, <3>1 DEF MeasuredStats, Sentinels
  <2> QED
    BY <2>1, <2>3, <2>4, PrintedNames DEF ScreenInv, ReplyInv, ShowTypeOK, Within
<1>4. MeasuredIsShown
  <2> SUFFICES ASSUME command = "show all", NEW f \in Fields, info[f] \in Origins(f),
                      f # "xgmi_responses",
                      f = "hbm_acc" => info["vr_acc"] \notin NoReading,
                      \A c \in DOMAIN RangeOf :
                          f \in {c, RangeOf[c]} =>
                              {info[c], info[RangeOf[c]]} \intersect (NoReading \ {"junk"}) = {}
               PROVE  f \in DOMAIN screen /\ screen[f] = info[f]
    BY DEF MeasuredIsShown
  <2>1. \A g \in Fields : Hides[g] \subseteq Sentinels \union {"zero"}
    BY HidesFit DEF HideValues
  <2>2. \A g \in Fields : info[g] \notin NoReading \ {"junk"} =>
            g \in DOMAIN message /\ message[g] = info[g] /\ message[g] \notin Hides[g]
    <3> SUFFICES ASSUME NEW g \in Fields, info[g] \notin NoReading \ {"junk"}
                 PROVE  g \in DOMAIN message /\ message[g] = info[g] /\ info[g] \notin Hides[g]
      OBVIOUS
    <3>1. info[g] # "absent" /\ info[g] \notin Sentinels \union {"zero"}
      BY DEF NoReading, Sentinels
    <3>2. Part(message, info, Fields)
      BY <1>1, ShownFits
    <3>3. g \in DOMAIN message /\ message[g] = info[g]
      BY <3>1, <3>2 DEF Part
    <3> QED
      BY <2>1, <3>1, <3>3
  <2>3. info[f] \notin NoReading
    BY OriginsAreReadings
  <2>4. ASSUME NEW c \in DOMAIN RangeOf, f \in {c, RangeOf[c]}
        PROVE  ClockShown(message, c)
    <3>1. c \in Fields /\ RangeOf[c] \in Fields
      BY DEF RangeOf, Fields, StatusFields, ClockFields, ClockRangeFields
    <3>2. info[c] \notin NoReading \ {"junk"} /\ info[RangeOf[c]] \notin NoReading \ {"junk"}
      BY <2>4
    <3> QED
      BY <2>2, <3>1, <3>2 DEF ClockShown
  <2>5. f \in ClockFields => ClockShown(message, f)
    BY <2>2, <2>3, <2>4 DEF ClockShown
  <2>6. f = "hbm_acc" => message["vr_acc"] \notin Hides["vr_acc"]
    <3>1. "vr_acc" \in Fields
      BY DEF Fields, StatsFields, ViolationFields
    <3> QED
      BY <2>2, <3>1
  <2>7. f \in DOMAIN screen
    <3>1. screen = Screen("show all", message) /\ DOMAIN message \subseteq Fields
      BY <1>1, ShownFits DEF ScreenInv
    <3> QED
      BY <1>1, <2>2, <2>3, <2>4, <2>5, <2>6, <3>1, ScreenIs
  <2> QED
    BY <1>1, <2>7, ShownFits
<1> QED
  BY <1>2, <1>3, <1>4

\* Whatever the device lacks, whichever calls fail, and whichever command asks
\* with whichever filter: the client prints no sentinel as a number, but for the
\* fields it compares with a narrower one; no zero that nobody measured, but for
\* the fields the agent leaves at zero; and all that was measured, under its own
\* label (printGPUSpec, printGPUStatus, printGPUStats of cli/cmd/gpu.go).
THEOREM ScreenIsFaithful == ShowSpec => []ScreenFaithful
<1>1. ShowSpec => []ScreenInv
  BY ScreenInvInit, ScreenInvStep, PTL DEF ShowSpec
<1> QED
  BY <1>1, ScreenInvFaithful, PTL

-----------------------------------------------------------------------------
(***************************************************************************)
(* GPUGet.  A GPU that answers every call and has every reading.           *)
(***************************************************************************)
\* The readings a field is allowed, but for the fields X.
ReadingsOf(X) == [f \in Fields \ X |-> Origins(f)]

\* A device that has everything, and all of whose calls are answered.
Healthy(d) == d.lacks = {} /\ d.fails = {}

LEMMA ReadingValue ==
  ASSUME NEW X
  PROVE  /\ DOMAIN ReadingsOf(X) = Fields \ X
         /\ \A f \in Fields \ X : ReadingsOf(X)[f] = Origins(f)
         /\ \A f \in (Fields \ X) \ Displaced : f \in ReadingsOf(X)[f]
BY DEF ReadingsOf, Origins, Displaced, ClockRangeFields, RangeOf

LEMMA DisplacedReadings ==
  /\ "gfx_range" \in Origins("gfx_clock_range") /\ "mem_range" \in Origins("mem_clock_range")
  /\ "video_range" \in Origins("video_clock_range") /\ "data_range" \in Origins("data_clock_range")
  /\ "tx_bytes" \in Origins("rx_bytes") /\ "rx_bytes" \in Origins("tx_bytes")
  /\ "package_power" \in Origins("power_usage")
  /\ "low_util_acc_of_partition" \in Origins("low_util_acc")
<1>1. ClockRangeFields = {"gfx_clock_range", "mem_clock_range", "video_clock_range",
                          "data_clock_range"}
  BY DEF ClockRangeFields, RangeOf
<1> QED
  BY <1>1 DEF Origins, RangeOf, SpecRangeOf

\* Readings, over fields that have none yet, leave fewer without.
LEMMA ReadingsFill ==
  ASSUME NEW X, NEW N, NEW M, NEW old, NEW new, Within(old, ReadingsOf(X \union N)),
         Within(new, ReadingsOf(X)),
         \A f \in (Fields \ X) \intersect N : f \in DOMAIN new \/ f \in M
  PROVE  Within(Update(old, new), ReadingsOf(X \union M))
<1>1. \A Y : \A f : f \in Fields \ Y => f \in DOMAIN ReadingsOf(Y) /\ ReadingsOf(Y)[f] = Origins(f)
  BY DEF ReadingsOf
<1>2. ASSUME NEW f \in DOMAIN Update(old, new), f \in Fields, f \notin X, f \notin M
      PROVE  Update(old, new)[f] \in Origins(f)
  <2>1. CASE f \in DOMAIN new
    <3>1. f \in DOMAIN ReadingsOf(X) /\ ReadingsOf(X)[f] = Origins(f)
      BY <1>1, <1>2
    <3> QED
      BY <1>2, <2>1, <3>1, UpdateFields DEF Within
  <2>2. CASE f \notin DOMAIN new
    <3>1. f \in DOMAIN ReadingsOf(X \union N) /\ ReadingsOf(X \union N)[f] = Origins(f)
      BY <1>1, <1>2, <2>2
    <3> QED
      BY <1>2, <2>2, <3>1, UpdateFields DEF Within
  <2> QED
    BY <2>1, <2>2
<1>3. ASSUME NEW f \in DOMAIN Update(old, new), f \in DOMAIN ReadingsOf(X \union M)
      PROVE  Update(old, new)[f] \in ReadingsOf(X \union M)[f]
  <2>1. f \in Fields /\ f \notin X /\ f \notin M
    BY <1>3 DEF ReadingsOf
  <2> QED
    BY <1>1, <1>2, <1>3, <2>1
<1> QED
  BY <1>3 DEF Within

LEMMA FewerReadings ==
  ASSUME NEW X, NEW Y, X \subseteq Y, NEW u, Within(u, ReadingsOf(X))
  PROVE  Within(u, ReadingsOf(Y))
<1>1. \A Z : \A f : f \in DOMAIN ReadingsOf(Z) <=> f \in Fields /\ f \notin Z
  BY DEF ReadingsOf
<1>2. \A Z : \A f \in DOMAIN ReadingsOf(Z) : ReadingsOf(Z)[f] = Origins(f)
  BY DEF ReadingsOf
<1>3. ASSUME NEW f \in DOMAIN u, f \in DOMAIN ReadingsOf(Y)
      PROVE  u[f] \in ReadingsOf(Y)[f]
  <2>1. f \in DOMAIN ReadingsOf(X)
    BY <1>1, <1>3
  <2>2. u[f] \in ReadingsOf(X)[f]
    BY <1>3, <2>1 DEF Within
  <2> QED
    BY <1>2, <1>3, <2>1, <2>2
<1> QED
  BY <1>3 DEF Within

\* Its metrics table, and that of wsl however often it is asked for.
FullTable(m) == DOMAIN m = Tabled /\ \A f \in Tabled : m[f] = f

LEMMA FullTables ==
  ASSUME NEW d, Healthy(d), {"fails", "lacks", "sentinels"} \subseteq DOMAIN d
  PROVE  /\ FullTable(AmdsmiMetrics(d))
         /\ FullTable(WslMetrics(d)) /\ FullTable(WslRefreshed(d, WslMetrics(d)))
         /\ FullTable(WslPartitionMetrics(d))
<1>1. ASSUME NEW e, e.lacks = {}
      PROVE  FullTable(AmdsmiMetrics(e))
  <2> DEFINE sixteen   == [f \in Metrics16 |-> Read(e, f, "na16")]
             sixtyfour == [f \in Metrics64 |-> Read(e, f, "na64")]
             rest      == [gfx_busy |-> Read(e, "gfx_busy", "na32"),
                           throttling |-> Read(e, "throttling", "zero")]
  <2>1. AmdsmiMetrics(e) = (sixteen ++ sixtyfour) ++ rest
    BY DEF AmdsmiMetrics
  <2>2. /\ \A f \in DOMAIN sixteen : sixteen[f] = f
        /\ \A f \in DOMAIN sixtyfour : sixtyfour[f] = f
        /\ \A f \in DOMAIN rest : rest[f] = f
    BY <1>1 DEF Read
  <2>3. DOMAIN AmdsmiMetrics(e) = Tabled
    BY AmdsmiTable DEF IsTable
  <2> HIDE DEF sixteen, sixtyfour, rest
  <2> QED
    BY <2>1, <2>2, <2>3, OverFields DEF FullTable
<1>2. ASSUME NEW e, e.lacks = {}, "metrics_table" \notin e.fails
      PROVE  FullTable(WslTable(e))
  <2> DEFINE narrow == [f \in Wsl32 |-> Read(e, f, "na32")]
  <2>1. FullTable(AmdsmiMetrics(e)) /\ DOMAIN WslTable(e) = Tabled
    BY <1>1, <1>2, WslTableFits DEF IsTable
  <2>2. \A f \in DOMAIN narrow : narrow[f] = f
    BY <1>2 DEF Read
  <2>3. CASE e.sentinels
    <3>1. WslTable(e) = narrow ++ AmdsmiMetrics(e)
      BY <1>2, <2>3 DEF WslTable
    <3> HIDE DEF narrow
    <3> QED
      BY <2>1, <2>2, <3>1, OverFields DEF FullTable
  <2>4. CASE ~ e.sentinels
    BY <1>2, <2>1, <2>4 DEF WslTable, FullTable, Read
  <2> QED
    BY <2>3, <2>4
<1>3. \A f \in Tabled : f # "zero"
  BY TableWidths DEF Tabled
<1>4. FullTable(WslMetrics(d))
  <2>1. FullTable(WslTable(d)) /\ IsTable(WslTable(d), "wsl")
    BY <1>2, WslTableFits DEF Healthy
  <2>2. /\ IsTable(WslRefilled(d, WslTable(d)), "wsl")
        /\ \A f \in Tabled : WslTable(d)[f] # "zero" =>
                                 WslRefilled(d, WslTable(d))[f] = WslTable(d)[f]
    BY <2>1, WslRefilledFits
  <2> QED
    BY <1>3, <2>1, <2>2 DEF FullTable, IsTable, WslMetrics
<1>5. FullTable(WslRefreshed(d, WslMetrics(d)))
  <2>1. {"package_power", "gfx_activity"} \subseteq Tabled
    BY TableWidths DEF Tabled
  <2>2. IsTable(WslMetrics(d), "wsl")
    BY WslTables
  <2>3. /\ IsTable(WslRefreshed(d, WslMetrics(d)), "wsl")
        /\ \A f \in Tabled : WslRefreshed(d, WslMetrics(d))[f] = WslMetrics(d)[f]
    BY <1>3, <1>4, <2>1, <2>2, WslRefreshedFits DEF FullTable
  <2> QED
    BY <1>4, <2>3 DEF FullTable, IsTable
<1>6. FullTable(WslPartitionMetrics(d))
  <2>1. PICK e : e = [d EXCEPT !.fails = @ \ {"metrics_table"}]
    OBVIOUS
  <2>2. e.lacks = {} /\ "metrics_table" \notin e.fails
    BY <2>1 DEF Healthy
  <2> QED
    BY <1>2, <2>1, <2>2 DEF WslPartitionMetrics
<1> QED
  BY <1>1, <1>4, <1>5, <1>6 DEF Healthy

\* The functions that need no table,
LEMMA FullCalls ==
  ASSUME NEW d, Healthy(d), NEW X
  PROVE  /\ Within(AmdsmiClockRanges(d), ReadingsOf(X))
         /\ Within(AmdsmiConfig(d), ReadingsOf(X))
         /\ Within(AmdsmiEnumeration(d), ReadingsOf(X))
         /\ Within(AmdsmiVramStatus(d), ReadingsOf(X))
         /\ Within(AmdsmiPcieStatus(d), ReadingsOf(X))
         /\ Within(AmdsmiProcesses(d), ReadingsOf(X))
         /\ Within(AmdsmiEcc(d), ReadingsOf(X))
         /\ Within(AmdsmiVramUsage(d), ReadingsOf(X))
<1>1. /\ DOMAIN ReadingsOf(X) = Fields \ X
      /\ \A f \in (Fields \ X) \ Displaced : f \in ReadingsOf(X)[f]
  BY ReadingValue
<1>2. Within(AmdsmiClockRanges(d), ReadingsOf(X))
  BY <1>1 DEF Within, AmdsmiClockRanges, Displaced, Read, Ask, Healthy
<1>3. Within(AmdsmiConfig(d), ReadingsOf(X))
  <2> DEFINE over == [overdrive |-> Read(d, "overdrive", "na32")]
             perf == [perf_level |-> Read(d, "perf_level", "zero")]
             cap  == [power_cap |-> Read(d, "power_cap", "zero")]
  <2>1. Within(over, ReadingsOf(X)) /\ Within(perf, ReadingsOf(X)) /\ Within(cap, ReadingsOf(X))
    BY <1>1 DEF Within, Displaced, Read, Healthy
  <2> QED
    BY <2>1, WhenWithin, OverWithin, Zenon DEF AmdsmiConfig
<1>4. Within(AmdsmiEnumeration(d), ReadingsOf(X))
  <2> DEFINE ids == [kfd_id |-> Read(d, "kfd_id", "na64"), drm_id |-> Read(d, "drm_id", "na32")]
  <2>1. Within(ids, ReadingsOf(X))
    BY <1>1 DEF Within, Displaced, Read, Healthy
  <2> QED
    BY <2>1, WhenWithin, Zenon DEF AmdsmiEnumeration
<1>5. Within(AmdsmiVramStatus(d), ReadingsOf(X))
  <2> DEFINE vram == [vram_type |-> Read(d, "vram_type", "zero"),
                      vram_size |-> Read(d, "vram_size", "na64")]
  <2>1. Within(vram, ReadingsOf(X))
    BY <1>1 DEF Within, Displaced, Read, Healthy
  <2> QED
    BY <2>1, WhenWithin, Zenon DEF AmdsmiVramStatus
<1>6. Within(AmdsmiPcieStatus(d), ReadingsOf(X))
  <2> DEFINE link == [pcie_max_width |-> Read16(d, "pcie_max_width", "na32"),
                      pcie_max_speed |-> Read(d, "pcie_max_speed", "na32"),
                      pcie_version |-> Read(d, "pcie_version", "na32"),
                      pcie_width |-> Read16(d, "pcie_width", "na32"),
                      pcie_speed |-> Read(d, "pcie_speed", "na32"),
                      pcie_bandwidth |-> Widen(Read(d, "pcie_bandwidth", "na32"), "na32", "na64")]
  <2>1. Within(link, ReadingsOf(X))
    BY <1>1 DEF Within, Displaced, Read, Read16, Widen, Healthy
  <2> QED
    BY <2>1, WhenWithin, Zenon DEF AmdsmiPcieStatus
<1>7. Within(AmdsmiProcesses(d), ReadingsOf(X))
  <2>1. Within([processes |-> Read(d, "processes", "absent")], ReadingsOf(X))
    BY <1>1 DEF Within, Displaced, Read, Healthy
  <2> QED
    BY <2>1, WhenWithin, Zenon DEF AmdsmiProcesses
<1>8. Within(AmdsmiEcc(d), ReadingsOf(X))
  <2>1. /\ Within([ecc_total |-> Ask(d, "ecc_count", "ecc_total", "zero", "zero")], ReadingsOf(X))
        /\ Within([ecc_block |-> Read(d, "ecc_block", "zero")], ReadingsOf(X))
    BY <1>1 DEF Within, Displaced, Read, Ask, Healthy
  <2> QED
    BY <2>1, WhenWithin, OverWithin, Zenon DEF AmdsmiEcc
<1>9. Within(AmdsmiVramUsage(d), ReadingsOf(X))
  <2>1. /\ Ask(d, "memory_total", "total_vram", "zero", "zero") = "total_vram"
        /\ Ask(d, "memory_usage", "used_vram", "zero", "zero") = "used_vram"
    BY DEF Ask, Read, Healthy
  <2>2. Derived("free_vram", {"total_vram", "used_vram"}) = "free_vram"
    BY DEF Derived, NoReading, Sentinels
  <2> QED
    BY <1>1, <2>1, <2>2 DEF Within, AmdsmiVramUsage, Displaced
<1> QED
  BY <1>2, <1>3, <1>4, <1>5, <1>6, <1>7, <1>8, <1>9

\* and those that copy the table or widen it.
LEMMA FullCopies ==
  ASSUME NEW m, FullTable(m), NEW X, NEW fields, NEW w
  PROVE  /\ fields \subseteq Tabled \ Displaced => Within([f \in fields |-> m[f]], ReadingsOf(X))
         /\ fields \subseteq Metrics16 \ Displaced => Within(Widened(m, fields, w), ReadingsOf(X))
         /\ Widen(m["package_power"], "na16", w) = "package_power"
<1>1. /\ DOMAIN ReadingsOf(X) = Fields \ X
      /\ \A f \in (Fields \ X) \ Displaced : f \in ReadingsOf(X)[f]
  BY ReadingValue
<1>2. Metrics16 \subseteq Tabled /\ \A f \in Tabled : f # "na16"
  BY TableWidths DEF Tabled
<1>3. "package_power" \in Tabled
  BY TableWidths DEF Tabled
<1>4. ASSUME fields \subseteq Tabled \ Displaced
      PROVE  Within([f \in fields |-> m[f]], ReadingsOf(X))
  BY <1>1, <1>4 DEF Within, FullTable
<1>5. ASSUME fields \subseteq Metrics16 \ Displaced
      PROVE  Within(Widened(m, fields, w), ReadingsOf(X))
  BY <1>1, <1>2, <1>5 DEF Within, FullTable, Widened, Widen
<1>6. Widen(m["package_power"], "na16", w) = "package_power"
  BY <1>2, <1>3 DEF FullTable, Widen
<1> QED
  BY <1>4, <1>5, <1>6

\* smi_gpu_init_attrs: a specification and an identity (gim: less the address on
\* the bus, and with the bandwidth of the memory).
FirstFields(backend) ==
    IF backend = "gim"
    THEN (SpecFields \union IdentityFields \union {"vram_bandwidth"}) \ {"pcie_bus_id"}
    ELSE SpecFields \union IdentityFields

LEMMA FullCreate ==
  ASSUME NEW d, Healthy(d), d.backend \in {"amdsmi", "wsl"}, NEW X
  PROVE  /\ Within(Created(d), ReadingsOf(X))
         /\ \A f \in FirstFields(d.backend) : f = "spec_fan_speed" \/ f \in DOMAIN Created(d)
<1>1. /\ DOMAIN ReadingsOf(X) = Fields \ X
      /\ \A f \in (Fields \ X) \ Displaced : f \in ReadingsOf(X)[f]
  BY ReadingValue
<1> DEFINE virt   == [virtualization_mode |-> Read(d, "virtualization_mode", "zero")]
           vbios  == [vbios_version |-> Read(d, "vbios_version", "zero"),
                      card_sku |-> Read(d, "card_sku", "zero")]
           fw     == [fw_version |-> Read(d, "fw_version", "absent")]
           vendor == [memory_vendor |-> Read(d, "memory_vendor", "zero")]
           bdf    == [pcie_bus_id |-> Read(d, "pcie_bus_id", "zero")]
           strings(missed) ==
             [serial_num |-> Ask(d, "board_info", "serial_num", "zero", missed),
              driver_version |-> Ask(d, "driver_info", "driver_version", "zero", missed),
              card_model |-> IF missed = "zero"
                             THEN IF "asic_info" \notin d.fails THEN "card_model"
                                  ELSE Ask(d, "board_info", "card_model", "zero", "zero")
                             ELSE LET board == Ask(d, "board_info", "card_model", "zero", "junk")
                                  IN IF board = "zero" /\ "asic_info" \notin d.fails
                                     THEN "card_model" ELSE board]
           over   == [overdrive |-> Read(d, "overdrive", "na32")]
           perf   == [perf_level |-> Read(d, "perf_level", "zero")]
           cap    == [power_cap |-> Read(d, "power_cap", "zero")]
           ranges == AmdsmiClockRanges(d)
           vram   == AmdsmiVramStatus(d)
           ids    == AmdsmiEnumeration(d)
<1>2. PICK board : Created(d) = (ranges ++ vram ++ ids ++ board ++ virt ++ vbios ++ fw ++ vendor ++ bdf) ++
                                (over ++ perf ++ cap)
                   /\ (board = strings("zero") \/ board = strings("junk"))
  <2>1. \A u : When("virtualization_mode" \notin d.fails, u) = u
    BY DEF When, Healthy
  <2>2. /\ \A u : When("vbios_info" \notin d.fails, u) = u
        /\ \A u : When("fw_info" \notin d.fails, u) = u
        /\ \A u : When("vram_vendor" \notin d.fails, u) = u
        /\ \A u : When("bdf_id" \notin d.fails, u) = u
        /\ \A u : When("overdrive" \notin d.fails, u) = u
        /\ \A u : When("perf_level" \notin d.fails, u) = u
        /\ \A u : When("power_cap" \notin d.fails, u) = u
    BY DEF When, Healthy
  <2>3. AmdsmiConfig(d) = over ++ perf ++ cap
    BY <2>2, Zenon DEF AmdsmiConfig
  <2>4. CASE d.backend = "amdsmi"
    <3>1. AmdsmiIdentity(d) = ranges ++ vram ++ ids ++ strings("junk") ++ virt ++ vbios ++ fw ++
                              vendor ++ bdf
      BY <2>1, <2>2 DEF AmdsmiIdentity
    <3>2. Created(d) = AmdsmiIdentity(d) ++ AmdsmiConfig(d)
      BY <2>4 DEF Created, AmdsmiCreate
    <3> HIDE DEF strings, virt, vbios, fw, vendor, bdf, over, perf, cap, ranges, vram, ids
    <3> QED
      BY <2>3, <3>1, <3>2, Zenon
  <2>5. CASE d.backend = "wsl"
    <3>1. WslIdentity(d) = ranges ++ vram ++ ids ++ strings("zero") ++ virt ++ vbios ++ fw ++
                           vendor ++ bdf
      BY <2>1, <2>2 DEF WslIdentity, WslClockRanges, WslVramStatus, WslEnumeration
    <3>2. Created(d) = WslIdentity(d) ++ AmdsmiConfig(d)
      BY <2>5 DEF Created, WslCreate, WslConfig
    <3> HIDE DEF strings, virt, vbios, fw, vendor, bdf, over, perf, cap, ranges, vram, ids
    <3> QED
      BY <2>3, <3>1, <3>2, Zenon
  <2> QED
    BY <2>4, <2>5
<1>3. /\ Within(board, ReadingsOf(X))
      /\ DOMAIN board = {"serial_num", "driver_version", "card_model"}
  <2>1. CASE board = strings("zero")
    BY <1>1, <2>1 DEF Within, Displaced, Read, Ask, Healthy
  <2>2. CASE board = strings("junk")
    BY <1>1, <2>2 DEF Within, Displaced, Read, Ask, Healthy
  <2> QED
    BY <1>2, <2>1, <2>2
<1>4. /\ Within(virt, ReadingsOf(X)) /\ Within(vbios, ReadingsOf(X))
      /\ Within(fw, ReadingsOf(X)) /\ Within(vendor, ReadingsOf(X)) /\ Within(bdf, ReadingsOf(X))
      /\ Within(over, ReadingsOf(X)) /\ Within(perf, ReadingsOf(X)) /\ Within(cap, ReadingsOf(X))
  BY <1>1 DEF Within, Displaced, Read, Healthy
<1>5. /\ Within(ranges, ReadingsOf(X)) /\ Within(vram, ReadingsOf(X)) /\ Within(ids, ReadingsOf(X))
  BY FullCalls
<1>6. \A f \in FirstFields(d.backend) :
         \/ f = "spec_fan_speed" \/ f \in DOMAIN ranges \/ f \in DOMAIN vram \/ f \in DOMAIN ids
         \/ f \in DOMAIN board \/ f \in DOMAIN virt \/ f \in DOMAIN vbios \/ f \in DOMAIN fw
         \/ f \in DOMAIN vendor \/ f \in DOMAIN bdf \/ f \in DOMAIN over \/ f \in DOMAIN perf
         \/ f \in DOMAIN cap
  BY <1>3 DEF FirstFields, SpecFields, IdentityFields, AmdsmiClockRanges, AmdsmiVramStatus,
              AmdsmiEnumeration, When, Healthy
<1> HIDE DEF strings, virt, vbios, fw, vendor, bdf, over, perf, cap, ranges, vram, ids
<1>7. Within(Created(d), ReadingsOf(X))
  BY <1>2, <1>3, <1>4, <1>5, OverWithin
<1>8. \A f \in FirstFields(d.backend) : f = "spec_fan_speed" \/ f \in DOMAIN Created(d)
  <2>1. PICK u : u = ranges ++ vram ++ ids ++ board ++ virt ++ vbios ++ fw ++ vendor ++ bdf
    OBVIOUS
  <2>2. \A f : f \in DOMAIN u <=>
                   \/ f \in DOMAIN ranges \/ f \in DOMAIN vram \/ f \in DOMAIN ids
                   \/ f \in DOMAIN board \/ f \in DOMAIN virt \/ f \in DOMAIN vbios
                   \/ f \in DOMAIN fw \/ f \in DOMAIN vendor \/ f \in DOMAIN bdf
    BY <2>1, OverFields
  <2> QED
    BY <1>2, <1>6, <2>1, <2>2, OverFields
<1> QED
  BY <1>7, <1>8

LEMMA GimFullCreate ==
  ASSUME NEW d, Healthy(d), d.backend = "gim", NEW X, NotProvided(d) \subseteq X
  PROVE  /\ Within(Created(d), ReadingsOf(X)) /\ Within(SpecOf(d), ReadingsOf(X))
         /\ \A f \in FirstFields(d.backend) : f \in X \/ f \in DOMAIN Created(d)
<1>1. /\ DOMAIN ReadingsOf(X) = Fields \ X
      /\ \A f \in (Fields \ X) \ Displaced : f \in ReadingsOf(X)[f]
  BY ReadingValue
<1>2. {"overdrive", "perf_level", "spec_fan_speed", "kfd_id", "drm_id"} \subseteq X
  BY DEF NotProvided
<1> DEFINE fixed   == [overdrive |-> "na32", perf_level |-> "zero", spec_fan_speed |-> "na64"]
           cap     == [power_cap |-> Read(d, "power_cap", "zero")]
           gfx     == [gfx_range |-> Read(d, "gfx_range", "na32")]
           mem     == [mem_range |-> Read(d, "mem_range", "na32")]
           video   == [video_range |-> Read(d, "video_range", "na32")]
           data    == [data_range |-> Read(d, "data_range", "na32")]
           vram    == [vram_type |-> Read(d, "vram_type", "zero"),
                       vram_size |-> Read(d, "vram_size", "na64"),
                       memory_vendor |-> Read(d, "memory_vendor", "zero")]
           band    == [vram_bandwidth |-> Streamed(d, "vram_bandwidth", "na64")]
           strings == [f \in {"serial_num", "card_model"} |-> Ask(d, "board_info", f, "zero", "zero")]
           driver  == [driver_version |-> Ask(d, "driver_info", "driver_version", "zero", "zero")]
           virt    == [virtualization_mode |-> Read(d, "virtualization_mode", "zero")]
           vbios   == [vbios_version |-> Read(d, "vbios_version", "zero"),
                       card_sku |-> Read(d, "card_sku", "zero")]
           fw      == [fw_version |-> Read(d, "fw_version", "absent")]
<1>3. /\ Within(fixed, ReadingsOf(X)) /\ Within(cap, ReadingsOf(X))
      /\ Within(gfx, ReadingsOf(X)) /\ Within(mem, ReadingsOf(X))
      /\ Within(video, ReadingsOf(X)) /\ Within(data, ReadingsOf(X))
      /\ Within(vram, ReadingsOf(X)) /\ Within(band, ReadingsOf(X))
  BY <1>1, <1>2 DEF Within, Displaced, Read, Streamed, Healthy
<1>4. /\ Within(strings, ReadingsOf(X)) /\ Within(driver, ReadingsOf(X))
      /\ Within(virt, ReadingsOf(X)) /\ Within(vbios, ReadingsOf(X)) /\ Within(fw, ReadingsOf(X))
  BY <1>1 DEF Within, Displaced, Read, Ask, Healthy
<1>5. /\ SpecOf(d) = fixed ++ cap
      /\ GimIdentity(d) = (gfx ++ mem ++ video ++ data) ++ (vram ++ band) ++ strings ++ driver ++
                          virt ++ vbios ++ fw
      /\ Created(d) = SpecOf(d) ++ GimIdentity(d)
  <2>1. /\ \A u : When("session_spec" \notin d.fails, u) = u
        /\ \A u : When("session_create" \notin d.fails, u) = u
        /\ \A u : When("power_cap" \notin d.fails, u) = u
        /\ \A u : When("virtualization_mode" \notin d.fails, u) = u
    BY DEF When, Healthy
  <2>2. /\ \A u : When("vbios_info" \notin d.fails, u) = u
        /\ \A u : When("fw_info" \notin d.fails, u) = u
        /\ \A u : When("vram_info" \notin d.fails, u) = u
        /\ \A u : When("clock_info_gfx" \notin d.fails, u) = u
        /\ \A u : When("clock_info_mem" \notin d.fails, u) = u
        /\ \A u : When("clock_info_video" \notin d.fails, u) = u
        /\ \A u : When("clock_info_data" \notin d.fails, u) = u
    BY DEF When, Healthy
  <2>3. GimSpecFields(d) = fixed ++ cap /\ SpecOf(d) = GimSpecFields(d)
    <3>1. GimSpecFields(d) = fixed ++ cap
      BY <2>1, Zenon DEF GimSpecFields, Guarded
    <3>2. SpecOf(d) = GimSpecFields(d)
      BY DEF SpecOf, When
    <3> QED
      BY <3>1, <3>2
  <2>4. GimClockRanges(d) = gfx ++ mem ++ video ++ data /\ GimVramStatus(d) = vram ++ band
    BY <2>2, Zenon DEF GimClockRanges, GimVramStatus
  <2>5. GimIdentity(d) = (gfx ++ mem ++ video ++ data) ++ (vram ++ band) ++ strings ++ driver ++
                         virt ++ vbios ++ fw
    BY <2>1, <2>2, <2>4 DEF GimIdentity, Guarded
  <2>6. Created(d) = GimSpecFields(d) ++ GimIdentity(d)
    BY DEF Created, GimCreate
  <2> HIDE DEF fixed, cap, gfx, mem, video, data, vram, band, strings, driver, virt, vbios, fw
  <2> QED
    BY <2>3, <2>5, <2>6, Zenon
<1>6. \A f \in FirstFields(d.backend) :
         \/ f \in X \/ f \in DOMAIN fixed \/ f \in DOMAIN cap \/ f \in DOMAIN gfx
         \/ f \in DOMAIN mem \/ f \in DOMAIN video \/ f \in DOMAIN data \/ f \in DOMAIN vram
         \/ f \in DOMAIN band \/ f \in DOMAIN strings \/ f \in DOMAIN driver \/ f \in DOMAIN virt
         \/ f \in DOMAIN vbios \/ f \in DOMAIN fw
  BY <1>2 DEF FirstFields, SpecFields, IdentityFields
<1> HIDE DEF fixed, cap, gfx, mem, video, data, vram, band, strings, driver, virt, vbios, fw
<1>7. PICK u : /\ u = (gfx ++ mem ++ video ++ data) ++ (vram ++ band) ++ strings ++ driver ++
                      virt ++ vbios ++ fw
               /\ SpecOf(d) = fixed ++ cap /\ Created(d) = (fixed ++ cap) ++ u
  BY <1>5
<1>8. Within(u, ReadingsOf(X)) /\ Within(fixed ++ cap, ReadingsOf(X))
  BY <1>3, <1>4, <1>7, OverWithin
<1>9. \A f : f \in DOMAIN u <=>
                 \/ f \in DOMAIN gfx \/ f \in DOMAIN mem \/ f \in DOMAIN video \/ f \in DOMAIN data
                 \/ f \in DOMAIN vram \/ f \in DOMAIN band \/ f \in DOMAIN strings
                 \/ f \in DOMAIN driver \/ f \in DOMAIN virt \/ f \in DOMAIN vbios \/ f \in DOMAIN fw
  BY <1>7, OverFields
<1> QED
  BY <1>6, <1>7, <1>8, <1>9, OverFields, OverWithin

\* What a filter excuses, it names.
Excused(d) == NotProvided(d) \union UNION {ScopeOf(s) : s \in d.skip}

LEMMA NotExcused ==
  ASSUME NEW d, NEW s, NEW f \in ScopeOf(s), f \notin Excused(d)
  PROVE  s \notin d.skip
BY DEF Excused

\* smi_gpu_fill_status, after the specification was read.
LEMMA FullStatus ==
  ASSUME NEW d, Healthy(d), d.backend \in {"amdsmi", "wsl"}, NEW reply, NEW X,
         {"fails", "lacks", "sentinels"} \subseteq DOMAIN d,
         DOMAIN reply = Fields,
         \A r \in {"gfx_range", "mem_range", "video_range", "data_range"} : reply[r] = r
  PROVE  /\ Within(StatusOf(d, reply), ReadingsOf(X))
         /\ \A f \in StatusFields : f \in Excused(d) \/ f \in DOMAIN StatusOf(d, reply)
<1>1. /\ DOMAIN ReadingsOf(X) = Fields \ X
      /\ \A f \in (Fields \ X) \ Displaced : f \in ReadingsOf(X)[f]
      /\ \A f \in Fields \ X : ReadingsOf(X)[f] = Origins(f)
  BY ReadingValue
<1>2. PICK m : /\ FullTable(m)
               /\ StatusOf(d, reply) = AmdsmiStatus(d, TRUE, m, reply)
  <2>1. CASE d.backend = "amdsmi"
    BY <2>1, FullTables DEF StatusOf, AmdsmiCached, Healthy
  <2>2. CASE d.backend = "wsl"
    <3>1. WslCached(d) = TRUE
      BY DEF WslCached, WslFilled, Healthy
    <3>2. StatusOf(d, reply) = WslStatus(d, TRUE, WslMetrics(d), reply)
      BY <2>2, <3>1 DEF StatusOf
    <3>3. WslStatus(d, TRUE, WslMetrics(d), reply) = AmdsmiStatus(d, TRUE, WslMetrics(d), reply)
      BY DEF WslStatus, AmdsmiStatus, WslClockStatus, WslPcieStatus
    <3> QED
      BY <3>2, <3>3, FullTables
  <2> QED
    BY <2>1, <2>2
<1> DEFINE again  == [gfx_range |-> Read(d, "gfx_range", "na32")]
           range  == When(d.rdna /\ "clock_info_again" \notin d.fails, again) ++ reply
           ranges ==
             [gfx_range |-> range["gfx_range"], gfx_clock_range |-> range["gfx_range"],
              mem_clock_range |-> range["mem_range"], video_clock_range |-> range["video_range"],
              data_clock_range |-> range["data_range"]]
           clocks == Widened(m, {"gfx_clock", "mem_clock", "video_clock", "data_clock"}, "na32")
           soc    == Widened(m, {"soc_clock"}, "na32")
           fabric == [fabric_clock |-> "fabric_clock"]
           xgmi   == Widened(m, {"xgmi_width", "xgmi_speed"}, "na64")
           copies == [f \in {"fw_timestamp", "throttling", "vram_bandwidth"} |-> m[f]]
           error  == [xgmi_error |-> Read(d, "xgmi_error", "zero")]
           timing == (ranges ++ clocks ++ soc ++ fabric) ++ xgmi ++ copies
<1>3. /\ range["gfx_range"] = "gfx_range" /\ range["mem_range"] = "mem_range"
      /\ range["video_range"] = "video_range" /\ range["data_range"] = "data_range"
  <2>1. {"gfx_range", "mem_range", "video_range", "data_range"} \subseteq Fields
    BY DEF Fields, SpecFields
  <2>2. PICK w : w = When(d.rdna /\ "clock_info_again" \notin d.fails, again)
    OBVIOUS
  <2>3. DOMAIN w \subseteq {"gfx_range"} /\ \A f \in DOMAIN w : w[f] = f
    BY <2>2 DEF When, Untouched, All, Read, Healthy
  <2>4. range = w ++ reply
    BY <2>2
  <2> HIDE DEF range
  <2> QED
    BY <2>1, <2>3, <2>4, OverFields
<1>4. Within(ranges, ReadingsOf(X))
  <2> HIDE DEF range
  <2> QED
    BY <1>1, <1>3, DisplacedReadings DEF Within, Displaced
<1>5. /\ Within(clocks, ReadingsOf(X)) /\ Within(soc, ReadingsOf(X)) /\ Within(xgmi, ReadingsOf(X))
  BY <1>2, TableWidths, FullCopies DEF Displaced
<1>6. Within(copies, ReadingsOf(X))
  BY <1>2, TableWidths, FullCopies DEF Displaced, Tabled
<1>7. Within(error, ReadingsOf(X)) /\ Within(fabric, ReadingsOf(X))
  BY <1>1 DEF Within, Displaced, Read, Healthy
<1>8. Within(AmdsmiPcieStatus(d), ReadingsOf(X)) /\ Within(AmdsmiProcesses(d), ReadingsOf(X))
  BY FullCalls
<1>9. StatusOf(d, reply) =
        When("skip_clock_status" \notin d.skip, timing) ++
        When("skip_pcie_status" \notin d.skip, AmdsmiPcieStatus(d)) ++
        When("skip_xgmi_status" \notin d.skip, error) ++
        When("skip_process_status" \notin d.skip, AmdsmiProcesses(d))
  <2>1. AmdsmiClockStatus(d, m, reply) = ranges ++ clocks ++ soc ++ fabric
    <3>1. /\ \A u : When("clk_freq_soc" \notin d.fails, u) = u
          /\ \A u : When("clk_freq_df" \notin d.fails /\ "fabric_clock" \notin d.lacks, u) = u
      BY DEF When, Healthy
    <3> QED
      BY <3>1, Zenon DEF AmdsmiClockStatus
  <2>2. /\ \A u : When("skip_clock_status" \notin d.skip /\ TRUE, u)
                    = When("skip_clock_status" \notin d.skip, u)
        /\ \A u : When("skip_xgmi_status" \notin d.skip /\ "xgmi_error_status" \notin d.fails, u)
                    = When("skip_xgmi_status" \notin d.skip, u)
    BY DEF When, Healthy
  <2> HIDE DEF ranges, clocks, soc, fabric
  <2> QED
    BY <1>2, <2>1, <2>2, Zenon DEF AmdsmiStatus
<1>10. Within(StatusOf(d, reply), ReadingsOf(X))
  <2>1. Within(timing, ReadingsOf(X))
    <3> HIDE DEF ranges, clocks, soc, fabric, xgmi, copies
    <3> QED
      BY <1>4, <1>5, <1>6, <1>7, OverWithin
  <2> DEFINE first  == When("skip_clock_status" \notin d.skip, timing)
             second == When("skip_pcie_status" \notin d.skip, AmdsmiPcieStatus(d))
             third  == When("skip_xgmi_status" \notin d.skip, error)
             fourth == When("skip_process_status" \notin d.skip, AmdsmiProcesses(d))
  <2>2. /\ Within(first, ReadingsOf(X)) /\ Within(second, ReadingsOf(X))
        /\ Within(third, ReadingsOf(X)) /\ Within(fourth, ReadingsOf(X))
    BY <1>7, <1>8, <2>1, WhenWithin, Zenon
  <2>3. StatusOf(d, reply) = first ++ second ++ third ++ fourth
    BY <1>9
  <2> HIDE DEF first, second, third, fourth
  <2> QED
    BY <2>2, <2>3, OverWithin
<1>11. ASSUME NEW f \in StatusFields, f \notin Excused(d)
       PROVE  f \in DOMAIN StatusOf(d, reply)
  <2> DEFINE first  == When("skip_clock_status" \notin d.skip, timing)
             second == When("skip_pcie_status" \notin d.skip, AmdsmiPcieStatus(d))
             third  == When("skip_xgmi_status" \notin d.skip, error)
             fourth == When("skip_process_status" \notin d.skip, AmdsmiProcesses(d))
  <2>1. ASSUME f \in DOMAIN first \/ f \in DOMAIN second \/ f \in DOMAIN third \/ f \in DOMAIN fourth
        PROVE  f \in DOMAIN StatusOf(d, reply)
    <3>1. StatusOf(d, reply) = first ++ second ++ third ++ fourth
      BY <1>9
    <3> HIDE DEF first, second, third, fourth
    <3> QED
      BY <2>1, <3>1, OverFields
  <2>2. CASE f \in ScopeOf("skip_clock_status")
    <3>1. first = timing
      BY <1>11, <2>2, NotExcused DEF When
    <3>2. \/ f \in DOMAIN ranges \/ f \in DOMAIN clocks \/ f \in DOMAIN soc
          \/ f \in DOMAIN fabric \/ f \in DOMAIN xgmi \/ f \in DOMAIN copies
      BY <2>2 DEF ScopeOf, ClockFields, ClockRangeFields, RangeOf, Widened
    <3>3. f \in DOMAIN timing
      <4> HIDE DEF ranges, clocks, soc, fabric, xgmi, copies
      <4> QED
        BY <3>2, OverFields
    <3> QED
      BY <2>1, <3>1, <3>3
  <2>3. CASE f \in ScopeOf("skip_pcie_status")
    <3>1. second = AmdsmiPcieStatus(d)
      BY <1>11, <2>3, NotExcused DEF When
    <3>2. f # "pcie_bus_id"
      BY DEF StatusFields, ClockFields, ClockRangeFields, RangeOf
    <3>3. f \in DOMAIN AmdsmiPcieStatus(d)
      BY <2>3, <3>2 DEF ScopeOf, AmdsmiPcieStatus, When, Healthy
    <3> QED
      BY <2>1, <3>1, <3>3
  <2>4. CASE f = "xgmi_error"
    <3>1. third = error
      BY <1>11, <2>4, NotExcused DEF When, ScopeOf
    <3> QED
      BY <2>1, <2>4, <3>1
  <2>5. CASE f = "processes"
    <3>1. fourth = AmdsmiProcesses(d)
      BY <1>11, <2>5, NotExcused DEF When, ScopeOf
    <3> QED
      BY <2>1, <2>5, <3>1 DEF AmdsmiProcesses, When, Healthy
  <2>6. \/ f \in ScopeOf("skip_clock_status") \/ f \in ScopeOf("skip_pcie_status")
        \/ f = "xgmi_error" \/ f = "processes"
    BY DEF StatusFields, ScopeOf
  <2> QED
    BY <2>2, <2>3, <2>4, <2>5, <2>6
<1> QED
  BY <1>10, <1>11

LEMMA GimFullStatus ==
  ASSUME NEW d, Healthy(d), d.backend = "gim", NEW reply, NEW X, NotProvided(d) \subseteq X
  PROVE  /\ Within(StatusOf(d, reply), ReadingsOf(X))
         /\ \A f \in StatusFields \union {"pcie_bus_id"} :
                f \in Excused(d) \/ f = "vram_bandwidth" \/ f \in DOMAIN StatusOf(d, reply)
<1>1. /\ DOMAIN ReadingsOf(X) = Fields \ X
      /\ \A f \in (Fields \ X) \ Displaced : f \in ReadingsOf(X)[f]
      /\ \A f \in Fields \ X : ReadingsOf(X)[f] = Origins(f)
  BY ReadingValue
<1>2. /\ {"xgmi_width", "xgmi_speed", "xgmi_error"} \subseteq X
      /\ {"xgmi_width", "xgmi_speed", "xgmi_error", "processes", "throttling", "fw_timestamp"}
             \subseteq Excused(d)
  BY DEF NotProvided, Excused
<1> DEFINE none   == [xgmi_width |-> "na64", xgmi_speed |-> "na64", xgmi_error |-> "zero"]
           clocks == [c \in ClockFields |-> Read(d, c, "na32")]
           ranges == [r \in ClockRangeFields |->
                          LET c == CHOOSE x \in DOMAIN RangeOf : RangeOf[x] = r
                          IN Read(d, SpecRangeOf[c], "na32")]
           bdf    == [pcie_bus_id |-> Read(d, "pcie_bus_id", "zero")]
           timing == When("skip_clock_status" \notin d.skip, clocks ++ ranges)
           link   == When("skip_pcie_status" \notin d.skip, AmdsmiPcieStatus(d) ++ bdf)
<1>3. StatusOf(d, reply) = none ++ timing ++ link
  <2>1. GimClockStatus(d) = clocks ++ ranges
    <3>1. {c \in ClockFields : ClockCall[c] \notin d.fails} = ClockFields
      BY DEF Healthy
    <3>2. {RangeOf[c] : c \in ClockFields \intersect DOMAIN RangeOf} = ClockRangeFields
      BY DEF ClockRangeFields, RangeOf, ClockFields
    <3> QED
      BY <3>1, <3>2, Zenon DEF GimClockStatus
  <2>2. GimPcieStatus(d) = AmdsmiPcieStatus(d) ++ bdf
    <3>1. GimPcieStatus(d) = AmdsmiPcieStatus(d) ++ When("bdf_id" \notin d.fails, bdf)
      BY DEF GimPcieStatus, AmdsmiPcieStatus
    <3>2. When("bdf_id" \notin d.fails, bdf) = bdf
      BY DEF When, Healthy
    <3> HIDE DEF bdf
    <3> QED
      BY <3>1, <3>2, Zenon
  <2>3. StatusOf(d, reply) = When("session_status" \notin d.fails, none ++ timing ++ link)
    <3>1. StatusOf(d, reply) = GimStatus(d)
      BY DEF StatusOf
    <3> QED
      BY <2>1, <2>2, <3>1, Zenon DEF GimStatus, Guarded
  <2> QED
    BY <2>3 DEF When, Healthy
<1>4. Within(none, ReadingsOf(X))
  BY <1>1, <1>2 DEF Within
<1>5. Within(clocks, ReadingsOf(X)) /\ Within(bdf, ReadingsOf(X))
  BY <1>1 DEF Within, Displaced, Read, Healthy, ClockFields
<1>6. Within(ranges, ReadingsOf(X))
  <2>1. ASSUME NEW r \in ClockRangeFields
        PROVE  SpecRangeOf[CHOOSE x \in DOMAIN RangeOf : RangeOf[x] = r] \in Origins(r)
    <3> DEFINE c == CHOOSE x \in DOMAIN RangeOf : RangeOf[x] = r
    <3>1. c \in DOMAIN RangeOf /\ RangeOf[c] = r
      BY ClockOfRange
    <3> HIDE DEF c
    <3>2. c \in {"gfx_clock", "mem_clock", "video_clock", "data_clock"}
      BY <3>1 DEF RangeOf
    <3>3. SpecRangeOf[c] \in Origins(r)
      BY <3>1, <3>2, DisplacedReadings DEF RangeOf, SpecRangeOf
    <3> QED
      BY <3>3 DEF c
  <2> QED
    BY <1>1, <2>1 DEF Within, Read, Healthy
<1>7. Within(AmdsmiPcieStatus(d), ReadingsOf(X))
  BY FullCalls
<1>8. Within(timing, ReadingsOf(X)) /\ Within(link, ReadingsOf(X))
  <2>1. Within(clocks ++ ranges, ReadingsOf(X)) /\ Within(AmdsmiPcieStatus(d) ++ bdf, ReadingsOf(X))
    <3> HIDE DEF clocks, ranges, bdf
    <3> QED
      BY <1>5, <1>6, <1>7, OverWithin
  <2> QED
    BY <2>1, WhenWithin, Zenon
<1>9. ASSUME NEW f \in StatusFields \union {"pcie_bus_id"}, f \notin Excused(d), f # "vram_bandwidth"
      PROVE  f \in DOMAIN StatusOf(d, reply)
  <2>1. ASSUME f \in DOMAIN timing \/ f \in DOMAIN link
        PROVE  f \in DOMAIN StatusOf(d, reply)
    <3> HIDE DEF none, timing, link
    <3> QED
      BY <1>3, <2>1, OverFields
  <2>2. CASE f \in ClockFields \union ClockRangeFields
    <3>1. timing = clocks ++ ranges
      BY <1>9, <2>2, NotExcused DEF When, ScopeOf
    <3>2. f \in DOMAIN clocks \/ f \in DOMAIN ranges
      BY <2>2
    <3>3. f \in DOMAIN (clocks ++ ranges)
      <4> HIDE DEF clocks, ranges
      <4> QED
        BY <3>2, OverFields
    <3> QED
      BY <2>1, <3>1, <3>3
  <2>3. CASE f \in ScopeOf("skip_pcie_status")
    <3>1. link = AmdsmiPcieStatus(d) ++ bdf
      BY <1>9, <2>3, NotExcused DEF When
    <3>2. f \in DOMAIN AmdsmiPcieStatus(d) \/ f \in DOMAIN bdf
      BY <2>3 DEF ScopeOf, AmdsmiPcieStatus, When, Healthy
    <3>3. f \in DOMAIN (AmdsmiPcieStatus(d) ++ bdf)
      <4> HIDE DEF bdf
      <4> QED
        BY <3>2, OverFields
    <3> QED
      BY <2>1, <3>1, <3>3
  <2>4. f \in ClockFields \union ClockRangeFields \/ f \in ScopeOf("skip_pcie_status")
    BY <1>2, <1>9 DEF StatusFields, ScopeOf
  <2> QED
    BY <2>2, <2>3, <2>4
<1> HIDE DEF none, timing, link
<1>10. Within(StatusOf(d, reply), ReadingsOf(X))
  BY <1>3, <1>4, <1>8, OverWithin
<1> QED
  BY <1>9, <1>10

\* Partitions apart from the first are those of a partitioned GPU.
Placed(d) == d.partitioned \/ d.first

\* The fields smi_gpu_fill_stats reads.
LEMMA FullStatsNames ==
  ASSUME NEW d, d.fails = {}, Placed(d), NEW m, NEW c, NEW p, d.backend # "gim"
  PROVE  \A f \in StatsFields : f \notin Excused(d) => f \in DOMAIN StatsReadings(d, TRUE, m, c, p)
<1> DEFINE Wanted(s) == s \notin d.skip
           partition == d.partitioned /\ (Wanted("skip_activity_stats") \/ Wanted("skip_violation_stats"))
           first    == When(TRUE /\ d.first /\ Wanted("skip_activity_stats"),
                            Widened(c, {"gfx_activity", "umc_activity"}, "na32"))
           activity == When(partition /\ Wanted("skip_activity_stats"), AmdsmiPartitionActivity(p))
           violated == When(partition /\ Wanted("skip_violation_stats"), AmdsmiViolation(d, p))
           links    == When(Wanted("skip_xgmi_stats"),
                            [xgmi_requests |-> Ask(d, "xgmi_counter", "xgmi_requests", "zero", "zero"),
                             xgmi_responses |-> Ask(d, "xgmi_counter", "xgmi_responses", "zero", "zero")])
           bytes    == When(Wanted("skip_pcie_stats"),
                            [tx_bytes |-> Read(d, "rx_bytes", "na64"),
                             rx_bytes |-> Read(d, "tx_bytes", "na64")])
           link     == When(Wanted("skip_xgmi_stats"), [xgmi_link |-> m["xgmi_link"]])
           ecc      == When(d.first /\ Wanted("skip_ecc_stats"), AmdsmiEcc(d))
           row0     == When(d.first /\ Wanted("skip_violation_stats"), AmdsmiViolation(d, m))
           pcie     == When(Wanted("skip_pcie_stats"),
                            [g \in PcieStatsFields \ {"rx_bytes", "tx_bytes"} |-> m[g]])
           busy     == When(Wanted("skip_activity_stats") /\ ~ d.partitioned, AmdsmiActivity(m))
           metrics  == AmdsmiPower(m) ++ link ++ ecc ++ row0 ++ pcie ++ busy
           vram     == When(Wanted("skip_vram_usage_stats"), AmdsmiVramUsage(d))
<1> SUFFICES ASSUME NEW f \in StatsFields, f \notin Excused(d)
             PROVE  f \in DOMAIN StatsReadings(d, TRUE, m, c, p)
  OBVIOUS
<1>1. StatsReadings(d, TRUE, m, c, p) =
           first ++ activity ++ violated ++ links ++ bytes ++ metrics ++ vram
  <2>1. /\ \A u : When(TRUE, u) = u
        /\ \A u : When(Wanted("skip_pcie_stats") /\ "pci_throughput" \notin d.fails, u)
                    = When(Wanted("skip_pcie_stats"), u)
        /\ \A s, u : When((/\ d.partitioned
                           /\ Wanted("skip_activity_stats") \/ Wanted("skip_violation_stats")
                           /\ "partition_metrics" \notin d.fails) /\ Wanted(s), u)
                       = When(partition /\ Wanted(s), u)
    BY DEF When
  <2> QED
    BY <2>1, Zenon DEF StatsReadings
<1>2. \A g : g \in DOMAIN StatsReadings(d, TRUE, m, c, p) <=>
                 \/ g \in DOMAIN first \/ g \in DOMAIN activity \/ g \in DOMAIN violated
                 \/ g \in DOMAIN links \/ g \in DOMAIN bytes \/ g \in DOMAIN vram
                 \/ g \in DOMAIN AmdsmiPower(m) \/ g \in DOMAIN link \/ g \in DOMAIN ecc
                 \/ g \in DOMAIN row0 \/ g \in DOMAIN pcie \/ g \in DOMAIN busy
  <2>1. PICK t : t = AmdsmiPower(m) ++ link ++ ecc ++ row0 ++ pcie ++ busy
    OBVIOUS
  <2>2. StatsReadings(d, TRUE, m, c, p) = first ++ activity ++ violated ++ links ++ bytes ++ t ++ vram
    BY <1>1, <2>1
  <2> HIDE DEF first, activity, violated, links, bytes, link, ecc, row0, pcie, busy, vram, metrics
  <2>3. \A g : g \in DOMAIN t <=>
                   \/ g \in DOMAIN AmdsmiPower(m) \/ g \in DOMAIN link \/ g \in DOMAIN ecc
                   \/ g \in DOMAIN row0 \/ g \in DOMAIN pcie \/ g \in DOMAIN busy
    BY <2>1, OverFields
  <2>4. PICK e : e = first ++ activity ++ violated ++ links ++ bytes
    OBVIOUS
  <2>5. \A g : g \in DOMAIN e <=>
                   \/ g \in DOMAIN first \/ g \in DOMAIN activity \/ g \in DOMAIN violated
                   \/ g \in DOMAIN links \/ g \in DOMAIN bytes
    BY <2>4, OverFields
  <2>6. \A g : g \in DOMAIN StatsReadings(d, TRUE, m, c, p) <=>
                   \/ g \in DOMAIN e \/ g \in DOMAIN t \/ g \in DOMAIN vram
    <3>1. StatsReadings(d, TRUE, m, c, p) = (e ++ t) ++ vram
      BY <2>2, <2>4, Zenon
    <3> QED
      BY <3>1, OverFields
  <2> QED
    BY <2>3, <2>5, <2>6
<1>3. CASE f \in ScopeOf("skip_activity_stats")
  <2>1. Wanted("skip_activity_stats")
    BY <1>3, NotExcused
  <2>2. \A t : DOMAIN AmdsmiActivity(t) = ScopeOf("skip_activity_stats")
    <3>1. \A t : DOMAIN Widened(t, UsageFields \ {"gfx_busy"}, "na32") = UsageFields \ {"gfx_busy"}
      BY DEF Widened
    <3>2. "gfx_busy" \in UsageFields
      BY DEF UsageFields
    <3>3. ASSUME NEW t
          PROVE  DOMAIN AmdsmiActivity(t) = ScopeOf("skip_activity_stats")
      <4>1. PICK u, v : /\ AmdsmiActivity(t) = u ++ v /\ DOMAIN u = UsageFields \ {"gfx_busy"}
                        /\ DOMAIN v = {"gfx_busy", "gfx_activity_acc", "mem_activity_acc"}
        BY <3>1 DEF AmdsmiActivity
      <4>2. \A g : g \in DOMAIN (u ++ v) <=> g \in DOMAIN u \/ g \in DOMAIN v
        BY OverFields
      <4> QED
        BY <3>2, <4>1, <4>2 DEF ScopeOf
    <3> QED
      BY <3>3
  <2>3. CASE d.partitioned
    <3>1. f \notin {"vcn_activity", "jpeg_activity"}
      BY <2>3 DEF Excused, NotProvided
    <3>2. activity = AmdsmiPartitionActivity(p)
      BY <2>1, <2>3 DEF When
    <3>3. f \in DOMAIN AmdsmiPartitionActivity(p)
      BY <1>3, <2>2, <3>1 DEF AmdsmiPartitionActivity
    <3> HIDE DEF first, activity, violated, links, bytes, link, ecc, row0, pcie, busy, vram, metrics
    <3> QED
      BY <1>2, <3>2, <3>3
  <2>4. CASE ~ d.partitioned
    <3>1. busy = AmdsmiActivity(m)
      BY <2>1, <2>4 DEF When
    <3> HIDE DEF first, activity, violated, links, bytes, link, ecc, row0, pcie, busy, vram, metrics
    <3> QED
      BY <1>2, <1>3, <2>2, <3>1
  <2> QED
    BY <2>3, <2>4
<1>4. CASE f \in ViolationFields
  <2>1. Wanted("skip_violation_stats")
    BY <1>4, NotExcused DEF ScopeOf
  <2>2. \A t : f \in DOMAIN AmdsmiViolation(d, t)
    <3> DEFINE all == [g \in {"violation_counter", "residency_acc", "vr_acc", "hbm_acc",
                              "gfx_limit_acc", "low_util_acc"} \union
                             {"residency_per", "gfx_limit_per", "low_util_per"} |-> Read(d, g, "na64")]
               some == When(~ d.first /\ "low_util_acc" \notin d.lacks,
                            [low_util_acc |-> "low_util_acc_of_partition"])
    <3>1. \A t : AmdsmiViolation(d, t) = some ++ all
      BY DEF AmdsmiViolation
    <3>2. f \in DOMAIN all
      BY <1>4 DEF ViolationFields
    <3> HIDE DEF all, some
    <3> QED
      BY <3>1, <3>2, OverFields
  <2>3. CASE d.partitioned
    <3>1. violated = AmdsmiViolation(d, p)
      BY <2>1, <2>3 DEF When
    <3> HIDE DEF first, activity, violated, links, bytes, link, ecc, row0, pcie, busy, vram, metrics
    <3> QED
      BY <1>2, <2>2, <3>1
  <2>4. CASE ~ d.partitioned
    <3>1. row0 = AmdsmiViolation(d, m)
      BY <2>1, <2>4 DEF When, Placed
    <3> HIDE DEF first, activity, violated, links, bytes, link, ecc, row0, pcie, busy, vram, metrics
    <3> QED
      BY <1>2, <2>2, <3>1
  <2> QED
    BY <2>3, <2>4
<1>5. CASE f \in PcieStatsFields
  <2>1. Wanted("skip_pcie_stats")
    BY <1>5, NotExcused DEF ScopeOf
  <2>2. f \in DOMAIN bytes \/ f \in DOMAIN pcie
    BY <1>5, <2>1 DEF When
  <2> HIDE DEF first, activity, violated, links, bytes, link, ecc, row0, pcie, busy, vram, metrics
  <2> QED
    BY <1>2, <2>2
<1>6. CASE f \in {"xgmi_requests", "xgmi_responses", "xgmi_link"}
  <2>1. Wanted("skip_xgmi_stats")
    BY <1>6, NotExcused DEF ScopeOf
  <2>2. f \in DOMAIN links \/ f \in DOMAIN link
    BY <1>6, <2>1 DEF When
  <2> HIDE DEF first, activity, violated, links, bytes, link, ecc, row0, pcie, busy, vram, metrics
  <2> QED
    BY <1>2, <2>2
<1>7. CASE f \in {"ecc_total", "ecc_block"}
  <2>1. Wanted("skip_ecc_stats") /\ d.first
    <3>1. Wanted("skip_ecc_stats")
      BY <1>7, NotExcused DEF ScopeOf
    <3>2. d.first
      BY <1>7 DEF Excused, NotProvided
    <3> QED
      BY <3>1, <3>2
  <2>2. f \in DOMAIN AmdsmiEcc(d)
    <3>1. PICK u, v : AmdsmiEcc(d) = u ++ v /\ DOMAIN u = {"ecc_total"} /\ DOMAIN v = {"ecc_block"}
      BY DEF AmdsmiEcc, When
    <3> QED
      BY <1>7, <3>1, OverFields
  <2>3. ecc = AmdsmiEcc(d)
    BY <2>1 DEF When
  <2> HIDE DEF first, activity, violated, links, bytes, link, ecc, row0, pcie, busy, vram, metrics
  <2> QED
    BY <1>2, <2>2, <2>3
<1>8. CASE f \in {"total_vram", "used_vram", "free_vram"}
  <2>1. vram = AmdsmiVramUsage(d)
    BY <1>8, NotExcused DEF ScopeOf, When
  <2>2. f \in DOMAIN AmdsmiVramUsage(d)
    BY <1>8 DEF AmdsmiVramUsage
  <2> HIDE DEF first, activity, violated, links, bytes, link, ecc, row0, pcie, busy, vram, metrics
  <2> QED
    BY <1>2, <2>1, <2>2
<1>9. CASE f \in {"package_power", "avg_power", "power_usage", "soc_voltage", "gfx_voltage",
                  "mem_voltage", "edge_temp", "junction_temp", "memory_temp", "hbm_temp",
                  "fan_speed", "energy"}
  <2> DEFINE wide   == Widened(m, {"avg_power", "package_power", "soc_voltage", "gfx_voltage",
                                   "mem_voltage", "fan_speed"}, "na64")
             narrow == Widened(m, {"edge_temp", "junction_temp", "memory_temp", "hbm_temp"}, "na32")
             rest   == [power_usage |-> Widen(m["package_power"], "na16", "na64"),
                        energy |-> m["energy"]]
  <2>1. AmdsmiPower(m) = wide ++ narrow ++ rest
    BY DEF AmdsmiPower
  <2>2. f \in DOMAIN wide \/ f \in DOMAIN narrow \/ f \in DOMAIN rest
    BY <1>9 DEF Widened
  <2>3. f \in DOMAIN AmdsmiPower(m)
    <3> HIDE DEF wide, narrow, rest
    <3> QED
      BY <2>1, <2>2, OverFields
  <2> HIDE DEF first, activity, violated, links, bytes, link, ecc, row0, pcie, busy, vram, metrics
  <2> QED
    BY <1>2, <2>3
<1>10. \/ f \in ScopeOf("skip_activity_stats") \/ f \in ViolationFields \/ f \in PcieStatsFields
       \/ f \in {"xgmi_requests", "xgmi_responses", "xgmi_link", "ecc_total", "ecc_block",
                 "total_vram", "used_vram", "free_vram", "package_power", "avg_power",
                 "power_usage", "soc_voltage", "gfx_voltage", "mem_voltage", "edge_temp",
                 "junction_temp", "memory_temp", "hbm_temp", "fan_speed", "energy"}
  BY DEF StatsFields, ScopeOf
<1> QED
  BY <1>3, <1>4, <1>5, <1>6, <1>7, <1>8, <1>9, <1>10

\* smi_gpu_fill_stats: what is read covers what was marked as not available.
LEMMA FullStats ==
  ASSUME NEW d, Healthy(d), d.backend \in {"amdsmi", "wsl"}, Placed(d), NEW X,
         {"fails", "lacks", "sentinels"} \subseteq DOMAIN d, Excused(d) \subseteq X
  PROVE  /\ Within(StatsOf(d), ReadingsOf(X))
         /\ \A f \in StatsFields : f \in Excused(d) \/ f \in DOMAIN StatsOf(d)
<1>1. /\ DOMAIN ReadingsOf(X) = Fields \ X
      /\ \A f \in (Fields \ X) \ Displaced : f \in ReadingsOf(X)[f]
      /\ \A f \in Fields \ X : ReadingsOf(X)[f] = Origins(f)
  BY ReadingValue
<1>2. PICK m : \E c, p : /\ FullTable(m) /\ FullTable(c) /\ FullTable(p)
                         /\ StatsOf(d) = AmdsmiStats(d, TRUE, m, c, p)
  <2>1. CASE d.backend = "amdsmi"
    <3>1. AmdsmiCached(d) = TRUE
      BY DEF AmdsmiCached, Healthy
    <3>2. StatsOf(d) = AmdsmiStats(d, TRUE, AmdsmiMetrics(d), AmdsmiMetrics(d), AmdsmiMetrics(d))
      BY <2>1, <3>1 DEF StatsOf
    <3> QED
      BY <3>2, FullTables, Zenon
  <2>2. CASE d.backend = "wsl"
    <3>1. WslTableUsed(d) = TRUE
      BY DEF WslTableUsed, WslCached, WslFilled, Healthy
    <3>2. StatsOf(d) = AmdsmiStats(d, TRUE, WslRefreshed(d, WslMetrics(d)), WslMetrics(d),
                                   WslPartitionMetrics(d))
      BY <2>2, <3>1 DEF StatsOf, WslStats
    <3> QED
      BY <3>2, FullTables, Zenon
  <2> QED
    BY <2>1, <2>2
<1>3. PICK c : \E p : /\ FullTable(c) /\ FullTable(p)
                      /\ StatsOf(d) = AmdsmiStats(d, TRUE, m, c, p)
  BY <1>2
<1>4. PICK p : FullTable(p) /\ StatsOf(d) = AmdsmiStats(d, TRUE, m, c, p)
  BY <1>3
<1>5. FullTable(m) /\ FullTable(c)
  BY <1>2, <1>3
<1>6. ASSUME NEW t, FullTable(t)
      PROVE  /\ Within(AmdsmiActivity(t), ReadingsOf(X))
             /\ Within(AmdsmiPartitionActivity(t), ReadingsOf(X))
             /\ Within(AmdsmiViolation(d, t), ReadingsOf(X))
  <2>1. Within(Widened(t, UsageFields \ {"gfx_busy"}, "na32"), ReadingsOf(X))
    <3>1. UsageFields \ {"gfx_busy"} \subseteq Metrics16 \ Displaced
      BY TableWidths DEF UsageFields, Displaced
    <3> QED
      BY <1>6, <3>1, FullCopies
  <2>2. Within([f \in {"gfx_busy", "gfx_activity_acc", "mem_activity_acc"} |-> t[f]], ReadingsOf(X))
    <3>1. {"gfx_busy", "gfx_activity_acc", "mem_activity_acc"} \subseteq Tabled \ Displaced
      BY TableWidths DEF Tabled, Displaced
    <3> QED
      BY <1>6, <3>1, FullCopies
  <2>3. Within(AmdsmiActivity(t), ReadingsOf(X))
    BY <2>1, <2>2, OverWithin, Zenon DEF AmdsmiActivity
  <2>4. Within(AmdsmiPartitionActivity(t), ReadingsOf(X))
    BY <2>3 DEF AmdsmiPartitionActivity, Within
  <2> DEFINE accumulated == {"violation_counter", "residency_acc", "vr_acc", "hbm_acc",
                             "gfx_limit_acc", "low_util_acc"}
             percent == {"residency_per", "gfx_limit_per", "low_util_per"}
             fields == accumulated \union percent
             part == [low_util_acc |-> "low_util_acc_of_partition"]
             all == [f \in accumulated \union percent |-> Read(d, f, "na64")]
             some == When(~ d.first /\ "low_util_acc" \notin d.lacks, part)
  <2>5. Within(part, ReadingsOf(X)) /\ Within(all, ReadingsOf(X))
    BY <1>1, DisplacedReadings DEF Within, Displaced, Read, Healthy
  <2>6. AmdsmiViolation(d, t) = some ++ all
    BY DEF AmdsmiViolation, Healthy
  <2>7. Within(some, ReadingsOf(X))
    BY <2>5, WhenWithin, Zenon
  <2> HIDE DEF some, all
  <2>8. Within(AmdsmiViolation(d, t), ReadingsOf(X))
    BY <2>5, <2>6, <2>7, OverWithin
  <2> QED
    BY <2>3, <2>4, <2>8
<1>7. /\ Within(Widened(c, {"gfx_activity", "umc_activity"}, "na32"), ReadingsOf(X))
      /\ Within([xgmi_link |-> m["xgmi_link"]], ReadingsOf(X))
      /\ Within([f \in PcieStatsFields \ {"rx_bytes", "tx_bytes"} |-> m[f]], ReadingsOf(X))
  <2>1. /\ {"gfx_activity", "umc_activity"} \subseteq Metrics16 \ Displaced
        /\ PcieStatsFields \ {"rx_bytes", "tx_bytes"} \subseteq Tabled \ Displaced
        /\ "xgmi_link" \in Tabled \ Displaced
    BY TableWidths DEF PcieStatsFields, Displaced, Tabled
  <2>2. m["xgmi_link"] = "xgmi_link"
    BY <1>5, <2>1 DEF FullTable
  <2>3. Within([xgmi_link |-> m["xgmi_link"]], ReadingsOf(X))
    BY <1>1, <2>1, <2>2 DEF Within
  <2> QED
    BY <1>5, <2>1, <2>3, FullCopies
<1>8. /\ Within([xgmi_requests |-> Ask(d, "xgmi_counter", "xgmi_requests", "zero", "zero"),
                 xgmi_responses |-> Ask(d, "xgmi_counter", "xgmi_responses", "zero", "zero")],
                ReadingsOf(X))
      /\ Within([tx_bytes |-> Read(d, "rx_bytes", "na64"), rx_bytes |-> Read(d, "tx_bytes", "na64")],
                ReadingsOf(X))
  BY <1>1, DisplacedReadings DEF Within, Displaced, Read, Ask, Healthy
<1>9. Within(AmdsmiPower(m), ReadingsOf(X))
  <2>1. /\ Within(Widened(m, {"avg_power", "package_power", "soc_voltage", "gfx_voltage",
                              "mem_voltage", "fan_speed"}, "na64"), ReadingsOf(X))
        /\ Within(Widened(m, {"edge_temp", "junction_temp", "memory_temp", "hbm_temp"}, "na32"),
                  ReadingsOf(X))
    BY <1>5, TableWidths, FullCopies DEF Displaced
  <2>2. Within([power_usage |-> Widen(m["package_power"], "na16", "na64"), energy |-> m["energy"]],
               ReadingsOf(X))
    <3>1. m["energy"] = "energy" /\ Widen(m["package_power"], "na16", "na64") = "package_power"
      <4>1. "energy" \in Tabled
        BY TableWidths DEF Tabled
      <4> QED
        BY <1>5, <4>1, FullCopies DEF FullTable
    <3> QED
      BY <1>1, <3>1, DisplacedReadings DEF Within, Displaced
  <2> QED
    BY <2>1, <2>2, OverWithin, Zenon DEF AmdsmiPower
<1>10. Within(AmdsmiEcc(d), ReadingsOf(X)) /\ Within(AmdsmiVramUsage(d), ReadingsOf(X))
  BY FullCalls
<1> DEFINE readings == StatsReadings(d, TRUE, m, c, p)
<1>11. Within(readings, ReadingsOf(X))
  BY <1>4, <1>5, <1>6, <1>7, <1>8, <1>9, <1>10, StatsLayers, Zenon
<1>12. ASSUME NEW f \in StatsFields, f \notin Excused(d)
       PROVE  f \in DOMAIN readings
  <2>1. \A g \in StatsFields : g \notin Excused(d) => g \in DOMAIN StatsReadings(d, TRUE, m, c, p)
    BY FullStatsNames DEF Healthy
  <2> QED
    BY <1>12, <2>1
<1>13. /\ \A f : f \in DOMAIN StatsOf(d) <=> \/ f \in DOMAIN readings
                                            \/ f \in UsageFields
                                            \/ f \in PcieStatsFields \union ViolationFields
                                                     \union {"xgmi_link"}
       /\ \A f \in DOMAIN readings : StatsOf(d)[f] = readings[f]
  <2> DEFINE usage == All(UsageFields, "na32")
             rest  == All(PcieStatsFields \union ViolationFields \union {"xgmi_link"}, "na64")
  <2>1. StatsOf(d) = (readings ++ usage) ++ rest
    BY <1>4, StatsOverMarks
  <2>2. /\ DOMAIN usage = UsageFields
        /\ DOMAIN rest = PcieStatsFields \union ViolationFields \union {"xgmi_link"}
    BY DEF All
  <2> HIDE DEF usage, rest, readings
  <2> QED
    BY <2>1, <2>2, OverFields
<1> HIDE DEF readings
<1>14. UsageFields \union PcieStatsFields \union ViolationFields \union {"xgmi_link"}
           \subseteq StatsFields
  BY DEF StatsFields
<1>15. \A f \in DOMAIN StatsOf(d) : f \in DOMAIN readings \/ f \in X
  BY <1>12, <1>13, <1>14
<1>16. Within(StatsOf(d), ReadingsOf(X))
  BY <1>1, <1>11, <1>13, <1>15 DEF Within
<1> QED
  BY <1>12, <1>13, <1>16

\* gim: the fields smi_gpu_fill_stats reads, over what it marks as not available.
LEMMA GimStatsNames ==
  ASSUME NEW d, d.fails = {}, d.backend = "gim"
  PROVE  /\ \A f \in StatsFields : f \notin Excused(d) => f \in DOMAIN GimReadings(d)
         /\ \A f : f \in DOMAIN StatsOf(d) <=>
                       \/ f \in DOMAIN GimReadings(d) \/ f \in {"total_vram", "used_vram", "free_vram"}
                       \/ f \in UsageFields \/ f \in PcieStatsFields \union {"xgmi_link"}
         /\ \A f \in DOMAIN GimReadings(d) : StatsOf(d)[f] = GimReadings(d)[f]
<1>1. {"avg_power", "power_usage", "energy", "fan_speed", "total_vram", "used_vram", "free_vram",
       "xgmi_requests", "xgmi_responses", "xgmi_link", "gfx_activity_acc", "mem_activity_acc",
       "rx_bytes", "tx_bytes", "bidir_bandwidth", "residency_per", "gfx_limit_per",
       "low_util_per"} \subseteq Excused(d)
  BY DEF NotProvided, Excused
<1> DEFINE Wanted(s) == s \notin d.skip
           power    == [f \in {"package_power", "soc_voltage", "gfx_voltage", "mem_voltage"} |->
                            Read(d, f, "na64")]
           busy     == [f \in {"gfx_activity", "umc_activity", "mm_activity"} |-> Read(d, f, "na32")]
           counters == [f \in {"replay_count", "recovery_count", "rollover_count", "nack_count"} |->
                            Read(d, f, "na64")]
           temps    == [f \in {"edge_temp", "junction_temp", "memory_temp", "hbm_temp"} |->
                            Read(d, f, "zero")]
           engines  == [f \in {"vcn_activity", "vcn_busy", "jpeg_activity", "jpeg_busy", "gfx_busy"} |->
                            Streamed(d, f, "na32")]
           limits   == [f \in ViolationFields \ {"residency_per", "gfx_limit_per", "low_util_per"} |->
                            Streamed(d, f, "na64")]
           percent  == All({"residency_per", "gfx_limit_per", "low_util_per"}, "na64")
<1> DEFINE activity == When(Wanted("skip_activity_stats"), busy)
           walk     == When(Wanted("skip_activity_stats") \/ Wanted("skip_violation_stats"),
                            GimWalk(d))
           pcie     == When(Wanted("skip_pcie_stats"), counters)
           ecc      == When(Wanted("skip_ecc_stats"), GimEcc(d))
<1>2. GimReadings(d) = power ++ activity ++ walk ++ pcie ++ temps ++ ecc
  <2>1. /\ \A u : When("power_info" \notin d.fails, u) = u
        /\ \A u : When("temp_metric" \notin d.fails, u) = u
        /\ \A u : When(Wanted("skip_activity_stats") /\ "gpu_activity" \notin d.fails, u)
                    = When(Wanted("skip_activity_stats"), u)
        /\ \A u : When(Wanted("skip_pcie_stats") /\ "pcie_metric" \notin d.fails, u)
                    = When(Wanted("skip_pcie_stats"), u)
    BY DEF When
  <2> QED
    BY <2>1, Zenon DEF GimReadings
<1>3. \A f : f \in DOMAIN GimReadings(d) <=>
                 \/ f \in DOMAIN power \/ f \in DOMAIN activity \/ f \in DOMAIN walk
                 \/ f \in DOMAIN pcie \/ f \in DOMAIN temps \/ f \in DOMAIN ecc
  <2> HIDE DEF power, activity, walk, pcie, temps, ecc
  <2> QED
    BY <1>2, OverFields
<1>4. /\ \A f : f \in DOMAIN GimWalk(d) <=> \/ f \in DOMAIN engines \/ f \in DOMAIN limits
                                           \/ f \in DOMAIN percent
      /\ "ecc_total" \in DOMAIN GimEcc(d) /\ "ecc_block" \in DOMAIN GimEcc(d)
  <2>1. GimWalk(d) = engines ++ limits ++ percent
    BY DEF GimWalk
  <2>2. PICK u, v : GimEcc(d) = u ++ v /\ DOMAIN u = {"ecc_total"} /\ DOMAIN v = {"ecc_block"}
    BY DEF GimEcc, When
  <2> HIDE DEF engines, limits, percent
  <2> QED
    BY <2>1, <2>2, OverFields
<1>5. ASSUME NEW f \in StatsFields, f \notin Excused(d)
      PROVE  f \in DOMAIN GimReadings(d)
  <2>1. CASE f \in {"gfx_activity", "umc_activity", "mm_activity"}
    <3>1. Wanted("skip_activity_stats")
      BY <1>5, <2>1, NotExcused DEF ScopeOf, UsageFields
    <3>2. f \in DOMAIN activity
      BY <2>1, <3>1 DEF When
    <3> QED
      BY <1>3, <3>2
  <2>2. CASE f \in UsageFields \ {"gfx_activity", "umc_activity", "mm_activity"}
    <3>1. Wanted("skip_activity_stats")
      BY <1>5, <2>2, NotExcused DEF ScopeOf
    <3>2. f \in DOMAIN engines
      BY <2>2 DEF UsageFields
    <3>3. walk = GimWalk(d)
      BY <3>1 DEF When
    <3> HIDE DEF power, activity, walk, pcie, temps, ecc, engines, limits, percent
    <3> QED
      BY <1>3, <1>4, <3>2, <3>3
  <2>3. CASE f \in ViolationFields
    <3>1. Wanted("skip_violation_stats")
      BY <1>5, <2>3, NotExcused DEF ScopeOf
    <3>2. f \in DOMAIN limits
      BY <1>1, <1>5, <2>3
    <3>3. walk = GimWalk(d)
      BY <3>1 DEF When
    <3> HIDE DEF power, activity, walk, pcie, temps, ecc, engines, limits, percent
    <3> QED
      BY <1>3, <1>4, <3>2, <3>3
  <2>4. CASE f \in PcieStatsFields
    <3>1. Wanted("skip_pcie_stats")
      BY <1>5, <2>4, NotExcused DEF ScopeOf
    <3>2. f \in DOMAIN pcie
      BY <1>1, <1>5, <2>4, <3>1 DEF When, PcieStatsFields
    <3> QED
      BY <1>3, <3>2
  <2>5. CASE f \in {"ecc_total", "ecc_block"}
    <3>1. Wanted("skip_ecc_stats")
      BY <1>5, <2>5, NotExcused DEF ScopeOf
    <3>2. ecc = GimEcc(d)
      BY <3>1 DEF When
    <3> HIDE DEF power, activity, walk, pcie, temps, ecc
    <3> QED
      BY <1>3, <1>4, <2>5, <3>2
  <2>6. CASE f \in {"package_power", "soc_voltage", "gfx_voltage", "mem_voltage", "edge_temp",
                    "junction_temp", "memory_temp", "hbm_temp"}
    <3>1. f \in DOMAIN power \/ f \in DOMAIN temps
      BY <2>6
    <3> QED
      BY <1>3, <3>1
  <2> QED
    BY <1>1, <1>5, <2>1, <2>2, <2>3, <2>4, <2>5, <2>6 DEF StatsFields
<1> HIDE DEF power, activity, walk, pcie, temps, ecc, engines, limits, percent
<1>6. /\ \A f : f \in DOMAIN StatsOf(d) <=>
                    \/ f \in DOMAIN GimReadings(d) \/ f \in {"total_vram", "used_vram", "free_vram"}
                    \/ f \in UsageFields \/ f \in PcieStatsFields \union {"xgmi_link"}
      /\ \A f \in DOMAIN GimReadings(d) : StatsOf(d)[f] = GimReadings(d)[f]
  <2> DEFINE vram  == All({"total_vram", "used_vram", "free_vram"}, "na64")
             usage == All(UsageFields, "na32")
             rest  == All(PcieStatsFields \union {"xgmi_link"}, "na64")
  <2>1. StatsOf(d) = ((GimReadings(d) ++ vram) ++ usage) ++ rest
    <3>1. StatsOf(d) = When("session_stats" \notin d.fails, ((GimReadings(d) ++ vram) ++ usage) ++ rest)
      BY GimOverMarks DEF StatsOf
    <3> QED
      BY <3>1 DEF When
  <2>2. /\ DOMAIN vram = {"total_vram", "used_vram", "free_vram"} /\ DOMAIN usage = UsageFields
        /\ DOMAIN rest = PcieStatsFields \union {"xgmi_link"}
    BY DEF All
  <2> HIDE DEF vram, usage, rest
  <2> QED
    BY <2>1, <2>2, OverFields
<1> QED
  BY <1>5, <1>6

LEMMA GimFullStats ==
  ASSUME NEW d, Healthy(d), d.backend = "gim", NEW X, Excused(d) \subseteq X
  PROVE  /\ Within(StatsOf(d), ReadingsOf(X))
         /\ \A f \in StatsFields : f \in Excused(d) \/ f \in DOMAIN StatsOf(d)
<1>1. /\ DOMAIN ReadingsOf(X) = Fields \ X
      /\ \A f \in (Fields \ X) \ Displaced : f \in ReadingsOf(X)[f]
      /\ \A f \in Fields \ X : ReadingsOf(X)[f] = Origins(f)
  BY ReadingValue
<1>2. {"avg_power", "power_usage", "energy", "fan_speed", "total_vram", "used_vram", "free_vram",
       "xgmi_requests", "xgmi_responses", "xgmi_link", "gfx_activity_acc", "mem_activity_acc",
       "rx_bytes", "tx_bytes", "bidir_bandwidth", "residency_per", "gfx_limit_per",
       "low_util_per"} \subseteq Excused(d)
  BY DEF NotProvided, Excused
<1> DEFINE Wanted(s) == s \notin d.skip
           power    == [f \in {"package_power", "soc_voltage", "gfx_voltage", "mem_voltage"} |->
                            Read(d, f, "na64")]
           busy     == [f \in {"gfx_activity", "umc_activity", "mm_activity"} |-> Read(d, f, "na32")]
           counters == [f \in {"replay_count", "recovery_count", "rollover_count", "nack_count"} |->
                            Read(d, f, "na64")]
           temps    == [f \in {"edge_temp", "junction_temp", "memory_temp", "hbm_temp"} |->
                            Read(d, f, "zero")]
           engines  == [f \in {"vcn_activity", "vcn_busy", "jpeg_activity", "jpeg_busy", "gfx_busy"} |->
                            Streamed(d, f, "na32")]
           limits   == [f \in ViolationFields \ {"residency_per", "gfx_limit_per", "low_util_per"} |->
                            Streamed(d, f, "na64")]
           percent  == All({"residency_per", "gfx_limit_per", "low_util_per"}, "na64")
<1>3. /\ Within(power, ReadingsOf(X)) /\ Within(busy, ReadingsOf(X))
      /\ Within(counters, ReadingsOf(X)) /\ Within(temps, ReadingsOf(X))
  BY <1>1 DEF Within, Displaced, Read, Healthy
<1>4. Within(engines, ReadingsOf(X)) /\ Within(limits, ReadingsOf(X))
  BY <1>1 DEF Within, Displaced, Streamed, Healthy, ViolationFields
<1>5. Within(percent, ReadingsOf(X))
  BY <1>1, <1>2 DEF Within, All
<1>6. Within(GimWalk(d), ReadingsOf(X))
  BY <1>4, <1>5, GimWalkLayers, Zenon
<1>7. Within(GimEcc(d), ReadingsOf(X))
  <2>1. GimEcc(d) = AmdsmiEcc(d)
    BY DEF GimEcc, AmdsmiEcc
  <2> QED
    BY <2>1, FullCalls
<1>8. Within(GimReadings(d), ReadingsOf(X))
  BY <1>3, <1>6, <1>7, GimStatsLayers, Zenon
<1>9. /\ \A f \in StatsFields : f \notin Excused(d) => f \in DOMAIN GimReadings(d)
      /\ \A f : f \in DOMAIN StatsOf(d) <=>
                    \/ f \in DOMAIN GimReadings(d) \/ f \in {"total_vram", "used_vram", "free_vram"}
                    \/ f \in UsageFields \/ f \in PcieStatsFields \union {"xgmi_link"}
      /\ \A f \in DOMAIN GimReadings(d) : StatsOf(d)[f] = GimReadings(d)[f]
  BY GimStatsNames DEF Healthy
<1>10. {"total_vram", "used_vram", "free_vram"} \union UsageFields \union PcieStatsFields \union
       {"xgmi_link"} \subseteq StatsFields
  BY DEF StatsFields
<1>11. \A f \in DOMAIN StatsOf(d) : f \in DOMAIN GimReadings(d) \/ f \in X
  BY <1>9, <1>10
<1>12. Within(StatsOf(d), ReadingsOf(X))
  BY <1>1, <1>8, <1>9, <1>11 DEF Within
<1> QED
  BY <1>9, <1>12

\* The fields that stand for a reading from each stage on.
Awaited(d, at) ==
    IF at \in {"request", "spec", "status"} THEN Fields \ FirstFields(d.backend)
    ELSE IF at = "stats" THEN StatsFields
    ELSE {}

\* The inductive invariant: as long as every call was answered, what is to be
\* filled by then holds readings.
FullInv ==
    /\ ReplyInv
    /\ {"parent", "sentinels", "partitioned", "first", "rdna"} \subseteq DOMAIN device
    /\ device = [x \in DOMAIN device |-> device[x]]
    /\ Placed(device)
    /\ device.backend = "gim" => ~ device.parent
    /\ stage \in {"create", "request"} => device.skip = {}
    /\ failed = 0 => device.fails = {}
    /\ failed = 0 /\ device.lacks = {} /\ ~ device.parent /\ stage # "create" =>
           Within(info, ReadingsOf(Excused(device) \union Awaited(device, stage)))

LEMMA FullInvInit == ShowInit => FullInv
<1> SUFFICES ASSUME ShowInit PROVE FullInv
  OBVIOUS
<1>1. PICK lacks : device \in Devices(lacks)
  BY DEF ShowInit
<1>2. {"parent", "sentinels", "partitioned", "first", "rdna"} \subseteq DOMAIN device
  BY <1>1 DEF Devices, Device
<1>3. /\ Placed(device) /\ device.fails = {} /\ device.skip = {}
      /\ device = [x \in DOMAIN device |-> device[x]]
  <2>1. PICK role : /\ device.first = (role # "other")
                    /\ device.partitioned = (role \in {"first", "other"})
    BY <1>1 DEF Devices, Device
  <2>2. Placed(device)
    BY <2>1 DEF Placed
  <2>3. device.fails = {}
    BY <1>1 DEF Devices, Device
  <2>4. device = [x \in DOMAIN device |-> device[x]]
    BY <1>1 DEF Devices, Device
  <2> QED
    BY <1>1, <2>2, <2>3, <2>4, DeviceFits
<1>4. device.backend = "gim" => ~ device.parent
  <2>1. CASE device.backend = "gim"
    <3>1. device = Device("gim", "whole", FALSE, TRUE, lacks)
      BY <1>1, <2>1 DEF Devices, Device
    <3>2. device.parent = FALSE
      BY <3>1 DEF Device
    <3> QED
      BY <3>2, Zenon
  <2> QED
    BY <2>1
<1> QED
  BY <1>2, <1>3, <1>4, ReplyInvInit DEF ShowInit, FullInv

\* No call failed, if none is counted.
LEMMA NoneFailed ==
  ASSUME ReplyInv, NEW at, NEW fails \in Failures(at), failed + Cardinality(fails) = 0
  PROVE  failed = 0 /\ fails = {}
<1>1. Cardinality(device.skip) \in Nat
  BY FS_CardinalityType DEF ReplyInv
<1>2. MaxTrouble - Trouble \in Int
  BY <1>1, ShowAssumption DEF Trouble, ReplyInv, ShowTypeOK
<1>3. IsFiniteSet(fails) /\ Cardinality(fails) \in Nat
  BY <1>2, AtMost DEF Failures
<1>4. failed \in Nat
  BY ShowAssumption DEF ReplyInv, ShowTypeOK
<1>5. failed = 0 /\ Cardinality(fails) = 0
  BY <1>3, <1>4
<1> QED
  BY <1>3, <1>5, FS_EmptySet

\* The stages of gpu_entry::read, each of which fills what is awaited of it.
LEMMA FullStages ==
  ASSUME NEW d, Healthy(d), Placed(d), d.backend \in Backends,
         {"fails", "lacks", "sentinels"} \subseteq DOMAIN d, d.skip \subseteq SkipFlags,
         NEW X, X = Excused(d)
  PROVE  /\ Within(Created(d), ReadingsOf(X)) /\ Within(SpecOf(d), ReadingsOf(X))
         /\ Within(StatsOf(d), ReadingsOf(X))
         /\ \A f \in FirstFields(d.backend) : f \in X \/ f \in DOMAIN Created(d)
         /\ \A f \in StatsFields : f \in X \/ f \in DOMAIN StatsOf(d)
         /\ \A reply : DOMAIN reply = Fields
                       /\ Within(reply, ReadingsOf(X \union (Fields \ FirstFields(d.backend)))) =>
                /\ Within(StatusOf(d, reply), ReadingsOf(X))
                /\ \A f \in Fields \ (FirstFields(d.backend) \union StatsFields) :
                       f \in X \/ f \in DOMAIN StatusOf(d, reply)
<1>1. NotProvided(d) \subseteq X /\ "spec_fan_speed" \in X
  BY DEF Excused, NotProvided
<1>2. \A f \in {"gfx_range", "mem_range", "video_range", "data_range"} :
          f \notin X /\ f \in Fields /\ f \in FirstFields(d.backend) /\ Origins(f) = {f}
  <2>1. \A f \in {"gfx_range", "mem_range", "video_range", "data_range"} :
            f \in Fields /\ f \in FirstFields(d.backend) /\ Origins(f) = {f}
    BY DEF Fields, FirstFields, SpecFields, Origins, ClockRangeFields, RangeOf
  <2>2. ASSUME NEW f \in {"gfx_range", "mem_range", "video_range", "data_range"}
        PROVE  f \notin X
    <3>1. f \notin NotProvided(d)
      BY DEF NotProvided
    <3>2. ASSUME NEW s \in d.skip
          PROVE  f \notin ScopeOf(s)
      BY DEF SkipFlags, ScopeOf, ClockFields, ClockRangeFields, RangeOf, ViolationFields, PcieStatsFields,
             UsageFields
    <3> QED
      BY <3>1, <3>2 DEF Excused
  <2> QED
    BY <2>1, <2>2
<1>3. CASE d.backend \in {"amdsmi", "wsl"}
  <2>1. Within(SpecOf(d), ReadingsOf(X))
    BY <1>3 DEF SpecOf, When, Untouched, All, Within
  <2>2. ASSUME NEW reply, DOMAIN reply = Fields,
               Within(reply, ReadingsOf(X \union (Fields \ FirstFields(d.backend))))
        PROVE  /\ Within(StatusOf(d, reply), ReadingsOf(X))
               /\ \A f \in Fields \ (FirstFields(d.backend) \union StatsFields) :
                      f \in X \/ f \in DOMAIN StatusOf(d, reply)
    <3>1. \A r \in {"gfx_range", "mem_range", "video_range", "data_range"} : reply[r] = r
      BY <1>2, <2>2 DEF Within, ReadingsOf
    <3>2. Fields \ (FirstFields(d.backend) \union StatsFields) \subseteq StatusFields
      BY <1>3 DEF FirstFields, Fields
    <3> QED
      BY <1>3, <2>2, <3>1, <3>2, FullStatus
  <2> QED
    BY <1>1, <1>3, <2>1, <2>2, FullCreate, FullStats
<1>4. CASE d.backend = "gim"
  <2>1. ASSUME NEW reply
        PROVE  /\ Within(StatusOf(d, reply), ReadingsOf(X))
               /\ \A f \in Fields \ (FirstFields(d.backend) \union StatsFields) :
                      f \in X \/ f \in DOMAIN StatusOf(d, reply)
    <3>1. \A f \in Fields \ (FirstFields(d.backend) \union StatsFields) :
              f \in StatusFields \union {"pcie_bus_id"} /\ f # "vram_bandwidth"
      BY <1>4 DEF FirstFields, Fields
    <3> QED
      BY <1>1, <1>4, <3>1, GimFullStatus
  <2> QED
    BY <1>1, <1>4, <2>1, GimFullCreate, GimFullStats
<1> QED
  BY <1>3, <1>4 DEF Backends

LEMMA FullInvStep == FullInv /\ [ShowNext]_showVars => FullInv'
<1> SUFFICES ASSUME FullInv, [ShowNext]_showVars PROVE FullInv'
  OBVIOUS
<1>1. ReplyInv'
  BY ReplyInvStep DEF FullInv
<1>2. CASE Create
  <2>1. PICK fails \in Failures("create") :
            /\ info' = Update(Cleared, Created([device EXCEPT !.fails = fails]))
            /\ failed' = failed + Cardinality(fails)
    BY <1>2 DEF Create
  <2>2. stage = "create" /\ stage' = "request" /\ device' = device
    BY <1>2 DEF Create
  <2>3. ASSUME failed' = 0, device.lacks = {}
        PROVE  Within(info', ReadingsOf(Excused(device) \union Awaited(device, "request")))
    <3>1. failed = 0 /\ fails = {}
      BY <2>1, <2>3, NoneFailed DEF FullInv
    <3>2. [device EXCEPT !.fails = fails] = device
      <4>1. device.fails = fails /\ device = [x \in DOMAIN device |-> device[x]]
        BY <3>1 DEF FullInv
      <4> QED
        BY <4>1
    <3>3. Healthy(device)
      BY <2>3, <3>1 DEF Healthy, FullInv
    <3>4. /\ Within(Created(device), ReadingsOf(Excused(device)))
          /\ \A f \in FirstFields(device.backend) : f \in Excused(device) \/ f \in DOMAIN Created(device)
      BY <3>3, FullStages DEF FullInv, ReplyInv, ShowTypeOK
    <3>5. Within(Cleared, ReadingsOf(Excused(device) \union Fields))
      BY DEF Within, ReadingsOf
    <3>6. \A f \in (Fields \ Excused(device)) \intersect Fields :
              f \in DOMAIN Created(device) \/ f \in Awaited(device, "request")
      BY <3>4 DEF Awaited
    <3> QED
      BY <2>1, <3>2, <3>4, <3>5, <3>6, ReadingsFill
  <2>4. failed' = 0 => failed = 0
    BY <2>1, NoneFailed DEF FullInv
  <2> QED
    BY <1>1, <2>2, <2>3, <2>4 DEF FullInv
<1>3. CASE Request
  <2>1. PICK skip : device' = [device EXCEPT !.skip = skip]
    BY <1>3 DEF Request
  <2>2. /\ DOMAIN device' = DOMAIN device /\ device'.backend = device.backend
        /\ device'.parent = device.parent /\ device'.partitioned = device.partitioned
        /\ device'.first = device.first /\ device'.lacks = device.lacks
        /\ device'.fails = device.fails
    BY <2>1 DEF FullInv, ReplyInv
  <2>3. stage = "request" /\ device.skip = {} /\ failed' = failed
    BY <1>3 DEF Request, FullInv
  <2>4. ASSUME failed = 0, device.lacks = {}, ~ device.parent
        PROVE  Within(info', ReadingsOf(Excused(device') \union Awaited(device', stage')))
    <3>1. info' = info /\ stage' = "spec"
      BY <1>3, <2>4 DEF Request
    <3>2. Excused(device) \subseteq Excused(device')
      <4>1. NotProvided(device') = NotProvided(device)
        BY <2>2 DEF NotProvided
      <4> QED
        BY <2>3, <4>1 DEF Excused
    <3>3. Awaited(device', stage') = Awaited(device, stage)
      BY <2>2, <2>3, <3>1 DEF Awaited
    <3>4. Within(info, ReadingsOf(Excused(device) \union Awaited(device, stage)))
      BY <2>3, <2>4 DEF FullInv
    <3>5. Excused(device) \union Awaited(device, stage)
              \subseteq Excused(device') \union Awaited(device', stage')
      BY <3>2, <3>3
    <3> QED
      BY <3>1, <3>4, <3>5, FewerReadings
  <2>5. stage' \in {"spec", "reply"}
    BY <1>3 DEF Request
  <2>6. Placed(device') /\ device' = [x \in DOMAIN device' |-> device'[x]]
    BY <2>1, <2>2 DEF Placed, FullInv
  <2> QED
    BY <1>1, <2>2, <2>3, <2>4, <2>5, <2>6 DEF FullInv
<1>4. ASSUME NEW at \in {"spec", "status", "stats"}, stage = at, NEW new,
             NEW fails \in Failures(at),
             device' = [device EXCEPT !.fails = @ \union fails],
             failed' = failed + Cardinality(fails), info' = Update(info, new),
             stage' \in {"status", "stats", "reply"},
             Healthy(device) /\ device' = device /\ ~ device.parent
               /\ Within(info, ReadingsOf(Excused(device) \union Awaited(device, stage))) =>
                 /\ Within(new, ReadingsOf(Excused(device)))
                 /\ \A f \in (Fields \ Excused(device)) \intersect Awaited(device, stage) :
                        f \in DOMAIN new \/ f \in Awaited(device, stage')
      PROVE  FullInv'
  <2>1. /\ DOMAIN device' = DOMAIN device /\ device'.backend = device.backend
        /\ device'.parent = device.parent /\ device'.partitioned = device.partitioned
        /\ device'.first = device.first /\ device'.lacks = device.lacks
        /\ device'.fails = device.fails \union fails
    BY <1>4 DEF FullInv, ReplyInv
  <2>2. ASSUME failed' = 0
        PROVE  failed = 0 /\ fails = {} /\ device' = device
    <3>1. failed = 0 /\ fails = {}
      BY <1>4, <2>2, NoneFailed DEF FullInv
    <3>2. device.fails \union fails = device.fails /\ device = [x \in DOMAIN device |-> device[x]]
      BY <3>1 DEF FullInv
    <3> QED
      BY <1>4, <3>1, <3>2
  <2>3. failed' = 0 => device'.fails = {}
    BY <2>1, <2>2 DEF FullInv
  <2>4. ASSUME failed' = 0, device'.lacks = {}, ~ device'.parent
        PROVE  Within(info', ReadingsOf(Excused(device') \union Awaited(device', stage')))
    <3>1. Healthy(device) /\ device' = device /\ ~ device.parent /\ failed = 0
      BY <2>1, <2>2, <2>4 DEF Healthy, FullInv
    <3>2. Within(info, ReadingsOf(Excused(device) \union Awaited(device, stage)))
      BY <1>4, <3>1 DEF Healthy, FullInv
    <3> QED
      BY <1>4, <3>1, <3>2, ReadingsFill
  <2>5. Placed(device')
    BY <2>1 DEF Placed, FullInv
  <2> QED
    BY <1>1, <1>4, <2>1, <2>3, <2>4, <2>5 DEF FullInv
<1>5. CASE FillSpec
  <2>1. PICK fails \in Failures("spec") :
            /\ device' = [device EXCEPT !.fails = @ \union fails]
            /\ failed' = failed + Cardinality(fails)
            /\ info' = Update(info, SpecOf([device EXCEPT !.fails = @ \union fails]))
    BY <1>5 DEF FillSpec, Filled
  <2>2. stage = "spec" /\ stage' = "status" /\ info' = Update(info, SpecOf(device'))
    BY <1>5, <2>1 DEF FillSpec
  <2>3. ASSUME Healthy(device), device' = device
        PROVE  Within(SpecOf(device'), ReadingsOf(Excused(device)))
    BY <2>3, FullStages DEF FullInv, ReplyInv, ShowTypeOK
  <2>4. Awaited(device, "spec") = Awaited(device, "status")
    BY DEF Awaited
  <2> QED
    BY <1>4, <2>1, <2>2, <2>3, <2>4
<1>6. CASE FillStatus
  <2>1. PICK fails \in Failures("status") :
            /\ device' = [device EXCEPT !.fails = @ \union fails]
            /\ failed' = failed + Cardinality(fails)
            /\ info' = Update(info, StatusOf([device EXCEPT !.fails = @ \union fails], info))
    BY <1>6 DEF FillStatus, Filled
  <2>2. stage = "status" /\ stage' = "stats" /\ info' = Update(info, StatusOf(device', info))
    BY <1>6, <2>1 DEF FillStatus
  <2>3. DOMAIN info = Fields
    BY <2>2 DEF FullInv, ReplyInv, ShowTypeOK
  <2>4. ASSUME Healthy(device), device' = device,
               Within(info, ReadingsOf(Excused(device) \union Awaited(device, stage)))
        PROVE  /\ Within(StatusOf(device', info), ReadingsOf(Excused(device)))
               /\ \A f \in (Fields \ Excused(device)) \intersect Awaited(device, stage) :
                      f \in DOMAIN StatusOf(device', info) \/ f \in Awaited(device, stage')
    <3>1. Awaited(device, stage) = Fields \ FirstFields(device.backend)
      BY <2>2 DEF Awaited
    <3>2. Awaited(device, stage') = StatsFields
      BY <2>2 DEF Awaited
    <3>3. /\ Within(StatusOf(device, info), ReadingsOf(Excused(device)))
          /\ \A f \in Fields \ (FirstFields(device.backend) \union StatsFields) :
                 f \in Excused(device) \/ f \in DOMAIN StatusOf(device, info)
      BY <2>3, <2>4, <3>1, FullStages DEF FullInv, ReplyInv, ShowTypeOK
    <3> QED
      BY <2>4, <3>1, <3>2, <3>3
  <2> QED
    BY <1>4, <2>1, <2>2, <2>4
<1>7. CASE FillStats
  <2>1. PICK fails \in Failures("stats") :
            /\ device' = [device EXCEPT !.fails = @ \union fails]
            /\ failed' = failed + Cardinality(fails)
            /\ info' = Update(info, StatsOf([device EXCEPT !.fails = @ \union fails]))
    BY <1>7 DEF FillStats, Filled
  <2>2. stage = "stats" /\ stage' = "reply" /\ info' = Update(info, StatsOf(device'))
    BY <1>7, <2>1 DEF FillStats
  <2>3. ASSUME Healthy(device), device' = device
        PROVE  /\ Within(StatsOf(device'), ReadingsOf(Excused(device)))
               /\ \A f \in (Fields \ Excused(device)) \intersect Awaited(device, stage) :
                      f \in DOMAIN StatsOf(device') \/ f \in Awaited(device, stage')
    <3>1. Awaited(device, stage) = StatsFields
      BY <2>2 DEF Awaited
    <3>2. /\ Within(StatsOf(device), ReadingsOf(Excused(device)))
          /\ \A f \in StatsFields : f \in Excused(device) \/ f \in DOMAIN StatsOf(device)
      BY <2>3, FullStages DEF FullInv, ReplyInv, ShowTypeOK
    <3> QED
      BY <2>3, <3>1, <3>2
  <2> QED
    BY <1>4, <2>1, <2>2, <2>3
<1>8. CASE Reply \/ Display
  <2>1. /\ stage \in {"reply", "print"} /\ stage' \in {"print", "shown"}
        /\ UNCHANGED <<device, failed, info>>
    BY <1>8 DEF Reply, Display
  <2>2. Awaited(device, stage) = Awaited(device, stage')
    BY <2>1 DEF Awaited
  <2> QED
    BY <1>1, <2>1, <2>2 DEF FullInv
<1>9. CASE UNCHANGED showVars
  BY <1>1, <1>9 DEF showVars, FullInv
<1> QED
  BY <1>2, <1>3, <1>5, <1>6, <1>7, <1>8, <1>9 DEF ShowNext

\* A GPU that has every reading, and answers every call, is reported in full
\* through each back end, whatever is filtered: what the stages mark as not
\* available they also read, after (smi_gpu_fill_spec, smi_gpu_fill_status,
\* smi_gpu_fill_stats).
THEOREM HealthyIsReported == ShowSpec => []HealthyIsFull
<1>1. FullInv => HealthyIsFull
  <2> SUFFICES ASSUME FullInv, stage \in {"reply", "print", "shown"}, failed = 0,
                      device.lacks = {}, ~ device.parent,
                      NEW f \in Fields, f \notin Excused(device)
               PROVE  info[f] \in Origins(f)
    BY DEF HealthyIsFull, Excused
  <2>1. Awaited(device, stage) = {}
    BY DEF Awaited
  <2>2. Within(info, ReadingsOf(Excused(device) \union Awaited(device, stage))) /\ DOMAIN info = Fields
    BY DEF FullInv, ReplyInv, ShowTypeOK
  <2> QED
    BY <2>1, <2>2 DEF Within, ReadingsOf
<1> QED
  BY <1>1, FullInvInit, FullInvStep, PTL DEF ShowSpec

-----------------------------------------------------------------------------
(***************************************************************************)
(* Watches.  What was sampled at a slow tick is kept, so what a slow       *)
(* attribute is allowed does not depend on the calls of the last tick;     *)
(* what a fast one is allowed does.                                        *)
(***************************************************************************)
Bulk(d) == IF d.backend = "wsl" THEN WslCached(d) ELSE AmdsmiCached(d)

SlowValues(backend) ==
    [a \in SlowAttrs |->
         ReadingOf(a) \union {"zero", "absent", "na64"} \union
         (IF a \in ClockRangeFields /\ backend # "gim" THEN {"na32"} ELSE {}) \union
         (IF a = "free_vram" THEN {"junk"} ELSE {})]

FastValues(d) ==
    [a \in FastAttrs |->
         ReadingOf(a) \union {"absent", "na64"} \union
         (IF d.backend = "wsl" THEN {"zero"} ELSE {}) \union
         (IF d.backend = "gim"
          THEN (IF a \in {"memory_clock", "gpu_temp"} THEN {"na16"} ELSE {})
          ELSE (IF a = "power" THEN {"na32"} ELSE {}) \union
               (IF a = "gfx_activity" /\ ~ Bulk(d) THEN {"na16"} ELSE {}) \union
               (IF a = "nack_count" /\ d.backend = "wsl" THEN {"na32"} ELSE {})) \union
         (IF \/ a = "gpu_clock" /\ ~ Bulk(d)
             \/ a = "memory_clock" /\ "mem_clock" \in d.lacks
          THEN {"junk"} ELSE {})]

RowValues(d) ==
    [a \in WatchFields |-> IF a \in SlowAttrs THEN SlowValues(d.backend)[a] ELSE FastValues(d)[a]]

\* The attributes, name by name.
LEMMA AttrNames ==
  /\ ClockRangeFields = {"gfx_clock_range", "mem_clock_range", "video_clock_range",
                         "data_clock_range"}
  /\ FastAttrs = {"hbm_temp", "vcn_activity", "jpeg_activity", "xgmi_link", "gfx_busy",
                  "vcn_busy", "jpeg_busy", "umc_activity", "mm_activity", "avg_power",
                  "gfx_voltage", "soc_voltage", "mem_voltage", "energy", "replay_count",
                  "recovery_count", "rollover_count", "nack_count", "package_power",
                  "vram_bandwidth", "edge_temp", "gpu_clock", "memory_clock", "memory_temp",
                  "gpu_temp", "power", "gfx_activity"}
  /\ SlowAttrs = {"gfx_clock", "mem_clock", "video_clock", "data_clock", "soc_clock",
                  "fabric_clock", "gfx_clock_range", "mem_clock_range", "video_clock_range",
                  "data_clock_range", "violation_counter", "residency_acc", "vr_acc", "hbm_acc",
                  "residency_per", "gfx_limit_acc", "low_util_acc", "gfx_limit_per",
                  "low_util_per", "pcie_usage", "pcie_bandwidth", "used_vram", "ecc_block",
                  "ecc_total", "xgmi_requests", "xgmi_responses", "xgmi_throughput",
                  "total_vram", "free_vram", "pcie_speed", "pcie_max_speed"}
  /\ SlowAttrs \intersect FastAttrs = {}
  /\ WatchFields = FastAttrs \union SlowAttrs
<1>1. ClockRangeFields = {"gfx_clock_range", "mem_clock_range", "video_clock_range",
                          "data_clock_range"}
  BY DEF ClockRangeFields, RangeOf
<1> QED
  BY <1>1 DEF FastAttrs, WatchArrays, BulkScalars, WithFallback, SlowAttrs, ClockList,
     ClockFields, ViolationFields, WatchFields

\* The readings and sentinels an attribute is allowed.
LEMMA RowValue ==
  ASSUME NEW d, NEW a \in WatchFields
  PROVE  /\ "na64" \in RowValues(d)[a] /\ "absent" \in RowValues(d)[a]
         /\ a \in SlowAttrs \/ d.backend = "wsl" => "zero" \in RowValues(d)[a]
         /\ ReadingOf(a) \subseteq RowValues(d)[a]
         /\ a \in ClockRangeFields /\ d.backend # "gim" => "na32" \in RowValues(d)[a]
         /\ a = "free_vram" => "junk" \in RowValues(d)[a]
         /\ a = "power" /\ d.backend # "gim" => "na32" \in RowValues(d)[a]
         /\ a = "nack_count" /\ d.backend = "wsl" => "na32" \in RowValues(d)[a]
         /\ a = "gfx_activity" /\ d.backend # "gim" /\ ~ Bulk(d) => "na16" \in RowValues(d)[a]
         /\ a = "gpu_clock" /\ ~ Bulk(d) => "junk" \in RowValues(d)[a]
         /\ a = "memory_clock" /\ "mem_clock" \in d.lacks => "junk" \in RowValues(d)[a]
         /\ a \in {"memory_clock", "gpu_temp"} /\ d.backend = "gim" => "na16" \in RowValues(d)[a]
<1>1. CASE a \in SlowAttrs
  <2>1. RowValues(d)[a] = SlowValues(d.backend)[a] /\ a \notin FastAttrs
    BY <1>1, AttrNames DEF RowValues
  <2> QED
    BY <1>1, <2>1, AttrNames DEF SlowValues
<1>2. CASE a \in FastAttrs
  <2>1. RowValues(d)[a] = FastValues(d)[a] /\ a \notin SlowAttrs
    BY <1>2, AttrNames DEF RowValues
  <2> QED
    BY <1>2, <2>1, AttrNames DEF FastValues
<1> QED
  BY <1>1, <1>2, AttrNames

\* What a reset leaves.
LEMMA ResetValues ==
  ASSUME NEW seed, DOMAIN seed = WatchFields
  PROVE  /\ DOMAIN WatchReset(seed) = WatchFields
         /\ \A a \in SlowAttrs : WatchReset(seed)[a] = seed[a]
         /\ \A a \in FastAttrs : WatchReset(seed)[a] \in {"na64", "absent"}
<1> DEFINE scalars == All(FastAttrs \ WatchArrays, "na64")
           arrays  == All(WatchArrays, "absent")
           reset   == scalars ++ arrays
<1>1. WatchReset(seed) = Update(seed, reset)
  BY DEF WatchReset
<1>2. /\ \A a : a \in DOMAIN reset <=> a \in FastAttrs
      /\ \A a \in FastAttrs : reset[a] \in {"na64", "absent"}
  <2>1. /\ DOMAIN scalars = FastAttrs \ WatchArrays /\ DOMAIN arrays = WatchArrays
        /\ \A a \in DOMAIN scalars : scalars[a] = "na64"
        /\ \A a \in DOMAIN arrays : arrays[a] = "absent"
    BY DEF All
  <2>2. WatchArrays \subseteq FastAttrs
    BY DEF FastAttrs
  <2> HIDE DEF scalars, arrays
  <2> QED
    BY <2>1, <2>2, OverFields
<1> HIDE DEF reset
<1> QED
  BY <1>1, <1>2, UpdateFields, AttrNames DEF WatchFields

\* The reading an attribute is about, name by name.
LEMMA ReadingNames ==
  /\ \A a \in WatchFields \ (ClockRangeFields \union
              {"gpu_clock", "memory_clock", "gpu_temp", "power", "avg_power"}) : ReadingOf(a) = {a}
  /\ ReadingOf("gpu_clock") = {"gfx_clock"} /\ ReadingOf("memory_clock") = {"mem_clock"}
  /\ ReadingOf("gpu_temp") = {"edge_temp", "junction_temp"}
  /\ ReadingOf("power") = {"avg_power", "package_power"}
  /\ ReadingOf("avg_power") = {"avg_power", "package_power"}
  /\ ReadingOf("gfx_clock_range") = {"gfx_range"} /\ ReadingOf("mem_clock_range") = {"mem_range"}
  /\ ReadingOf("video_clock_range") = {"video_range"}
  /\ ReadingOf("data_clock_range") = {"data_range"}
<1>1. \A a \in ClockRangeFields : a \notin {"gpu_clock", "memory_clock", "gpu_temp", "power", "avg_power"}
  BY AttrNames
<1>2. /\ "gpu_clock" \notin ClockRangeFields /\ "memory_clock" \notin ClockRangeFields
      /\ "gpu_temp" \notin ClockRangeFields /\ "power" \notin ClockRangeFields
      /\ "avg_power" \notin ClockRangeFields
  BY AttrNames
<1>3. \A a \in ClockRangeFields :
          ReadingOf(a) = {SpecRangeOf[c] : c \in {x \in DOMAIN RangeOf : RangeOf[x] = a}}
  BY <1>1 DEF ReadingOf
<1>4. /\ ReadingOf("gfx_clock_range") = {"gfx_range"} /\ ReadingOf("mem_clock_range") = {"mem_range"}
      /\ ReadingOf("video_clock_range") = {"video_range"}
      /\ ReadingOf("data_clock_range") = {"data_range"}
  BY <1>3, AttrNames DEF RangeOf, SpecRangeOf
<1>5. \A a \in WatchFields \ (ClockRangeFields \union
              {"gpu_clock", "memory_clock", "gpu_temp", "power", "avg_power"}) : ReadingOf(a) = {a}
  BY DEF ReadingOf
<1> QED
  BY <1>2, <1>4, <1>5 DEF ReadingOf

\* What is left when the fast attributes are reset.
LEMMA ResetFits ==
  ASSUME NEW d, NEW seed, DOMAIN seed = WatchFields, Within(seed, SlowValues(d.backend))
  PROVE  /\ DOMAIN WatchReset(seed) = WatchFields
         /\ Within(WatchReset(seed), RowValues(d))
         /\ \A a \in SlowAttrs : WatchReset(seed)[a] = seed[a]
<1>1. PICK w : w = WatchReset(seed)
  OBVIOUS
<1>2. /\ DOMAIN w = WatchFields
      /\ \A a \in SlowAttrs : w[a] = seed[a]
      /\ \A a \in FastAttrs : w[a] \in {"na64", "absent"}
  BY <1>1, ResetValues
<1>3. \A a \in SlowAttrs : w[a] \in RowValues(d)[a]
  <2>1. \A a \in SlowAttrs : RowValues(d)[a] = SlowValues(d.backend)[a] /\ a \in WatchFields
    BY DEF RowValues, WatchFields
  <2>2. \A a \in SlowAttrs : seed[a] \in SlowValues(d.backend)[a]
    BY <2>1 DEF Within, SlowValues
  <2> QED
    BY <1>2, <2>1, <2>2
<1>4. \A a \in FastAttrs : w[a] \in RowValues(d)[a]
  BY <1>2, RowValue DEF WatchFields
<1> QED
  BY <1>1, <1>2, <1>3, <1>4 DEF Within, WatchFields

\* The calls of a slow tick,
LEMMA WatchCallsFit ==
  ASSUME NEW d, NEW seed, DOMAIN seed = WatchFields, Within(seed, SlowValues(d.backend))
  PROVE  /\ Within(WatchEcc(d), RowValues(d)) /\ Within(WatchEccTotal(d), RowValues(d))
         /\ Within(WatchViolation(d), RowValues(d)) /\ Within(WatchMemory(d, seed), RowValues(d))
         /\ Within(WatchUsed(d), RowValues(d)) /\ Within(WatchPcie(d), RowValues(d))
         /\ Within(WatchXgmi(d, "xgmi_requests"), RowValues(d))
         /\ Within(WatchXgmi(d, "xgmi_responses"), RowValues(d))
         /\ Within(WatchThroughput(d), RowValues(d))
<1>1. DOMAIN RowValues(d) = WatchFields
  BY DEF RowValues
<1> DEFINE own == {"ecc_block", "ecc_total", "used_vram", "total_vram", "free_vram", "pcie_speed",
                   "pcie_max_speed", "pcie_usage", "pcie_bandwidth", "xgmi_requests",
                   "xgmi_responses", "xgmi_throughput", "violation_counter", "residency_acc",
                   "vr_acc", "hbm_acc", "residency_per", "gfx_limit_acc", "low_util_acc",
                   "gfx_limit_per", "low_util_per"}
<1>2. \A a \in own : {a, "zero", "na64"} \subseteq RowValues(d)[a]
  <2>1. \A a \in own : a \in SlowAttrs /\ a \in WatchFields /\ ReadingOf(a) = {a}
    BY AttrNames, ReadingNames
  <2> QED
    BY <2>1, RowValue
<1>3. "junk" \in RowValues(d)["free_vram"]
  BY RowValue, AttrNames
<1>4. ViolationFields \subseteq own
  BY DEF ViolationFields
<1>5. Within(WatchEcc(d), RowValues(d)) /\ Within(WatchEccTotal(d), RowValues(d))
  <2>1. /\ Within([ecc_block |-> Read(d, "ecc_block", "zero")], RowValues(d))
        /\ Within([ecc_total |-> Ask(d, "ecc_count", "ecc_total", "zero", "na64")], RowValues(d))
    BY <1>2 DEF Within, Read, Ask
  <2> QED
    BY <2>1, WhenWithin, Zenon DEF WatchEcc, WatchEccTotal
<1>6. Within(WatchViolation(d), RowValues(d))
  <2>1. Within([f \in ViolationFields |-> Read(d, f, "na64")], RowValues(d))
    BY <1>2, <1>4 DEF Within, Read
  <2> QED
    BY <2>1, WhenWithin, Zenon DEF WatchViolation
<1>7. Within(WatchMemory(d, seed), RowValues(d))
  <2> DEFINE total == Ask(d, "memory_total", "total_vram", "zero", seed["total_vram"])
             used  == Ask(d, "memory_usage", "used_vram", "zero", "zero")
             sizes == [total_vram |-> total, free_vram |-> Derived("free_vram", {total, used})]
             speed == [f \in {"pcie_speed", "pcie_max_speed"} \ d.lacks |-> f]
  <2>1. seed["total_vram"] \in RowValues(d)["total_vram"]
    <3>1. /\ "total_vram" \in SlowAttrs /\ "total_vram" \in WatchFields
          /\ RowValues(d)["total_vram"] = SlowValues(d.backend)["total_vram"]
      BY AttrNames DEF RowValues
    <3> QED
      BY <3>1 DEF Within, SlowValues
  <2>2. Within(sizes, RowValues(d))
    <3>1. total \in RowValues(d)["total_vram"]
      BY <1>2, <2>1 DEF Read, Ask
    <3>2. \A from : Derived("free_vram", from) \in RowValues(d)["free_vram"]
      BY <1>2, <1>3 DEF Derived
    <3> HIDE DEF total, used
    <3> QED
      BY <3>1, <3>2 DEF Within
  <2>3. Within(speed, RowValues(d))
    BY <1>2 DEF Within
  <2> QED
    BY <2>2, <2>3, OverWithin, WhenWithin, Zenon DEF WatchMemory
<1>8. Within(WatchUsed(d), RowValues(d)) /\ Within(WatchPcie(d), RowValues(d))
  <2>1. /\ Within([used_vram |-> Read(d, "used_vram", "zero")], RowValues(d))
        /\ Within([pcie_usage |-> "zero"], RowValues(d))
        /\ Within([pcie_bandwidth |-> Widen(Read(d, "pcie_bandwidth", "na32"), "na32", "na64")],
                  RowValues(d))
    BY <1>2 DEF Within, Read, Widen
  <2> QED
    BY <2>1, WhenWithin, OverWithin, Zenon DEF WatchUsed, WatchPcie
<1>9. /\ Within(WatchXgmi(d, "xgmi_requests"), RowValues(d))
      /\ Within(WatchXgmi(d, "xgmi_responses"), RowValues(d))
      /\ Within(WatchThroughput(d), RowValues(d))
  <2>1. /\ Within([g \in {"xgmi_requests"} |-> g], RowValues(d))
        /\ Within([g \in {"xgmi_responses"} |-> g], RowValues(d))
        /\ Within([g \in {"xgmi_throughput"} |-> g], RowValues(d))
    BY <1>2 DEF Within
  <2> QED
    BY <2>1, WhenWithin, Zenon DEF WatchXgmi, WatchThroughput
<1> QED
  BY <1>5, <1>6, <1>7, <1>8, <1>9

\* and its list of clocks.
LEMMA WatchClocksFit ==
  ASSUME NEW d, d.backend # "gim", NEW m, IsTable(m, d.backend)
  PROVE  Within(WatchClocks(d, m), RowValues(d))
<1>1. DOMAIN RowValues(d) = WatchFields
  BY DEF RowValues
<1> DEFINE clocks == [c \in DOMAIN RangeOf |->
                          IF Stored(d, m, c) THEN Widen(m[c], "na16", "na64") ELSE "absent"]
           ranges == [r \in ClockRangeFields |->
                          LET c == CHOOSE x \in DOMAIN RangeOf : RangeOf[x] = r
                          IN IF Stored(d, m, c) THEN WatchRange(d, c) ELSE "absent"]
           others == [soc_clock |-> IF "clk_freq_soc" \in d.fails THEN "absent"
                                    ELSE Widen(m["soc_clock"], "na16", "na64"),
                      fabric_clock |-> IF "clk_freq_df" \in d.fails \/ "fabric_clock" \in d.lacks
                                       THEN "absent" ELSE "fabric_clock"]
<1>2. WatchClocks(d, m) = clocks ++ ranges ++ others
  BY DEF WatchClocks
<1>3. \A c \in {"gfx_clock", "mem_clock", "video_clock", "data_clock", "soc_clock"} :
          {Widen(m[c], "na16", "na64"), "absent"} \subseteq RowValues(d)[c]
  <2>1. \A c \in {"gfx_clock", "mem_clock", "video_clock", "data_clock", "soc_clock"} :
            m[c] \in {c, "zero", "na16"}
    BY TableWidths, TableEntry DEF Tabled
  <2>2. \A c \in {"gfx_clock", "mem_clock", "video_clock", "data_clock", "soc_clock"} :
            {c, "zero", "na64", "absent"} \subseteq RowValues(d)[c]
    <3>1. \A c \in {"gfx_clock", "mem_clock", "video_clock", "data_clock", "soc_clock"} :
              c \in SlowAttrs /\ c \in WatchFields /\ ReadingOf(c) = {c}
      BY AttrNames, ReadingNames
    <3> QED
      BY <3>1, RowValue
  <2> QED
    BY <2>1, <2>2 DEF Widen
<1>4. Within(clocks, RowValues(d))
  <2>1. DOMAIN clocks = {"gfx_clock", "mem_clock", "video_clock", "data_clock"}
    BY DEF RangeOf
  <2> QED
    BY <1>3, <2>1 DEF Within
<1>5. Within(ranges, RowValues(d))
  <2> SUFFICES ASSUME NEW r \in ClockRangeFields
               PROVE  {WatchRange(d, CHOOSE x \in DOMAIN RangeOf : RangeOf[x] = r), "absent"}
                          \subseteq RowValues(d)[r]
    BY DEF Within
  <2> DEFINE c == CHOOSE x \in DOMAIN RangeOf : RangeOf[x] = r
  <2>1. c \in DOMAIN RangeOf /\ RangeOf[c] = r
    BY ClockOfRange
  <2> HIDE DEF c
  <2>2. r \in WatchFields /\ r \in SlowAttrs
    BY AttrNames
  <2>3. SpecRangeOf[c] \in ReadingOf(r)
    <3>1. c \in {"gfx_clock", "mem_clock", "video_clock", "data_clock"}
      BY <2>1 DEF RangeOf
    <3> QED
      BY <2>1, <3>1, ReadingNames DEF RangeOf, SpecRangeOf
  <2>4. WatchRange(d, c) \in {SpecRangeOf[c], "na32", "na64"}
    BY DEF WatchRange, Ask, Read
  <2>5. {SpecRangeOf[c], "na32", "na64", "absent"} \subseteq RowValues(d)[r]
    BY <2>2, <2>3, RowValue
  <2> QED
    BY <2>4, <2>5 DEF c
<1>6. Within(others, RowValues(d))
  <2>1. {"fabric_clock", "absent"} \subseteq RowValues(d)["fabric_clock"]
    BY AttrNames, ReadingNames, RowValue
  <2> QED
    BY <1>3, <2>1 DEF Within
<1> HIDE DEF clocks, ranges, others
<1> QED
  BY <1>2, <1>4, <1>5, <1>6, OverWithin

\* What every tick takes from the metrics table,
LEMMA WatchTableFits ==
  ASSUME NEW d, d.backend # "gim", NEW m, IsTable(m, d.backend)
  PROVE  Within(WatchBulk(m), RowValues(d)) /\ Within(WatchArraysOf(m), RowValues(d))
<1>1. DOMAIN RowValues(d) = WatchFields
  BY DEF RowValues
<1>2. WatchArrays \union BulkScalars \subseteq FastAttrs
  BY DEF FastAttrs
<1>3. \A f \in WatchArrays \union BulkScalars :
          /\ f \in WatchFields /\ f \in ReadingOf(f)
          /\ f \in Metrics16 \union Metrics64 \union {"gfx_busy"}
  <2>1. \A f \in WatchArrays \union BulkScalars :
            /\ f \in ReadingOf(f) /\ f \in Metrics16 \union Metrics64 \union {"gfx_busy"}
    BY ReadingNames, TableWidths, AttrNames DEF WatchArrays, BulkScalars
  <2> QED
    BY <1>2, <2>1, AttrNames
<1>4. \A f \in WatchArrays \union BulkScalars :
          {f, "na64"} \subseteq RowValues(d)[f] /\ (d.backend = "wsl" => "zero" \in RowValues(d)[f])
  BY <1>3, RowValue
<1>5. \A f \in WatchArrays \union BulkScalars : m[f] = "zero" => "zero" \in RowValues(d)[f]
  <2>1. \A f \in WatchArrays \union BulkScalars : f # "throttling"
    BY DEF WatchArrays, BulkScalars
  <2> QED
    BY <1>3, <1>4, <2>1, TableEntry DEF Tabled
<1>6. Within(WatchBulk(m), RowValues(d))
  <2>1. \A f \in BulkScalars : Widen(m[f], "na16", "na64") \in RowValues(d)[f]
    <3>1. \A f \in BulkScalars \ {"nack_count"} : m[f] \in {f, "zero", "na16", "na64"}
      <4>1. \A f \in BulkScalars \ {"nack_count"} : f \notin Wsl32 /\ f # "gfx_busy"
        BY DEF BulkScalars, Wsl32
      <4> QED
        BY <1>3, <4>1, TableEntry DEF Tabled
    <3>2. /\ m["nack_count"] \in {"nack_count", "zero", "na64", "na32"}
          /\ m["nack_count"] = "na32" => "na32" \in RowValues(d)["nack_count"]
      <4>1. "nack_count" \in Tabled /\ "nack_count" \in Wsl32 /\ "nack_count" \in WatchFields
        BY TableWidths, AttrNames DEF Tabled, Wsl32
      <4> QED
        BY <4>1, TableEntry, RowValue
    <3> QED
      BY <1>4, <1>5, <3>1, <3>2 DEF Widen
  <2> QED
    BY <2>1 DEF Within, WatchBulk, Widened
<1>7. Within(WatchArraysOf(m), RowValues(d))
  <2>1. \A f \in WatchArrays :
            Widen(Widen(m[f], "na16", "na64"), "na32", "na64") \in RowValues(d)[f]
    <3>1. \A f \in WatchArrays : m[f] \in {f, "zero", "na16", "na64", "na32"}
      <4>1. \A f \in WatchArrays : f \notin Wsl32
        BY DEF WatchArrays, Wsl32
      <4> QED
        BY <1>3, <4>1, TableEntry DEF Tabled
    <3> QED
      BY <1>4, <1>5, <3>1 DEF Widen
  <2> QED
    BY <2>1 DEF Within, WatchArraysOf
<1> QED
  BY <1>6, <1>7

\* or from a call in its place,
LEMMA FallbacksFit ==
  ASSUME NEW d, d.backend # "gim", NEW m, IsTable(m, d.backend)
  PROVE  Within(WatchFallbacks(d, Bulk(d), m), RowValues(d))
<1>1. DOMAIN RowValues(d) = WatchFields
  BY DEF RowValues
<1>2. \A a \in {"gpu_clock", "memory_clock", "memory_temp", "gpu_temp", "power", "gfx_activity"} :
          /\ a \in WatchFields
          /\ ReadingOf(a) \union {"na64"} \subseteq RowValues(d)[a]
          /\ d.backend = "wsl" => "zero" \in RowValues(d)[a]
  BY AttrNames, RowValue
<1>3. \A f \in {"gfx_clock", "mem_clock", "memory_temp", "edge_temp", "avg_power",
                "package_power", "gfx_activity"} :
          m[f] \in {f, "zero", "na16"} /\ (m[f] = "zero" => d.backend = "wsl")
  BY TableWidths, TableEntry DEF Tabled
<1>4. /\ ReadingOf("memory_temp") = {"memory_temp"} /\ ReadingOf("gfx_activity") = {"gfx_activity"}
      /\ ReadingOf("gpu_clock") = {"gfx_clock"} /\ ReadingOf("memory_clock") = {"mem_clock"}
      /\ ReadingOf("gpu_temp") = {"edge_temp", "junction_temp"}
      /\ ReadingOf("power") = {"avg_power", "package_power"}
  BY ReadingNames, AttrNames
<1> DEFINE Wide(f) == Widen(m[f], "na16", "na64")
           power == IF m["avg_power"] = "na16" THEN Wide("package_power") ELSE m["avg_power"]
           clock == IF Bulk(d) THEN [gpu_clock |-> Wide("gfx_clock")]
                    ELSE When("clk_freq_sys" \notin d.fails,
                              [gpu_clock |-> Read(d, "gfx_clock", "junk")])
           mem   == IF Bulk(d) /\ m["mem_clock"] # "na16" THEN [memory_clock |-> m["mem_clock"]]
                    ELSE When("clk_freq_mem" \notin d.fails,
                              [memory_clock |-> Read(d, "mem_clock", "junk")])
           vram  == IF Bulk(d) THEN [memory_temp |-> Wide("memory_temp")]
                    ELSE When({"temp_vram", "memory_temp"} \intersect (d.fails \union d.lacks) = {},
                              [memory_temp |-> "memory_temp"])
           hot   == When({"temp_junction", "junction_temp"} \intersect (d.fails \union d.lacks) = {},
                         [gpu_temp |-> "junction_temp"])
           temp  == IF Bulk(d) /\ m["edge_temp"] \notin {"zero", "na16"}
                    THEN [gpu_temp |-> m["edge_temp"]]
                    ELSE When("temp_edge" \notin d.fails,
                              IF "edge_temp" \notin d.lacks THEN [gpu_temp |-> "edge_temp"] ELSE hot)
           watts == IF Bulk(d) /\ power \notin {"zero", "na64"} THEN [power |-> power]
                    ELSE When("power_info" \notin d.fails, [power |-> Read(d, "avg_power", "na32")])
                         ++ When(Bulk(d), [power |-> power])
           busy  == IF Bulk(d) THEN [gfx_activity |-> Wide("gfx_activity")]
                    ELSE When("gpu_activity" \notin d.fails,
                              [gfx_activity |-> Read(d, "gfx_activity", "na16")])
<1>5. WatchFallbacks(d, Bulk(d), m) = clock ++ mem ++ vram ++ temp ++ watts ++ busy
  BY DEF WatchFallbacks
<1>6. Within(clock, RowValues(d))
  <2>1. CASE Bulk(d)
    BY <1>2, <1>3, <1>4, <2>1 DEF Within, Widen
  <2>2. CASE ~ Bulk(d)
    <3>1. "junk" \in RowValues(d)["gpu_clock"]
      BY <1>2, <2>2, RowValue
    <3> QED
      BY <1>2, <1>4, <2>2, <3>1 DEF Within, When, Untouched, All, Read
  <2> QED
    BY <2>1, <2>2
<1>7. Within(mem, RowValues(d))
  <2>1. "mem_clock" \in d.lacks => "junk" \in RowValues(d)["memory_clock"]
    BY <1>2, RowValue
  <2>2. Within([memory_clock |-> Read(d, "mem_clock", "junk")], RowValues(d))
    BY <1>2, <1>4, <2>1 DEF Within, Read
  <2>3. m["mem_clock"] # "na16" => Within([memory_clock |-> m["mem_clock"]], RowValues(d))
    BY <1>2, <1>3, <1>4 DEF Within
  <2> QED
    BY <2>2, <2>3, WhenWithin, Zenon
<1>8. Within(vram, RowValues(d))
  <2>1. Within([memory_temp |-> Wide("memory_temp")], RowValues(d))
    BY <1>2, <1>3, <1>4 DEF Within, Widen
  <2>2. Within([memory_temp |-> "memory_temp"], RowValues(d))
    BY <1>2, <1>4 DEF Within
  <2> QED
    BY <2>1, <2>2, WhenWithin, Zenon
<1>9. Within(temp, RowValues(d))
  <2>1. /\ Within([gpu_temp |-> "edge_temp"], RowValues(d))
        /\ Within([gpu_temp |-> "junction_temp"], RowValues(d))
        /\ m["edge_temp"] \notin {"zero", "na16"} => Within([gpu_temp |-> m["edge_temp"]], RowValues(d))
    BY <1>2, <1>3, <1>4 DEF Within
  <2>2. Within(hot, RowValues(d))
    BY <2>1, WhenWithin, Zenon
  <2> HIDE DEF hot
  <2> QED
    BY <2>1, <2>2, WhenWithin, Zenon
<1>10. Within(watts, RowValues(d))
  <2>1. power \in RowValues(d)["power"]
    BY <1>2, <1>3, <1>4 DEF Widen
  <2>2. "na32" \in RowValues(d)["power"]
    BY <1>2, RowValue
  <2>3. Within([power |-> Read(d, "avg_power", "na32")], RowValues(d))
    BY <1>2, <1>4, <2>2 DEF Within, Read
  <2> HIDE DEF power
  <2>4. Within([power |-> power], RowValues(d))
    BY <2>1 DEF Within
  <2> QED
    BY <2>3, <2>4, WhenWithin, OverWithin, Zenon
<1>11. Within(busy, RowValues(d))
  <2>1. CASE Bulk(d)
    BY <1>2, <1>3, <1>4, <2>1 DEF Within, Widen
  <2>2. CASE ~ Bulk(d)
    <3>1. "na16" \in RowValues(d)["gfx_activity"]
      BY <1>2, <2>2, RowValue
    <3> QED
      BY <1>2, <1>4, <2>2, <3>1 DEF Within, When, Untouched, All, Read
  <2> QED
    BY <2>1, <2>2
<1> HIDE DEF clock, mem, vram, temp, watts, busy
<1> QED
  BY <1>5, <1>6, <1>7, <1>8, <1>9, <1>10, <1>11, OverWithin

\* and, for gim, from its stream.
LEMMA StreamFits ==
  ASSUME NEW d, d.backend = "gim"
  PROVE  Within(GimWatchStream(d), RowValues(d))
<1>1. DOMAIN RowValues(d) = WatchFields
  BY DEF RowValues
<1> DEFINE Metric(f, na) == IF f \in d.lacks THEN na ELSE f
           In(f) == f \notin d.lacks \/ d.sentinels
           from == [gpu_clock |-> "gfx_clock", memory_temp |-> "memory_temp",
                    power |-> "package_power", avg_power |-> "package_power",
                    gfx_activity |-> "gfx_activity", umc_activity |-> "umc_activity",
                    mm_activity |-> "mm_activity", gfx_voltage |-> "gfx_voltage",
                    soc_voltage |-> "soc_voltage", mem_voltage |-> "mem_voltage",
                    pcie_bandwidth |-> "pcie_bandwidth"]
           copied == [memory_clock |-> "mem_clock", gpu_temp |-> "junction_temp"]
           wide == [a \in {b \in DOMAIN from : In(from[b])} |-> Metric(from[a], "na64")]
           cut  == [a \in {b \in DOMAIN copied : In(copied[b])} |-> Metric(copied[a], "na16")]
<1>2. GimWatchStream(d) = When("metrics_stream" \notin d.fails, wide ++ cut)
  BY DEF GimWatchStream
<1>3. Within(wide, RowValues(d))
  <2>1. \A a \in DOMAIN from : from[a] \in ReadingOf(a) /\ a \in WatchFields
    BY ReadingNames, AttrNames
  <2>2. \A a \in DOMAIN from : {from[a], "na64"} \subseteq RowValues(d)[a]
    BY <2>1, RowValue
  <2> HIDE DEF from
  <2> QED
    BY <2>2 DEF Within
<1>4. Within(cut, RowValues(d))
  <2>1. \A a \in DOMAIN copied : a \in WatchFields /\ copied[a] \in ReadingOf(a)
    BY ReadingNames, AttrNames
  <2>2. \A a \in DOMAIN copied : {copied[a], "na16"} \subseteq RowValues(d)[a]
    BY <2>1, RowValue
  <2> HIDE DEF copied
  <2> QED
    BY <2>2 DEF Within
<1> HIDE DEF wide, cut
<1> QED
  BY <1>2, <1>3, <1>4, OverWithin, WhenWithin, Zenon
-----------------------------------------------------------------------------
\* What a sample of amdsmi or wsl is made of at a slow tick.
SlowPart(d, seed, bulk, m) ==
    WatchEcc(d) ++ WatchEccTotal(d) ++ WatchViolation(d) ++ WatchMemory(d, seed) ++
    WatchUsed(d) ++ WatchPcie(d) ++ WatchXgmi(d, "xgmi_requests") ++
    WatchXgmi(d, "xgmi_responses") ++ WatchThroughput(d) ++ When(bulk, WatchClocks(d, m))

LEMMA SlowPartWithin ==
  ASSUME NEW d, NEW seed, NEW bulk, NEW m, NEW allowed,
         Within(WatchEcc(d), allowed), Within(WatchEccTotal(d), allowed),
         Within(WatchViolation(d), allowed), Within(WatchMemory(d, seed), allowed),
         Within(WatchUsed(d), allowed), Within(WatchPcie(d), allowed),
         Within(WatchXgmi(d, "xgmi_requests"), allowed),
         Within(WatchXgmi(d, "xgmi_responses"), allowed),
         Within(WatchThroughput(d), allowed), Within(WatchClocks(d, m), allowed)
  PROVE  Within(SlowPart(d, seed, bulk, m), allowed)
<1> DEFINE clocks == When(bulk, WatchClocks(d, m))
<1>1. Within(clocks, allowed)
  BY WhenWithin, Zenon
<1>2. SlowPart(d, seed, bulk, m) =
          WatchEcc(d) ++ WatchEccTotal(d) ++ WatchViolation(d) ++ WatchMemory(d, seed) ++
          WatchUsed(d) ++ WatchPcie(d) ++ WatchXgmi(d, "xgmi_requests") ++
          WatchXgmi(d, "xgmi_responses") ++ WatchThroughput(d) ++ clocks
  BY DEF SlowPart
<1> HIDE DEF clocks
<1> QED
  BY <1>1, <1>2, OverWithin

LEMMA AmdsmiWatchWithin ==
  ASSUME NEW d, NEW seed, NEW refresh, NEW bulk, NEW m, NEW allowed,
         Within(WatchReset(seed), allowed), refresh => Within(SlowPart(d, seed, bulk, m), allowed),
         Within(WatchBulk(m), allowed), Within(WatchArraysOf(m), allowed),
         Within(WatchFallbacks(d, bulk, m), allowed)
  PROVE  Within(AmdsmiWatch(d, seed, refresh, bulk, m), allowed)
<1> DEFINE slow == When(refresh, SlowPart(d, seed, bulk, m))
           tab  == When(bulk, WatchBulk(m) ++ WatchArraysOf(m))
<1>1. Within(slow, allowed)
  <2>1. CASE refresh
    BY <2>1 DEF When
  <2>2. CASE ~ refresh
    BY <2>2 DEF When, Within, Untouched, All
  <2> QED
    BY <2>1, <2>2, Zenon
<1>2. Within(tab, allowed)
  BY OverWithin, WhenWithin, Zenon
<1>3. AmdsmiWatch(d, seed, refresh, bulk, m)
          = Update(WatchReset(seed), slow ++ tab ++ WatchFallbacks(d, bulk, m))
  BY DEF AmdsmiWatch, SlowPart
<1> HIDE DEF slow, tab
<1> QED
  BY <1>1, <1>2, <1>3, OverWithin, UpdateWithin, Zenon

\* What one of gim is made of.
LEMMA GimWatchWithin ==
  ASSUME NEW d, NEW seed, NEW refresh, NEW allowed,
         Within(WatchReset(seed), allowed), Within(GimWatchStream(d), allowed),
         refresh => /\ Within(WatchEcc(d), allowed) /\ Within(WatchEccTotal(d), allowed)
                    /\ Within([pcie_usage |-> "zero"], allowed)
  PROVE  Within(GimWatch(d, seed, refresh), allowed)
<1> DEFINE slow == When(refresh, GimWatchEcc(d) ++ WatchEccTotal(d) ++ [pcie_usage |-> "zero"])
<1>1. Within(slow, allowed)
  <2>1. CASE refresh
    <3>1. WatchEcc(d) = GimWatchEcc(d)
      BY DEF WatchEcc, GimWatchEcc
    <3> QED
      BY <2>1, <3>1, OverWithin, WhenWithin, Zenon
  <2>2. CASE ~ refresh
    BY <2>2 DEF When, Within, Untouched, All
  <2> QED
    BY <2>1, <2>2, Zenon
<1>2. GimWatch(d, seed, refresh) = Update(WatchReset(seed), slow ++ GimWatchStream(d))
  BY DEF GimWatch
<1> HIDE DEF slow
<1> QED
  BY <1>1, <1>2, OverWithin, UpdateWithin, Zenon

\* The attributes whose readings last, and the values that make them last: a
\* reading that was had stays, and what the device lacks is never read.
Lasting(backend) ==
    SlowAttrs \ (ClockList \union {"ecc_total", "free_vram"} \union
                 (IF backend = "gim" THEN {"pcie_bandwidth"} ELSE {}))

LastingValues(d, seed) ==
    [a \in Lasting(d.backend) |->
         IF a \in d.lacks \union {"pcie_usage"} THEN SlowValues(d.backend)[a] \ {a}
         ELSE IF seed[a] = a THEN {a} ELSE SlowValues(d.backend)[a]]

\* What a tick that reads no slow attribute leaves.
Carried(backend, seed) ==
    [a \in SlowAttrs \ (IF backend = "gim" THEN {"pcie_bandwidth"} ELSE {}) |-> {seed[a]}]

LEMMA LastingNames ==
  ASSUME NEW b
  PROVE  /\ Lasting(b) \subseteq SlowAttrs
         /\ \A a \in Lasting(b) : ReadingOf(a) = {a}
         /\ Lasting(b) \subseteq
              {"violation_counter", "residency_acc", "vr_acc", "hbm_acc", "residency_per",
               "gfx_limit_acc", "low_util_acc", "gfx_limit_per", "low_util_per", "pcie_usage",
               "pcie_bandwidth", "used_vram", "ecc_block", "xgmi_requests", "xgmi_responses",
               "xgmi_throughput", "total_vram", "pcie_speed", "pcie_max_speed"}
<1>1. Lasting(b) \subseteq
        {"violation_counter", "residency_acc", "vr_acc", "hbm_acc", "residency_per",
         "gfx_limit_acc", "low_util_acc", "gfx_limit_per", "low_util_per", "pcie_usage",
         "pcie_bandwidth", "used_vram", "ecc_block", "xgmi_requests", "xgmi_responses",
         "xgmi_throughput", "total_vram", "pcie_speed", "pcie_max_speed"}
  BY AttrNames DEF Lasting, ClockList, ClockFields
<1>2. Lasting(b) \subseteq SlowAttrs
  BY DEF Lasting
<1> QED
  BY <1>1, <1>2, ReadingNames, AttrNames

\* A reading the device has may always be had, and what stands for one it does
\* not have stands for it.
LEMMA LastingValue ==
  ASSUME NEW d, NEW seed, NEW a \in Lasting(d.backend)
  PROVE  /\ a \notin d.lacks /\ a # "pcie_usage" => a \in LastingValues(d, seed)[a]
         /\ a \in d.lacks \/ a = "pcie_usage" =>
                "zero" \in LastingValues(d, seed)[a] /\ "na64" \in LastingValues(d, seed)[a]
<1>1. a \in SlowAttrs /\ ReadingOf(a) = {a} /\ a # "zero" /\ a # "na64"
  BY LastingNames
<1>2. {a, "zero", "na64"} \subseteq SlowValues(d.backend)[a]
  BY <1>1 DEF SlowValues
<1> QED
  BY <1>1, <1>2 DEF LastingValues

LEMMA LastingCalls ==
  ASSUME NEW d, NEW seed, DOMAIN seed = WatchFields, Within(seed, LastingValues(d, seed))
  PROVE  /\ Within(WatchEcc(d), LastingValues(d, seed))
         /\ Within(WatchEccTotal(d), LastingValues(d, seed))
         /\ Within(WatchViolation(d), LastingValues(d, seed))
         /\ Within(WatchMemory(d, seed), LastingValues(d, seed))
         /\ Within(WatchUsed(d), LastingValues(d, seed))
         /\ Within(WatchPcie(d), LastingValues(d, seed))
         /\ Within([pcie_usage |-> "zero"], LastingValues(d, seed))
         /\ Within(WatchXgmi(d, "xgmi_requests"), LastingValues(d, seed))
         /\ Within(WatchXgmi(d, "xgmi_responses"), LastingValues(d, seed))
         /\ Within(WatchThroughput(d), LastingValues(d, seed))
<1>1. DOMAIN LastingValues(d, seed) = Lasting(d.backend)
  BY DEF LastingValues
<1>2. PICK L : L = LastingValues(d, seed)
  OBVIOUS
<1>3. \A a \in Lasting(d.backend) :
          /\ a \notin d.lacks /\ a # "pcie_usage" => a \in L[a]
          /\ a \in d.lacks \/ a = "pcie_usage" => "zero" \in L[a] /\ "na64" \in L[a]
  BY <1>2, LastingValue
<1>4. /\ "ecc_total" \notin Lasting(d.backend) /\ "free_vram" \notin Lasting(d.backend)
      /\ DOMAIN L = Lasting(d.backend)
  BY <1>1, <1>2 DEF Lasting
<1>5. Within(WatchEcc(d), L) /\ Within(WatchEccTotal(d), L)
  <2>1. Within([ecc_block |-> Read(d, "ecc_block", "zero")], L)
    BY <1>3, <1>4 DEF Within, Read
  <2>2. Within(WatchEccTotal(d), L)
    BY <1>4 DEF Within, WatchEccTotal
  <2> QED
    BY <2>1, <2>2, WhenWithin, Zenon DEF WatchEcc
<1>6. Within(WatchViolation(d), L)
  <2>1. Within([f \in ViolationFields |-> Read(d, f, "na64")], L)
    <3>1. "pcie_usage" \notin ViolationFields
      BY DEF ViolationFields
    <3> QED
      BY <1>3, <1>4, <3>1 DEF Within, Read
  <2> QED
    BY <2>1, WhenWithin, Zenon DEF WatchViolation
<1>7. Within(WatchMemory(d, seed), L)
  <2> DEFINE total == Ask(d, "memory_total", "total_vram", "zero", seed["total_vram"])
             used  == Ask(d, "memory_usage", "used_vram", "zero", "zero")
             sizes == [total_vram |-> total, free_vram |-> Derived("free_vram", {total, used})]
             speed == [f \in {"pcie_speed", "pcie_max_speed"} \ d.lacks |-> f]
  <2>1. "total_vram" \in Lasting(d.backend) => total \in L["total_vram"]
    <3>1. "total_vram" \in Lasting(d.backend) => seed["total_vram"] \in L["total_vram"]
      BY <1>2, <1>4, LastingNames, AttrNames DEF Within
    <3> QED
      BY <1>3, <3>1 DEF Ask, Read
  <2>2. Within(sizes, L)
    <3> HIDE DEF total, used
    <3> QED
      BY <1>4, <2>1 DEF Within
  <2>3. Within(speed, L)
    BY <1>3, <1>4 DEF Within
  <2> QED
    BY <2>2, <2>3, OverWithin, WhenWithin, Zenon DEF WatchMemory
<1>8. Within(WatchUsed(d), L) /\ Within(WatchPcie(d), L) /\ Within([pcie_usage |-> "zero"], L)
  <2>1. /\ Within([used_vram |-> Read(d, "used_vram", "zero")], L)
        /\ Within([pcie_usage |-> "zero"], L)
        /\ Within([pcie_bandwidth |-> Widen(Read(d, "pcie_bandwidth", "na32"), "na32", "na64")], L)
    BY <1>3, <1>4 DEF Within, Read, Widen
  <2> QED
    BY <2>1, WhenWithin, OverWithin, Zenon DEF WatchUsed, WatchPcie
<1>9. /\ Within(WatchXgmi(d, "xgmi_requests"), L) /\ Within(WatchXgmi(d, "xgmi_responses"), L)
      /\ Within(WatchThroughput(d), L)
  <2>1. \A f \in {"xgmi_requests", "xgmi_responses", "xgmi_throughput"} :
            Within(WatchXgmi(d, f), L)
    BY <1>3, <1>4 DEF Within, WatchXgmi, When, Untouched, All
  <2> QED
    BY <2>1 DEF WatchThroughput
<1> QED
  BY <1>2, <1>5, <1>6, <1>7, <1>8, <1>9

\* What is written elsewhere is allowed.
LEMMA ElsewhereWithin ==
  ASSUME NEW u, NEW allowed, (DOMAIN u) \intersect (DOMAIN allowed) = {}
  PROVE  Within(u, allowed)
BY DEF Within

LEMMA WhenNarrow ==
  ASSUME NEW cond, NEW u, NEW S, DOMAIN u \subseteq S
  PROVE  DOMAIN When(cond, u) \subseteq S
BY DEF When, Untouched, All

\* Where the attributes of every tick are, and those of the clocks.
LEMMA PartFields ==
  ASSUME NEW d, NEW bulk, NEW m
  PROVE  /\ DOMAIN WatchBulk(m) \subseteq FastAttrs /\ DOMAIN WatchArraysOf(m) \subseteq FastAttrs
         /\ DOMAIN WatchFallbacks(d, bulk, m) \subseteq FastAttrs
         /\ DOMAIN GimWatchStream(d) \subseteq FastAttrs \union {"pcie_bandwidth"}
         /\ DOMAIN WatchClocks(d, m) \subseteq ClockList
<1>1. DOMAIN WatchBulk(m) \subseteq FastAttrs /\ DOMAIN WatchArraysOf(m) \subseteq FastAttrs
  BY DEF WatchBulk, WatchArraysOf, Widened, FastAttrs
<1>2. DOMAIN WatchFallbacks(d, bulk, m) \subseteq WithFallback
  <2> DEFINE Wide(f) == Widen(m[f], "na16", "na64")
             power == IF m["avg_power"] = "na16" THEN Wide("package_power") ELSE m["avg_power"]
             clock == IF bulk THEN [gpu_clock |-> Wide("gfx_clock")]
                      ELSE When("clk_freq_sys" \notin d.fails,
                                [gpu_clock |-> Read(d, "gfx_clock", "junk")])
             mem   == IF bulk /\ m["mem_clock"] # "na16" THEN [memory_clock |-> m["mem_clock"]]
                      ELSE When("clk_freq_mem" \notin d.fails,
                                [memory_clock |-> Read(d, "mem_clock", "junk")])
             vram  == IF bulk THEN [memory_temp |-> Wide("memory_temp")]
                      ELSE When({"temp_vram", "memory_temp"} \intersect (d.fails \union d.lacks) = {},
                                [memory_temp |-> "memory_temp"])
             hot   == When({"temp_junction", "junction_temp"} \intersect (d.fails \union d.lacks) = {},
                           [gpu_temp |-> "junction_temp"])
             temp  == IF bulk /\ m["edge_temp"] \notin {"zero", "na16"}
                      THEN [gpu_temp |-> m["edge_temp"]]
                      ELSE When("temp_edge" \notin d.fails,
                                IF "edge_temp" \notin d.lacks THEN [gpu_temp |-> "edge_temp"]
                                ELSE hot)
             single == When("power_info" \notin d.fails, [power |-> Read(d, "avg_power", "na32")])
             again == When(bulk, [power |-> power])
             watts == IF bulk /\ power \notin {"zero", "na64"} THEN [power |-> power]
                      ELSE single ++ again
             busy  == IF bulk THEN [gfx_activity |-> Wide("gfx_activity")]
                      ELSE When("gpu_activity" \notin d.fails,
                                [gfx_activity |-> Read(d, "gfx_activity", "na16")])
  <2>1. WatchFallbacks(d, bulk, m) = clock ++ mem ++ vram ++ temp ++ watts ++ busy
    BY DEF WatchFallbacks
  <2>2. /\ DOMAIN clock \subseteq WithFallback /\ DOMAIN mem \subseteq WithFallback
        /\ DOMAIN vram \subseteq WithFallback /\ DOMAIN busy \subseteq WithFallback
    BY DEF When, Untouched, All, WithFallback
  <2>3. DOMAIN temp \subseteq WithFallback
    BY DEF When, Untouched, All, WithFallback
  <2>4. DOMAIN watts \subseteq WithFallback
    <3>1. /\ DOMAIN single \subseteq WithFallback /\ DOMAIN again \subseteq WithFallback
          /\ DOMAIN [power |-> power] \subseteq WithFallback
      BY DEF When, Untouched, All, WithFallback
    <3> HIDE DEF single, again, power
    <3> QED
      BY <3>1, OverNarrow
  <2> HIDE DEF clock, mem, vram, temp, watts, busy
  <2> QED
    BY <2>1, <2>2, <2>3, <2>4, OverNarrow
<1>3. DOMAIN GimWatchStream(d) \subseteq FastAttrs \union {"pcie_bandwidth"}
  <2> DEFINE Metric(f, na) == IF f \in d.lacks THEN na ELSE f
             In(f) == f \notin d.lacks \/ d.sentinels
             from == [gpu_clock |-> "gfx_clock", memory_temp |-> "memory_temp",
                      power |-> "package_power", avg_power |-> "package_power",
                      gfx_activity |-> "gfx_activity", umc_activity |-> "umc_activity",
                      mm_activity |-> "mm_activity", gfx_voltage |-> "gfx_voltage",
                      soc_voltage |-> "soc_voltage", mem_voltage |-> "mem_voltage",
                      pcie_bandwidth |-> "pcie_bandwidth"]
             copied == [memory_clock |-> "mem_clock", gpu_temp |-> "junction_temp"]
             wide == [a \in {b \in DOMAIN from : In(from[b])} |-> Metric(from[a], "na64")]
             cut  == [a \in {b \in DOMAIN copied : In(copied[b])} |-> Metric(copied[a], "na16")]
  <2>1. GimWatchStream(d) = When("metrics_stream" \notin d.fails, wide ++ cut)
    BY DEF GimWatchStream
  <2>2. /\ DOMAIN wide \subseteq FastAttrs \union {"pcie_bandwidth"}
        /\ DOMAIN cut \subseteq FastAttrs \union {"pcie_bandwidth"}
    <3>1. /\ DOMAIN from \subseteq FastAttrs \union {"pcie_bandwidth"}
          /\ DOMAIN copied \subseteq FastAttrs \union {"pcie_bandwidth"}
      BY AttrNames
    <3> HIDE DEF from, copied
    <3> QED
      BY <3>1
  <2> HIDE DEF wide, cut
  <2> QED
    BY <2>1, <2>2, OverNarrow, WhenNarrow, Zenon
<1>4. DOMAIN WatchClocks(d, m) \subseteq ClockList
  <2> DEFINE clocks == [c \in DOMAIN RangeOf |->
                            IF Stored(d, m, c) THEN Widen(m[c], "na16", "na64") ELSE "absent"]
             ranges == [r \in ClockRangeFields |->
                            LET c == CHOOSE x \in DOMAIN RangeOf : RangeOf[x] = r
                            IN IF Stored(d, m, c) THEN WatchRange(d, c) ELSE "absent"]
             others == [soc_clock |-> IF "clk_freq_soc" \in d.fails THEN "absent"
                                      ELSE Widen(m["soc_clock"], "na16", "na64"),
                        fabric_clock |-> IF "clk_freq_df" \in d.fails \/ "fabric_clock" \in d.lacks
                                         THEN "absent" ELSE "fabric_clock"]
  <2>1. WatchClocks(d, m) = clocks ++ ranges ++ others
    BY DEF WatchClocks
  <2>2. /\ DOMAIN clocks \subseteq ClockList /\ DOMAIN ranges \subseteq ClockList
        /\ DOMAIN others \subseteq ClockList
    BY DEF RangeOf, ClockList, ClockFields
  <2> HIDE DEF clocks, ranges, others
  <2> QED
    BY <2>1, <2>2, OverNarrow
<1> QED
  BY <1>1, <1>2, <1>3, <1>4 DEF FastAttrs

\* The sum of the errors is written at every slow tick.
LEMMA SlowTotal ==
  ASSUME NEW d, NEW seed, NEW bulk, NEW m
  PROVE  /\ "ecc_total" \in DOMAIN SlowPart(d, seed, bulk, m)
         /\ SlowPart(d, seed, bulk, m)["ecc_total"] = Ask(d, "ecc_count", "ecc_total", "zero", "na64")
<1> DEFINE total == Ask(d, "ecc_count", "ecc_total", "zero", "na64")
           Total(u) == "ecc_total" \in DOMAIN u /\ u["ecc_total"] = total
<1>1. Total(WatchEcc(d) ++ WatchEccTotal(d))
  <2>1. "ecc_total" \notin DOMAIN WatchEcc(d)
    BY DEF WatchEcc, When, Untouched, All
  <2>2. Total(WatchEccTotal(d))
    BY DEF WatchEccTotal
  <2> QED
    BY <2>1, <2>2, OverFields
<1>2. \A u, v : Total(u) => Total(u ++ v)
  BY OverFields
<1> DEFINE clocks == When(bulk, WatchClocks(d, m))
<1>3. SlowPart(d, seed, bulk, m) =
          WatchEcc(d) ++ WatchEccTotal(d) ++ WatchViolation(d) ++ WatchMemory(d, seed) ++
          WatchUsed(d) ++ WatchPcie(d) ++ WatchXgmi(d, "xgmi_requests") ++
          WatchXgmi(d, "xgmi_responses") ++ WatchThroughput(d) ++ clocks
  BY DEF SlowPart
<1>4. Total(SlowPart(d, seed, bulk, m))
  <2> HIDE DEF clocks, Total
  <2> QED
    BY <1>1, <1>2, <1>3
<1> QED
  BY <1>4

\* The table a sample of amdsmi or wsl is made of.
TableOf(d) == IF d.backend = "wsl" THEN WslMetrics(d) ELSE AmdsmiMetrics(d)

LEMMA SampleParts ==
  ASSUME NEW d, d.backend \in Backends, NEW refresh
  PROVE  /\ d.backend # "gim" =>
                SampleOf(d, refresh) = AmdsmiWatch(d, slow_cache_, refresh, Bulk(d), TableOf(d))
         /\ d.backend = "gim" => SampleOf(d, refresh) = GimWatch(d, slow_cache_, refresh)
         /\ d.backend # "gim" => IsTable(TableOf(d), d.backend)
<1>1. WslWatch(d, slow_cache_, refresh)
          = AmdsmiWatch(d, slow_cache_, refresh, WslCached(d), WslMetrics(d))
  BY DEF WslWatch, AmdsmiWatch, WslWatchBulk, WslWatchEcc, WslWatchMemory, WslWatchClocks,
     WslWatchFallbacks, WslWatchScalars, WslWatchArrays, WslWatchViolation, WslWatchEccTotal,
     WslWatchXgmi, WslWatchThroughput
<1>2. d.backend # "gim" => IsTable(TableOf(d), d.backend)
  <2>1. IsTable(AmdsmiMetrics(d), "amdsmi") /\ IsTable(WslMetrics(d), "wsl")
    BY AmdsmiTable, WslTables
  <2> QED
    BY <2>1 DEF TableOf, Backends
<1> QED
  BY <1>1, <1>2 DEF SampleOf, Bulk, TableOf, Backends

\* What a sample holds.
LEMMA SampleFits ==
  ASSUME NEW d, d.backend \in Backends, NEW refresh \in BOOLEAN,
         DOMAIN slow_cache_ = WatchFields, Within(slow_cache_, SlowValues(d.backend)),
         Within(slow_cache_, LastingValues(d, slow_cache_))
  PROVE  /\ DOMAIN SampleOf(d, refresh) = WatchFields
         /\ Within(SampleOf(d, refresh), RowValues(d))
         /\ Within(SampleOf(d, refresh), LastingValues(d, slow_cache_))
         /\ ~ refresh => Within(SampleOf(d, refresh), Carried(d.backend, slow_cache_))
         /\ refresh => SampleOf(d, refresh)["ecc_total"]
                           = Ask(d, "ecc_count", "ecc_total", "zero", "na64")
<1> DEFINE reset == WatchReset(slow_cache_)
           lasting == LastingValues(d, slow_cache_)
           carried == Carried(d.backend, slow_cache_)
<1>1. /\ DOMAIN reset = WatchFields /\ Within(reset, RowValues(d))
      /\ \A a \in SlowAttrs : reset[a] = slow_cache_[a]
  BY ResetFits
<1>2. /\ DOMAIN lasting \subseteq SlowAttrs /\ DOMAIN carried \subseteq SlowAttrs
      /\ (DOMAIN lasting) \intersect ClockList = {}
      /\ d.backend = "gim" => "pcie_bandwidth" \notin (DOMAIN lasting) \union (DOMAIN carried)
      /\ SlowAttrs \intersect FastAttrs = {} /\ SlowAttrs \subseteq WatchFields
  BY LastingNames, AttrNames DEF LastingValues, Carried, Lasting
<1>3. Within(reset, lasting)
  <2> HIDE DEF reset, lasting
  <2> QED
    BY <1>1, <1>2 DEF Within, lasting
<1>4. Within(reset, carried)
  BY <1>1, <1>2 DEF Within, Carried
<1>5. CASE d.backend # "gim"
  <2> DEFINE m == TableOf(d)
  <2>1. IsTable(m, d.backend) /\ SampleOf(d, refresh) = AmdsmiWatch(d, slow_cache_, refresh, Bulk(d), m)
    BY <1>5, SampleParts
  <2> HIDE DEF m
  <2>2. DOMAIN SampleOf(d, refresh) = WatchFields
    BY <1>1, <2>1, UpdateFields DEF AmdsmiWatch
  <2>3. Within(SampleOf(d, refresh), RowValues(d))
    <3>1. Within(SlowPart(d, slow_cache_, Bulk(d), m), RowValues(d))
      BY <1>5, <2>1, WatchCallsFit, WatchClocksFit, SlowPartWithin
    <3>2. /\ Within(WatchBulk(m), RowValues(d)) /\ Within(WatchArraysOf(m), RowValues(d))
          /\ Within(WatchFallbacks(d, Bulk(d), m), RowValues(d))
      BY <1>5, <2>1, WatchTableFits, FallbacksFit
    <3> QED
      BY <1>1, <2>1, <3>1, <3>2, AmdsmiWatchWithin
  <2>4. /\ \A u : DOMAIN u \subseteq FastAttrs => Within(u, lasting) /\ Within(u, carried)
        /\ \A u : DOMAIN u \subseteq ClockList => Within(u, lasting)
    <3> HIDE DEF lasting, carried
    <3> QED
      BY <1>2 DEF Within
  <2>5. Within(SampleOf(d, refresh), lasting)
    <3>1. Within(SlowPart(d, slow_cache_, Bulk(d), m), lasting)
      <4>1. Within(WatchClocks(d, m), lasting)
        BY <2>4, PartFields
      <4> QED
        BY <4>1, LastingCalls, SlowPartWithin
    <3>2. /\ Within(WatchBulk(m), lasting) /\ Within(WatchArraysOf(m), lasting)
          /\ Within(WatchFallbacks(d, Bulk(d), m), lasting)
      BY <2>4, PartFields
    <3> HIDE DEF reset, lasting
    <3> QED
      BY <1>3, <2>1, <3>1, <3>2, AmdsmiWatchWithin DEF reset
  <2>6. ~ refresh => Within(SampleOf(d, refresh), carried)
    <3>1. /\ Within(WatchBulk(m), carried) /\ Within(WatchArraysOf(m), carried)
          /\ Within(WatchFallbacks(d, Bulk(d), m), carried)
      BY <2>4, PartFields
    <3> HIDE DEF reset, carried
    <3> QED
      BY <1>4, <2>1, <3>1, AmdsmiWatchWithin DEF reset
  <2>7. refresh => SampleOf(d, refresh)["ecc_total"]
                       = Ask(d, "ecc_count", "ecc_total", "zero", "na64")
    <3> SUFFICES ASSUME refresh
                 PROVE  SampleOf(d, refresh)["ecc_total"]
                            = Ask(d, "ecc_count", "ecc_total", "zero", "na64")
      OBVIOUS
    <3> DEFINE slow == When(refresh, SlowPart(d, slow_cache_, Bulk(d), m))
               tab  == When(Bulk(d), WatchBulk(m) ++ WatchArraysOf(m))
               new  == slow ++ tab ++ WatchFallbacks(d, Bulk(d), m)
    <3>1. SampleOf(d, refresh) = Update(reset, new)
      BY <2>1 DEF AmdsmiWatch, SlowPart
    <3>2. /\ "ecc_total" \in DOMAIN slow
          /\ slow["ecc_total"] = Ask(d, "ecc_count", "ecc_total", "zero", "na64")
      BY SlowTotal DEF When
    <3>3. /\ "ecc_total" \in DOMAIN new
          /\ new["ecc_total"] = Ask(d, "ecc_count", "ecc_total", "zero", "na64")
      <4> HIDE DEF slow, tab
      <4> QED
        BY <3>2, OverFields
    <3>4. "ecc_total" \in DOMAIN reset
      BY <1>1, AttrNames
    <3> HIDE DEF reset, new
    <3>5. Update(reset, new)["ecc_total"] = new["ecc_total"]
      BY <3>3, <3>4, UpdateFields
    <3> QED
      BY <3>1, <3>3, <3>5
  <2> QED
    BY <2>2, <2>3, <2>5, <2>6, <2>7
<1>6. CASE d.backend = "gim"
  <2>1. SampleOf(d, refresh) = GimWatch(d, slow_cache_, refresh)
    BY <1>6, SampleParts
  <2>2. DOMAIN SampleOf(d, refresh) = WatchFields
    BY <1>1, <2>1, UpdateFields DEF GimWatch
  <2>3. Within(SampleOf(d, refresh), RowValues(d))
    <3>1. Within([pcie_usage |-> "zero"], RowValues(d))
      <4>1. "pcie_usage" \in SlowAttrs /\ "pcie_usage" \in WatchFields
        BY AttrNames
      <4>2. "zero" \in RowValues(d)["pcie_usage"]
        BY <4>1, RowValue
      <4> QED
        BY <4>2 DEF Within
    <3> QED
      BY <1>1, <1>6, <2>1, <3>1, WatchCallsFit, StreamFits, GimWatchWithin
  <2>4. Within(GimWatchStream(d), lasting) /\ Within(GimWatchStream(d), carried)
    <3> HIDE DEF lasting, carried
    <3> QED
      BY <1>2, <1>6, PartFields DEF Within
  <2>5. Within(SampleOf(d, refresh), lasting)
    <3> HIDE DEF reset
    <3> QED
      BY <1>3, <2>1, <2>4, LastingCalls, GimWatchWithin DEF reset
  <2>6. ~ refresh => Within(SampleOf(d, refresh), carried)
    <3> HIDE DEF reset, carried
    <3> QED
      BY <1>4, <2>1, <2>4, GimWatchWithin DEF reset
  <2>7. refresh => SampleOf(d, refresh)["ecc_total"]
                       = Ask(d, "ecc_count", "ecc_total", "zero", "na64")
    <3> SUFFICES ASSUME refresh
                 PROVE  SampleOf(d, refresh)["ecc_total"]
                            = Ask(d, "ecc_count", "ecc_total", "zero", "na64")
      OBVIOUS
    <3> DEFINE slow == When(refresh, GimWatchEcc(d) ++ WatchEccTotal(d) ++ [pcie_usage |-> "zero"])
               new  == slow ++ GimWatchStream(d)
    <3>1. SampleOf(d, refresh) = Update(reset, new)
      BY <2>1 DEF GimWatch
    <3>2. /\ "ecc_total" \in DOMAIN slow
          /\ slow["ecc_total"] = Ask(d, "ecc_count", "ecc_total", "zero", "na64")
      <4>1. slow = GimWatchEcc(d) ++ WatchEccTotal(d) ++ [pcie_usage |-> "zero"]
        BY DEF When
      <4>2. "ecc_total" \notin DOMAIN GimWatchEcc(d)
        BY DEF GimWatchEcc, When, Untouched, All
      <4>3. /\ "ecc_total" \in DOMAIN WatchEccTotal(d)
            /\ WatchEccTotal(d)["ecc_total"] = Ask(d, "ecc_count", "ecc_total", "zero", "na64")
        BY DEF WatchEccTotal
      <4> HIDE DEF slow
      <4> QED
        BY <4>1, <4>2, <4>3, OverFields
    <3>3. /\ "ecc_total" \in DOMAIN new
          /\ new["ecc_total"] = Ask(d, "ecc_count", "ecc_total", "zero", "na64")
      <4> HIDE DEF slow
      <4> QED
        BY <3>2, OverFields
    <3>4. "ecc_total" \in DOMAIN reset
      BY <1>1, AttrNames
    <3> HIDE DEF reset, new
    <3>5. Update(reset, new)["ecc_total"] = new["ecc_total"]
      BY <3>3, <3>4, UpdateFields
    <3> QED
      BY <3>1, <3>3, <3>5
  <2> QED
    BY <2>2, <2>3, <2>5, <2>6, <2>7
<1> QED
  BY <1>5, <1>6
-----------------------------------------------------------------------------
\* The inductive invariant of a watch: what was sampled, and what was kept of it.
WatchInv ==
    /\ WatchShowTypeOK
    /\ {"backend", "lacks", "fails"} \subseteq DOMAIN watched
    /\ watched.backend \in Backends
    /\ Within(slow_cache_, SlowValues(watched.backend))
    /\ Within(slow_cache_, LastingValues(watched, slow_cache_))
    /\ slow_cache_["ecc_total"] = "zero" =>
           "ecc_total" \in watched.lacks \/ slow_cache_ = WatchCleared
    /\ \/ Within(stats_, RowValues(watched))
       \/ stats_ = WatchCleared /\ (tick = 0 \/ ~ GimWatched(watched))
    /\ stats_["ecc_total"] = "zero" =>
           \/ tick = 0 \/ ~ GimWatched(watched)
           \/ "ecc_total" \in watched.lacks \/ slow_cache_ = WatchCleared
    /\ \A a \in Lasting(watched.backend) : stats_[a] = a => slow_cache_[a] = a

\* Nothing read yet.
LEMMA ClearedFits ==
  ASSUME NEW d
  PROVE  /\ DOMAIN WatchCleared = WatchFields
         /\ Within(WatchCleared, SlowValues(d.backend))
         /\ Within(WatchCleared, LastingValues(d, WatchCleared))
         /\ \A a \in WatchFields : WatchCleared[a] \in {"zero", "absent"}
         /\ \A a \in Lasting(d.backend) : WatchCleared[a] # a
<1>1. /\ DOMAIN WatchCleared = WatchFields
      /\ \A a \in WatchFields : WatchCleared[a] \in {"zero", "absent"}
  BY DEF WatchCleared
<1>2. \A a \in SlowAttrs : {"zero", "absent"} \subseteq SlowValues(d.backend)[a] /\ a \in WatchFields
  BY AttrNames DEF SlowValues
<1>3. \A a \in Lasting(d.backend) : a \in SlowAttrs /\ a # "zero" /\ a # "absent"
  BY LastingNames
<1>4. \A a \in Lasting(d.backend) : WatchCleared[a] # a
  BY <1>1, <1>2, <1>3
<1>5. Within(WatchCleared, SlowValues(d.backend))
  BY <1>1, <1>2 DEF Within, SlowValues
<1>6. Within(WatchCleared, LastingValues(d, WatchCleared))
  <2>1. \A a \in Lasting(d.backend) : WatchCleared[a] \in SlowValues(d.backend)[a] \ {a}
    BY <1>1, <1>2, <1>3, <1>4
  <2> QED
    BY <1>4, <2>1 DEF Within, LastingValues
<1> QED
  BY <1>1, <1>4, <1>5, <1>6

LEMMA WatchInvInit == WatchShowInit => WatchInv
<1> SUFFICES ASSUME WatchShowInit PROVE WatchInv
  OBVIOUS
<1>1. /\ {"backend", "lacks", "fails"} \subseteq DOMAIN watched /\ watched.backend \in Backends
  BY DEF WatchShowInit, WatchedGpus, Device, Backends
<1>2. WatchShowTypeOK
  <2>1. DOMAIN WatchCleared = WatchFields
    BY DEF WatchCleared
  <2>2. 0 \in 0 .. MaxTicks /\ 0 \in 0 .. MaxWatchTrouble
    BY WatchShowAssumption
  <2> QED
    BY <2>1, <2>2 DEF WatchShowInit, WatchShowTypeOK
<1> QED
  BY <1>1, <1>2, ClearedFits DEF WatchShowInit, WatchInv

\* What a tick leaves, seen attribute by attribute: what it read, or what was kept.
LEMMA TickKeeps ==
  ASSUME WatchInv, NEW refresh \in BOOLEAN, WatchTick(refresh)
  PROVE  /\ WatchInv'
         /\ GimWatched(watched') =>
                \A a \in Lasting(watched.backend) : stats_[a] = a => stats_'[a] = a
<1>1. PICK fails \in Upto(MaxWatchTrouble - WatchTrouble, WatchCalls(watched.backend, refresh)) :
          LET d == [watched EXCEPT !.fails = fails]
          IN /\ watched' = d
             /\ unanswered' = unanswered + Cardinality(fails)
             /\ stats_' = IF GimWatched(d) THEN SampleOf(d, refresh) ELSE WatchCleared
             /\ slow_cache_' = IF refresh /\ GimWatched(d) THEN stats_' ELSE slow_cache_
  BY DEF WatchTick
<1>2. PICK d : d = [watched EXCEPT !.fails = fails]
  OBVIOUS
<1>3. /\ watched' = d /\ d.backend = watched.backend /\ d.lacks = watched.lacks
      /\ {"backend", "lacks", "fails"} \subseteq DOMAIN d
      /\ stats_' = IF GimWatched(d) THEN SampleOf(d, refresh) ELSE WatchCleared
      /\ slow_cache_' = IF refresh /\ GimWatched(d) THEN stats_' ELSE slow_cache_
      /\ tick' = tick + 1 /\ attr_id' = attr_id /\ refreshed' = refresh
  BY <1>1, <1>2 DEF WatchInv, WatchTick
<1>4. unanswered' \in 0 .. MaxWatchTrouble
  <2>1. MaxWatchTrouble - WatchTrouble \in Int /\ unanswered <= WatchTrouble /\ WatchTrouble \in Int
    BY WatchShowAssumption DEF WatchTrouble, WatchInv, WatchShowTypeOK
  <2>2. /\ Cardinality(fails) \in Nat
        /\ Cardinality(fails) = 0 \/ Cardinality(fails) <= MaxWatchTrouble - WatchTrouble
    BY <2>1, AtMost
  <2> QED
    BY <1>1, <2>1, <2>2, WatchShowAssumption DEF WatchInv, WatchShowTypeOK
<1>5. /\ DOMAIN slow_cache_ = WatchFields /\ Within(slow_cache_, SlowValues(d.backend))
      /\ LastingValues(d, slow_cache_) = LastingValues(watched, slow_cache_)
      /\ Within(slow_cache_, LastingValues(d, slow_cache_))
  BY <1>3 DEF WatchInv, WatchShowTypeOK, LastingValues
<1>6. tick' \in 0 .. MaxTicks /\ tick' # 0
  BY <1>3, WatchShowAssumption DEF WatchTick, WatchInv, WatchShowTypeOK
<1>7. \A a \in Lasting(d.backend) :
          a \in SlowAttrs /\ a \in WatchFields /\ ReadingOf(a) = {a}
  BY LastingNames, AttrNames
<1>8. CASE ~ GimWatched(d)
  <2>1. stats_' = WatchCleared /\ slow_cache_' = slow_cache_
    BY <1>3, <1>8
  <2>2. WatchShowTypeOK'
    BY <1>3, <1>4, <1>6, <2>1, ClearedFits DEF WatchInv, WatchShowTypeOK
  <2>3. \A a \in Lasting(d.backend) : stats_'[a] # a
    BY <2>1, ClearedFits
  <2> QED
    BY <1>3, <1>5, <1>8, <2>1, <2>2, <2>3 DEF WatchInv
<1>9. CASE GimWatched(d)
  <2>1. PICK s : s = SampleOf(d, refresh)
    OBVIOUS
  <2>2. stats_' = s /\ slow_cache_' = IF refresh THEN s ELSE slow_cache_
    BY <1>3, <1>9, <2>1
  <2>3. /\ DOMAIN s = WatchFields /\ Within(s, RowValues(d))
        /\ Within(s, LastingValues(d, slow_cache_))
        /\ ~ refresh => Within(s, Carried(d.backend, slow_cache_))
        /\ refresh => s["ecc_total"] = Ask(d, "ecc_count", "ecc_total", "zero", "na64")
    BY <1>3, <1>5, <2>1, SampleFits DEF WatchInv
  <2>4. WatchShowTypeOK'
    BY <1>3, <1>4, <1>6, <2>2, <2>3 DEF WatchInv, WatchShowTypeOK
  <2>5. Within(s, SlowValues(d.backend))
    <3>1. \A a \in SlowAttrs : a \in WatchFields /\ RowValues(d)[a] = SlowValues(d.backend)[a]
      BY AttrNames DEF RowValues
    <3> QED
      BY <2>3, <3>1 DEF Within, RowValues, SlowValues
  <2>6. \A a \in Lasting(d.backend) :
            /\ s[a] \in LastingValues(d, slow_cache_)[a] /\ s[a] \in SlowValues(d.backend)[a]
            /\ slow_cache_[a] \in LastingValues(d, slow_cache_)[a]
    BY <1>5, <1>7, <2>3, <2>5 DEF Within, LastingValues, SlowValues
  <2>7. \A a \in Lasting(d.backend) : slow_cache_[a] = a => s[a] = a
    BY <2>6 DEF LastingValues
  <2>8. Within(s, LastingValues(d, s))
    BY <2>3, <2>6 DEF Within, LastingValues
  <2>9. ~ refresh => \A a \in Lasting(d.backend) \union {"ecc_total"} : s[a] = slow_cache_[a]
    <3>1. \A a \in Lasting(d.backend) \union {"ecc_total"} :
              a \in DOMAIN Carried(d.backend, slow_cache_) /\ a \in WatchFields
      BY <1>7, AttrNames DEF Carried, Lasting
    <3> QED
      BY <2>3, <3>1 DEF Within, Carried
  <2>10. \A a \in Lasting(d.backend) : stats_'[a] = a => slow_cache_'[a] = a
    BY <2>2, <2>9
  <2>11. refresh /\ s["ecc_total"] = "zero" => "ecc_total" \in d.lacks
    BY <2>3 DEF Ask, Read
  <2>12. slow_cache_'["ecc_total"] = "zero" =>
             "ecc_total" \in d.lacks \/ slow_cache_' = WatchCleared
    BY <1>3, <2>2, <2>11 DEF WatchInv
  <2>13. stats_'["ecc_total"] = "zero" =>
             "ecc_total" \in d.lacks \/ slow_cache_' = WatchCleared
    BY <2>2, <2>9, <2>11, <2>12
  <2>14. Within(slow_cache_', SlowValues(d.backend)) /\ Within(slow_cache_', LastingValues(d, slow_cache_'))
    BY <1>5, <2>2, <2>5, <2>8
  <2>15. WatchInv'
    BY <1>3, <2>2, <2>3, <2>4, <2>10, <2>12, <2>13, <2>14 DEF WatchInv
  <2>16. \A a \in Lasting(watched.backend) : stats_[a] = a => stats_'[a] = a
    BY <1>3, <2>2, <2>7 DEF WatchInv
  <2> QED
    BY <2>15, <2>16
<1> QED
  BY <1>3, <1>8, <1>9

LEMMA WatchInvStep == WatchInv /\ [WatchShowNext]_watchShowVars => WatchInv'
<1> SUFFICES ASSUME WatchInv, [WatchShowNext]_watchShowVars PROVE WatchInv'
  OBVIOUS
<1>1. CASE CreateWatch
  <2>1. attr_id' \subseteq WatchFields \union {"invalid"}
    BY <1>1 DEF CreateWatch, ProtoToApiSpec, AttrIdToApiSpec
  <2> QED
    BY <1>1, <2>1 DEF CreateWatch, WatchInv, WatchShowTypeOK
<1>2. ASSUME NEW refresh \in BOOLEAN, WatchTick(refresh)
      PROVE  WatchInv'
  BY <1>2, TickKeeps
<1>3. CASE UNCHANGED watchShowVars
  BY <1>3 DEF watchShowVars, WatchInv, WatchShowTypeOK
<1> QED
  BY <1>1, <1>2, <1>3 DEF WatchShowNext

\* The inductive invariant holds of every behaviour.
THEOREM WatchesInvariant == WatchShowSpec => []WatchInv
BY WatchInvInit, WatchInvStep, PTL DEF WatchShowSpec

\* The types of a watch: the attributes in the GPU object, and those kept of the
\* last slow tick, are those of aga_gpu_watch_fields_t.
THEOREM WatchShowTypeCorrect == WatchShowSpec => []WatchShowTypeOK
<1>1. WatchInv => WatchShowTypeOK
  BY DEF WatchInv
<1> QED
  BY <1>1, WatchesInvariant, PTL

\* Once a reading was reported, no tick takes it back (smi_state.cc:108): what is
\* kept of the last slow tick has it, and a call that fails, or is not made,
\* leaves it.
THEOREM SlowReadingsStay == WatchShowSpec => SlowReadingsLast
<1> DEFINE Stays ==
      stats_' # stats_ =>
          \A a \in SlowAttrs \ (ClockList \union {"ecc_total", "free_vram"}) :
              /\ stats_[a] \in ReadingOf(a)
              /\ GimWatched(watched')
              /\ watched.backend = "gim" => a # "pcie_bandwidth"
              => stats_'[a] = stats_[a]
<1>1. WatchInv /\ [WatchShowNext]_watchShowVars => [Stays]_watchShowVars
  <2> SUFFICES ASSUME WatchInv, [WatchShowNext]_watchShowVars,
                      NEW a \in SlowAttrs \ (ClockList \union {"ecc_total", "free_vram"}),
                      stats_[a] \in ReadingOf(a), GimWatched(watched'),
                      watched.backend = "gim" => a # "pcie_bandwidth"
               PROVE  stats_'[a] = stats_[a]
    BY Zenon DEF Stays
  <2>1. a \in Lasting(watched.backend)
    BY DEF Lasting
  <2>2. stats_[a] = a
    BY <2>1, LastingNames
  <2>3. CASE CreateWatch
    BY <2>3 DEF CreateWatch
  <2>4. ASSUME NEW refresh \in BOOLEAN, WatchTick(refresh)
        PROVE  stats_'[a] = stats_[a]
    BY <2>1, <2>2, <2>4, TickKeeps
  <2>5. CASE UNCHANGED watchShowVars
    BY <2>5 DEF watchShowVars
  <2> QED
    BY <2>3, <2>4, <2>5 DEF WatchShowNext
<1>2. SlowReadingsLast <=> [][Stays]_watchShowVars
  BY DEF SlowReadingsLast
<1> HIDE DEF Stays
<1> QED
  BY <1>1, <1>2, WatchesInvariant, PTL DEF WatchShowSpec

\* A frame says of each attribute what the GPU object has of it,
LEMMA FrameCopies ==
  ASSUME NEW attrs, NEW s
  PROVE  \A a \in DOMAIN Frame(attrs, s) : a \in WatchFields /\ Frame(attrs, s)[a] = s[a]
<1> DEFINE Copied(u) == \A a \in DOMAIN u : a \in WatchFields /\ u[a] = s[a]
           long    == [a \in attrs \intersect (WatchArrays \union PerXcc) |-> LongArray(s, a)]
           indexed == [a \in attrs \intersect ClockList |-> IndexedArray(s, a)]
<1>1. Copied(FillScalars(attrs, s))
  BY AttrNames DEF FillScalars
<1>2. Copied(FillErrors(attrs, s)) /\ Copied(FillLinks(attrs, s))
  BY AttrNames DEF FillErrors, FillLinks
<1>3. Copied(FillViolations(attrs, s))
  BY DEF FillViolations, WatchFields, SlowAttrs
<1>4. Copied(long) /\ Copied(indexed)
  <2>1. (WatchArrays \union PerXcc) \union ClockList \subseteq WatchFields
    BY DEF WatchFields, FastAttrs, SlowAttrs, PerXcc, ViolationFields
  <2> QED
    BY <2>1 DEF LongArray, IndexedArray
<1>5. \A u, v : Copied(u) /\ Copied(v) => Copied(u ++ v)
  BY OverFields
<1>6. Frame(attrs, s) = FillScalars(attrs, s) ++ FillErrors(attrs, s) ++ FillLinks(attrs, s) ++
                        FillViolations(attrs, s) ++ FillArrays(attrs, s)
  BY DEF Frame
<1>7. FillArrays(attrs, s) = long ++ indexed
  BY DEF FillArrays
<1>8. Copied(Frame(attrs, s))
  <2> HIDE DEF Copied, long, indexed
  <2> QED
    BY <1>1, <1>2, <1>3, <1>4, <1>5, <1>6, <1>7
<1> QED
  BY <1>8

\* and a row what a frame has of it, unless it is absent.
LEMMA RowsCopy ==
  \A a \in DOMAIN Rows : a \in WatchFields /\ Rows[a] = stats_[a] /\ Rows[a] # "absent"
<1>1. PICK frame : frame = Frame(attr_id, stats_)
  OBVIOUS
<1>2. \A a \in DOMAIN frame : a \in WatchFields /\ frame[a] = stats_[a]
  BY <1>1, FrameCopies
<1>3. Rows = FrameToProto(frame)
  BY <1>1 DEF Rows
<1> QED
  BY <1>2, <1>3 DEF FrameToProto

\* No reading is a sentinel or a zero.
LEMMA ReadingsAreNone ==
  ASSUME NEW a \in WatchFields
  PROVE  ReadingOf(a) \intersect (Sentinels \union {"zero"}) = {}
<1>1. CASE a \in ClockRangeFields \union {"gpu_clock", "memory_clock", "gpu_temp", "power", "avg_power"}
  BY <1>1, ReadingNames, AttrNames DEF Sentinels
<1>2. CASE a \notin ClockRangeFields \union {"gpu_clock", "memory_clock", "gpu_temp", "power", "avg_power"}
  <2>1. ReadingOf(a) = {a}
    BY <1>2, ReadingNames
  <2>2. a \notin Sentinels \union {"zero"}
    BY AttrNames DEF Sentinels
  <2> QED
    BY <2>1, <2>2
<1> QED
  BY <1>1, <1>2

\* Whichever calls fail at whichever tick, a row of a watch is a reading of its
\* attribute or says that there is none, in 64 bits but where the code does not
\* widen it, and a failed read is not reported as zero (smi_state.cc:108,
\* smi_watcher_update_all_watch_fields_, fill_gpu_watch_stats).
THEOREM RowsAreFaithful == WatchShowSpec => []RowsFaithful
<1>1. WatchInv => RowsFaithful
  <2> SUFFICES ASSUME WatchInv, NEW a \in DOMAIN Rows
               PROVE  /\ \/ Rows[a] \in ReadingOf(a) \union Sentinels \union {"zero"}
                         \/ a = "free_vram"
                         \/ a = "gpu_clock" /\ Discrete
                         \/ a = "memory_clock" /\ "mem_clock" \in watched.lacks
                      /\ Rows[a] \in Sentinels \ {"na64"} =>
                            CASE watched.backend = "gim" -> a \in {"memory_clock", "gpu_temp"}
                              [] OTHER -> \/ a \in ClockRangeFields \union {"power"}
                                          \/ a = "gfx_activity" /\ Discrete
                                          \/ a \in Wsl32 /\ watched.backend = "wsl"
                      /\ tick > 0 /\ a \in FastAttrs \union {"ecc_total"} /\ Rows[a] = "zero" =>
                            \/ watched.backend = "wsl"
                            \/ ~ GimWatched(watched)
                            \/ a = "ecc_total" /\ (a \in watched.lacks \/ slow_cache_ = WatchCleared)
    BY DEF RowsFaithful, RowsHoldReadings, SentinelOfFullWidth, FailedReadNotApplicable
  <2>1. a \in WatchFields /\ Rows[a] = stats_[a] /\ stats_[a] # "absent"
    BY RowsCopy
  <2>2. Discrete <=> ~ Bulk(watched)
    BY DEF Discrete, Bulk
  <2>3. ReadingOf(a) \intersect {"na16", "na32", "na64", "zero"} = {}
    BY <2>1, ReadingsAreNone DEF Sentinels
  <2>4. CASE stats_ = WatchCleared /\ (tick = 0 \/ ~ GimWatched(watched))
    BY <2>1, <2>4, ClearedFits DEF Sentinels
  <2>5. CASE Within(stats_, RowValues(watched))
    <3>1. stats_[a] \in RowValues(watched)[a]
      BY <2>1, <2>5 DEF Within, RowValues, WatchInv, WatchShowTypeOK
    <3>2. CASE a \in SlowAttrs
      <4>1. a \notin FastAttrs
        BY <3>2, AttrNames
      <4>2. /\ \/ stats_[a] \in ReadingOf(a) \union {"zero", "na64", "na32"}
               \/ a = "free_vram" /\ stats_[a] = "junk"
            /\ stats_[a] = "na32" => a \in ClockRangeFields /\ watched.backend # "gim"
            /\ stats_[a] # "na16"
        BY <3>1, <3>2, <2>1, <2>3 DEF RowValues, SlowValues
      <4>3. a = "ecc_total" /\ stats_[a] = "zero" =>
                \/ tick = 0 \/ ~ GimWatched(watched)
                \/ a \in watched.lacks \/ slow_cache_ = WatchCleared
        BY DEF WatchInv
      <4> QED
        BY <2>1, <2>3, <4>1, <4>2, <4>3 DEF Sentinels
    <3>3. CASE a \in FastAttrs
      <4>1. a \notin SlowAttrs /\ a # "ecc_total"
        BY <3>3, AttrNames
      <4>2. stats_[a] \in FastValues(watched)[a]
        BY <2>1, <3>1, <4>1 DEF RowValues
      <4>3. "nack_count" \in Wsl32
        BY DEF Wsl32
      <4> QED
        BY <2>1, <2>2, <2>3, <3>3, <4>1, <4>2, <4>3 DEF FastValues, Sentinels
    <3> QED
      BY <2>1, <3>2, <3>3, AttrNames
  <2> QED
    BY <2>4, <2>5 DEF WatchInv
<1> QED
  BY <1>1, WatchesInvariant, PTL
-----------------------------------------------------------------------------
(***************************************************************************)
(* Watches.  What a watch and a GPUGet tell of a GPU that answers every    *)
(* call: both have the reading of a field the device has one for, and      *)
(* neither has one for any other.                                          *)
(***************************************************************************)
Known(d, f) == IF f \in d.lacks THEN NothingKnown ELSE {f}

\* The difference of the sizes of the memory, as both paths compute it.
FreeOf(d) == Derived("free_vram", {Read(d, "total_vram", "zero"), Read(d, "used_vram", "zero")})

\* The reading in the range of a clock.
RangeReading(r) == SpecRangeOf[CHOOSE x \in DOMAIN RangeOf : RangeOf[x] = r]

\* What there is to tell of a field,
ToTell(d, f) ==
    IF f = "free_vram" THEN {FreeOf(d)}
    ELSE IF f \in ClockRangeFields THEN Known(d, RangeReading(f))
    ELSE Known(d, f)

\* in the fields both paths are to tell the same of.
Compared(d) == {PullName(a) : a \in WatchFields \ Divergent(d)} \intersect Fields
PullValues(d) == [f \in Compared(d) |-> ToTell(d, f)]

LEMMA ComparedNames ==
  ASSUME NEW d, d.backend \in Backends
  PROVE  /\ Compared(d) \subseteq Fields /\ Compared(d) \intersect (SpecFields \union IdentityFields) = {}
         /\ Compared(d) \subseteq StatusFields \union StatsFields
         /\ Compared(d) \intersect {"rx_bytes", "tx_bytes", "power_usage", "pcie_speed",
                                    "pcie_max_speed"} = {}
         /\ d.partitioned => Compared(d) \intersect {"vcn_activity", "jpeg_activity", "ecc_block",
                                                     "ecc_total", "low_util_acc"} = {}
         /\ Compared(d) \intersect StatusFields
                \subseteq ClockFields \union ClockRangeFields \union {"vram_bandwidth", "pcie_bandwidth"}
         /\ d.backend = "gim" => Compared(d) \subseteq
                {"gfx_clock", "mem_clock", "memory_temp", "gfx_activity", "umc_activity",
                 "mm_activity", "gfx_voltage", "soc_voltage", "mem_voltage", "pcie_bandwidth",
                 "ecc_block", "ecc_total"}
<1> DEFINE shared == WatchFields \ {"pcie_speed", "pcie_max_speed", "pcie_usage", "xgmi_throughput"}
<1>1. \A a \in shared : PullName(a) \in StatusFields \union StatsFields
  BY AttrNames DEF PullName, StatusFields, StatsFields, ClockFields, UsageFields, PcieStatsFields,
     ViolationFields
<1>2. \A a \in WatchFields : a \in {"pcie_usage", "xgmi_throughput"} => PullName(a) = a /\ a \notin Fields
  BY AttrNames DEF PullName, Fields, SpecFields, IdentityFields, StatusFields, StatsFields,
     ClockFields, UsageFields, PcieStatsFields, ViolationFields
<1>3. /\ {"pcie_speed", "pcie_max_speed"} \subseteq Divergent(d)
      /\ d.partitioned => {"vcn_activity", "jpeg_activity", "ecc_block", "ecc_total", "low_util_acc"}
                              \subseteq Divergent(d)
      /\ d.backend = "gim" =>
             WatchFields \ {"gpu_clock", "memory_clock", "memory_temp", "gfx_activity",
                            "umc_activity", "mm_activity", "gfx_voltage", "soc_voltage",
                            "mem_voltage", "pcie_bandwidth", "ecc_block", "ecc_total"}
                 \subseteq Divergent(d)
  BY DEF Divergent
<1>4. \A f \in Compared(d) : f \in Fields /\ \E a \in shared : a \notin Divergent(d) /\ PullName(a) = f
  BY <1>2, <1>3 DEF Compared
<1>5. (StatusFields \union StatsFields) \intersect (SpecFields \union IdentityFields) = {}
  BY AttrNames DEF StatusFields, StatsFields, ClockFields, UsageFields, PcieStatsFields,
     ViolationFields, SpecFields, IdentityFields
<1>6. Compared(d) \intersect {"rx_bytes", "tx_bytes", "power_usage", "pcie_speed", "pcie_max_speed"} = {}
  BY <1>4, AttrNames DEF PullName
<1>7. d.partitioned => Compared(d) \intersect {"vcn_activity", "jpeg_activity", "ecc_block",
                                               "ecc_total", "low_util_acc"} = {}
  BY <1>3, <1>4 DEF PullName
<1>8. \A a \in shared : PullName(a) \in StatusFields =>
          PullName(a) \in ClockFields \union ClockRangeFields \union {"vram_bandwidth", "pcie_bandwidth"}
  BY AttrNames DEF PullName, StatusFields, ClockFields
<1>9. d.backend = "gim" => Compared(d) \subseteq
          {"gfx_clock", "mem_clock", "memory_temp", "gfx_activity", "umc_activity",
           "mm_activity", "gfx_voltage", "soc_voltage", "mem_voltage", "pcie_bandwidth",
           "ecc_block", "ecc_total"}
  BY <1>3, <1>4 DEF PullName
<1> QED
  BY <1>1, <1>4, <1>5, <1>6, <1>7, <1>8, <1>9

\* What there is to tell, field by field.
LEMMA PullValue ==
  ASSUME NEW d
  PROVE  /\ DOMAIN PullValues(d) = Compared(d)
         /\ \A f \in Compared(d) : f # "free_vram" /\ f \notin ClockRangeFields =>
                PullValues(d)[f] = Known(d, f)
         /\ "free_vram" \in Compared(d) => PullValues(d)["free_vram"] = {FreeOf(d)}
         /\ \A f \in Compared(d) \intersect ClockRangeFields :
                PullValues(d)[f] = Known(d, RangeReading(f))
BY AttrNames DEF PullValues, ToTell

\* A call that is answered has what is known, in whatever width it is copied to.
LEMMA KnownReads ==
  ASSUME NEW d, d.fails = {}, NEW f, f \notin Sentinels
  PROVE  /\ \A na \in NothingKnown : Read(d, f, na) \in Known(d, f)
         /\ \A na \in NothingKnown : \A call, missed : Ask(d, call, f, na, missed) \in Known(d, f)
         /\ \A v \in Known(d, f) : \A x \in Sentinels : \A y \in NothingKnown :
                Widen(v, x, y) \in Known(d, f)
<1>1. \A na \in NothingKnown : Read(d, f, na) \in Known(d, f)
  BY DEF Read, Known
<1>2. \A na : \A call, missed : Ask(d, call, f, na, missed) = Read(d, f, na)
  BY DEF Ask
<1>3. \A v \in Known(d, f) : \A x \in Sentinels : \A y \in NothingKnown :
          Widen(v, x, y) \in Known(d, f)
  BY DEF Widen, Known, NothingKnown
<1> QED
  BY <1>1, <1>2, <1>3

LEMMA NoneKnown ==
  /\ {"zero", "absent", "na16", "na32", "na64"} = NothingKnown
  /\ Sentinels = {"na16", "na32", "na64"} /\ Sentinels \subseteq NothingKnown
  /\ \A f \in Fields : f \notin NothingKnown
  /\ \A f \in Tabled : f \notin NothingKnown
<1>1. \A f \in Fields : f \notin {"zero", "absent", "na16", "na32", "na64"}
  BY AttrNames DEF Fields, SpecFields, IdentityFields, StatusFields, StatsFields, ClockFields,
     UsageFields, PcieStatsFields, ViolationFields
<1> QED
  BY <1>1, TableWidths DEF NothingKnown, Sentinels, Tabled

\* The metrics tables of a GPU whose calls are answered.
KnownTable(d, m) == DOMAIN m = Tabled /\ \A f \in Tabled : m[f] \in Known(d, f)

LEMMA KnownTables ==
  ASSUME NEW d, d.fails = {}, {"fails", "lacks", "sentinels"} \subseteq DOMAIN d
  PROVE  /\ KnownTable(d, AmdsmiMetrics(d)) /\ KnownTable(d, WslMetrics(d))
         /\ KnownTable(d, WslRefreshed(d, WslMetrics(d))) /\ KnownTable(d, WslPartitionMetrics(d))
<1> DEFINE values == [f \in Tabled |-> Known(d, f)]
<1>1. \A m, b : IsTable(m, b) /\ Within(m, values) => KnownTable(d, m)
  BY DEF IsTable, Within, KnownTable
<1>2. \A m : KnownTable(d, m) => Within(m, values)
  BY DEF Within, KnownTable
<1>3. ASSUME NEW f \in Tabled
      PROVE  /\ \A na \in NothingKnown : Read(d, f, na) \in Known(d, f)
             /\ f \notin NothingKnown
             /\ f \in Known(d, f) \/ f \in d.lacks
             /\ "zero" \in Known(d, f) <=> f \in d.lacks
  BY NoneKnown, KnownReads DEF Known
<1>4. DOMAIN values = Tabled /\ \A f \in Tabled : values[f] = Known(d, f)
  OBVIOUS
<1>5. KnownTable(d, AmdsmiMetrics(d))
  <2> DEFINE sixteen   == [f \in Metrics16 |-> Read(d, f, "na16")]
             sixtyfour == [f \in Metrics64 |-> Read(d, f, "na64")]
             rest      == [gfx_busy |-> Read(d, "gfx_busy", "na32"),
                           throttling |-> Read(d, "throttling", "zero")]
  <2>1. Within(sixteen, values) /\ Within(sixtyfour, values) /\ Within(rest, values)
    <3> HIDE DEF values
    <3> QED
      BY <1>3, <1>4, NoneKnown DEF Within
  <2>2. AmdsmiMetrics(d) = (sixteen ++ sixtyfour) ++ rest
    BY DEF AmdsmiMetrics
  <2>3. Within(AmdsmiMetrics(d), values)
    <3> HIDE DEF sixteen, sixtyfour, rest, values
    <3> QED
      BY <2>1, <2>2, OverWithin
  <2> QED
    BY <1>1, <2>3, AmdsmiTable
<1>6. KnownTable(d, WslTable(d))
  <2> DEFINE narrow == [f \in Wsl32 |-> Read(d, f, "na32")]
  <2>1. CASE d.sentinels
    <3>1. WslTable(d) = narrow ++ AmdsmiMetrics(d)
      BY <2>1 DEF WslTable
    <3>2. Within(narrow, values) /\ Within(AmdsmiMetrics(d), values)
      <4>1. Within(narrow, values)
        <5> HIDE DEF values
        <5> QED
          BY <1>3, <1>4, NoneKnown DEF Within
      <4> QED
        BY <1>2, <1>5, <4>1
    <3> HIDE DEF narrow, values
    <3> QED
      BY <1>1, <3>1, <3>2, OverWithin, WslTableFits
  <2>2. CASE ~ d.sentinels
    <3>1. WslTable(d) = [f \in DOMAIN AmdsmiMetrics(d) |-> Read(d, f, "zero")]
      BY <2>2 DEF WslTable
    <3> QED
      BY <1>3, <1>5, <3>1, NoneKnown DEF KnownTable
  <2> QED
    BY <2>1, <2>2
<1>7. KnownTable(d, WslMetrics(d))
  <2>1. PICK t : t = WslTable(d)
    OBVIOUS
  <2> DEFINE Asked(f, call, na) ==
                 IF t[f] = "zero" /\ Answered(d, call) THEN Read(d, f, na) ELSE t[f]
             replay == Asked("replay_count", "pcie_metric", "na64")
             refilled ==
               [umc_activity |-> Asked("umc_activity", "gpu_activity", "na16"),
                gfx_activity |-> LET v == Asked("gfx_activity", "gpu_activity", "na16")
                                 IN IF v = "zero" /\ Answered(d, "busy_percent")
                                    THEN Read(d, "gfx_activity", "zero") ELSE v,
                package_power |-> Asked("package_power", "power_info", "zero"),
                avg_power |-> Asked("avg_power", "power_info", "zero"),
                gfx_clock |-> Asked("gfx_clock", "clock_info", "na16"),
                soc_clock |-> Asked("soc_clock", "clock_info", "na16"),
                mem_clock |-> Asked("mem_clock", "clock_info", "na16"),
                edge_temp |-> Asked("edge_temp", "temp_metric", "zero"),
                junction_temp |-> Asked("junction_temp", "temp_metric", "zero"),
                memory_temp |-> Asked("memory_temp", "temp_metric", "zero"),
                fan_speed |-> Asked("fan_speed", "fan_rpms", "zero"),
                gfx_voltage |-> Asked("gfx_voltage", "volt_metric", "zero"),
                replay_count |-> IF replay = "zero" /\ Answered(d, "replay_counter")
                                 THEN Read(d, "replay_count", "zero") ELSE replay]
  <2>2. WslMetrics(d) = refilled ++ t
    BY <2>1 DEF WslMetrics, WslRefilled
  <2>3. \A f \in Tabled : \A call : \A na \in NothingKnown : Asked(f, call, na) \in Known(d, f)
    BY <1>3, <1>6, <2>1 DEF KnownTable
  <2>4. \A f \in Metrics16 \union Metrics64 : f \in Tabled
    BY DEF Tabled
  <2>5. Within(refilled, values)
    <3>1. \A f \in {"umc_activity", "gfx_activity", "package_power", "avg_power", "gfx_clock",
                    "soc_clock", "mem_clock", "edge_temp", "junction_temp", "memory_temp",
                    "fan_speed", "gfx_voltage", "replay_count"} :
              /\ f \in Tabled
              /\ \A call : \A na \in NothingKnown : Asked(f, call, na) \in Known(d, f)
              /\ Read(d, f, "zero") \in Known(d, f)
      BY <1>3, <2>3, <2>4, TableWidths, NoneKnown
    <3> HIDE DEF values, Asked
    <3> QED
      BY <1>4, <3>1, NoneKnown DEF Within
  <2>6. Within(t, values)
    BY <1>2, <1>6, <2>1
  <2> HIDE DEF refilled, values
  <2> QED
    BY <1>1, <2>2, <2>5, <2>6, OverWithin, WslTables
<1>8. KnownTable(d, WslRefreshed(d, WslMetrics(d)))
  <2>1. PICK m : m = WslMetrics(d)
    OBVIOUS
  <2> DEFINE power == [f \in {"package_power", "avg_power"} |-> IF f \in d.lacks THEN m[f] ELSE f]
             busy  == [f \in {"gfx_activity", "umc_activity"} |-> Read(d, f, "na16")]
             first == When(m["package_power"] = "zero" /\ "power_info_again" \notin d.fails, power)
             second == When(/\ ~ d.partitioned /\ "skip_activity_stats" \notin d.skip
                            /\ m["gfx_activity"] = "zero" /\ "gpu_activity_again" \notin d.fails, busy)
  <2>2. WslRefreshed(d, m) = (first ++ second) ++ m
    BY DEF WslRefreshed
  <2>3. Within(power, values) /\ Within(busy, values)
    <3>1. \A f \in {"package_power", "avg_power", "gfx_activity", "umc_activity"} :
              f \in Tabled /\ m[f] \in Known(d, f) /\ Read(d, f, "na16") \in Known(d, f)
      BY <1>3, <1>7, <2>1, TableWidths, NoneKnown DEF KnownTable, Tabled
    <3> HIDE DEF values
    <3> QED
      BY <1>3, <1>4, <3>1 DEF Within
  <2>4. Within(first, values) /\ Within(second, values) /\ Within(m, values)
    BY <1>2, <1>7, <2>1, <2>3, WhenWithin, Zenon
  <2> HIDE DEF first, second, values
  <2> QED
    BY <1>1, <2>1, <2>2, <2>4, OverWithin, WslTables
<1>9. KnownTable(d, WslPartitionMetrics(d))
  <2>1. PICK e : e = [d EXCEPT !.fails = @ \ {"metrics_table"}]
    OBVIOUS
  <2>2. e.fails = {} /\ e.lacks = d.lacks /\ e.sentinels = d.sentinels
    BY <2>1
  <2>3. "metrics_table" \notin e.fails /\ "metrics_table" \notin d.fails
    BY <2>2
  <2>4. WslTable(e) = WslTable(d)
    BY <2>2, <2>3 DEF WslTable, AmdsmiMetrics, Read
  <2> QED
    BY <1>6, <2>1, <2>4 DEF WslPartitionMetrics
<1> QED
  BY <1>5, <1>7, <1>8, <1>9

\* What is copied from such a table, or widened, is what there is to tell.
LEMMA KnownCopies ==
  ASSUME NEW d, d.fails = {}, d.backend \in Backends, NEW m, KnownTable(d, m), NEW fields,
         NEW w \in Sentinels
  PROVE  /\ fields \subseteq Tabled => Within([f \in fields |-> m[f]], PullValues(d))
         /\ fields \subseteq Metrics16 => Within(Widened(m, fields, w), PullValues(d))
         /\ \A f \in Tabled : Widen(m[f], "na16", w) \in Known(d, f)
<1>1. DOMAIN PullValues(d) = Compared(d)
  BY PullValue
<1>2. \A f \in Tabled \intersect Compared(d) : PullValues(d)[f] = Known(d, f)
  <2>1. \A f \in Tabled : f # "free_vram" /\ f \notin ClockRangeFields
    BY TableWidths, AttrNames DEF Tabled
  <2> QED
    BY <2>1, PullValue
<1>3. \A f \in Tabled : m[f] \in Known(d, f) /\ Widen(m[f], "na16", w) \in Known(d, f)
  BY KnownReads, NoneKnown DEF KnownTable
<1>4. Metrics16 \subseteq Tabled
  BY DEF Tabled
<1>5. ASSUME fields \subseteq Tabled
      PROVE  Within([f \in fields |-> m[f]], PullValues(d))
  BY <1>1, <1>2, <1>3, <1>5 DEF Within
<1>6. ASSUME fields \subseteq Metrics16
      PROVE  Within(Widened(m, fields, w), PullValues(d))
  BY <1>1, <1>2, <1>3, <1>4, <1>6 DEF Within, Widened
<1> QED
  BY <1>3, <1>5, <1>6

\* smi_gpu_fill_stats, and what it covers.
LEMMA PullStats ==
  ASSUME NEW d, d.fails = {}, d.skip = {}, Placed(d), d.backend \in {"amdsmi", "wsl"},
         {"fails", "lacks", "sentinels"} \subseteq DOMAIN d
  PROVE  /\ Within(StatsOf(d), PullValues(d))
         /\ \A f \in Compared(d) \intersect StatsFields : f \in DOMAIN StatsOf(d)
<1> DEFINE V == PullValues(d)
<1>1. /\ DOMAIN V = Compared(d)
      /\ \A f \in Compared(d) : f # "free_vram" /\ f \notin ClockRangeFields => V[f] = Known(d, f)
      /\ "free_vram" \in Compared(d) => V["free_vram"] = {FreeOf(d)}
  BY PullValue
<1>2. /\ Compared(d) \intersect {"rx_bytes", "tx_bytes", "power_usage"} = {}
      /\ d.partitioned => Compared(d) \intersect {"vcn_activity", "jpeg_activity", "ecc_block",
                                                  "ecc_total", "low_util_acc"} = {}
      /\ Compared(d) \subseteq Fields
  BY ComparedNames DEF Backends
<1>3. /\ \A f \in Fields : \A na \in NothingKnown : Read(d, f, na) \in Known(d, f)
      /\ \A f \in Fields : \A na \in NothingKnown : \A call, missed :
             Ask(d, call, f, na, missed) \in Known(d, f)
  BY KnownReads, NoneKnown
<1>4. PICK m : \E c, p : /\ KnownTable(d, m) /\ KnownTable(d, c) /\ KnownTable(d, p)
                         /\ StatsOf(d) = AmdsmiStats(d, TRUE, m, c, p)
  <2>1. CASE d.backend = "amdsmi"
    <3>1. AmdsmiCached(d) = TRUE
      BY DEF AmdsmiCached
    <3>2. StatsOf(d) = AmdsmiStats(d, TRUE, AmdsmiMetrics(d), AmdsmiMetrics(d), AmdsmiMetrics(d))
      BY <2>1, <3>1 DEF StatsOf
    <3> QED
      BY <3>2, KnownTables, Zenon
  <2>2. CASE d.backend = "wsl"
    <3>1. WslTableUsed(d) = TRUE
      BY DEF WslTableUsed, WslCached, WslFilled
    <3>2. StatsOf(d) = AmdsmiStats(d, TRUE, WslRefreshed(d, WslMetrics(d)), WslMetrics(d),
                                   WslPartitionMetrics(d))
      BY <2>2, <3>1 DEF StatsOf, WslStats
    <3> QED
      BY <3>2, KnownTables, Zenon
  <2> QED
    BY <2>1, <2>2
<1>5. PICK c : \E p : /\ KnownTable(d, c) /\ KnownTable(d, p)
                      /\ StatsOf(d) = AmdsmiStats(d, TRUE, m, c, p)
  BY <1>4
<1>6. PICK p : KnownTable(d, p) /\ StatsOf(d) = AmdsmiStats(d, TRUE, m, c, p)
  BY <1>5
<1>7. KnownTable(d, m) /\ KnownTable(d, c) /\ d.backend \in Backends
  BY <1>4, <1>5 DEF Backends
<1>8. {"na32", "na64"} \subseteq Sentinels /\ {"zero", "na64"} \subseteq NothingKnown
  BY NoneKnown
<1>9. /\ UsageFields \ {"gfx_busy"} \subseteq Metrics16
      /\ {"gfx_activity", "umc_activity"} \subseteq Metrics16
      /\ {"gfx_busy", "gfx_activity_acc", "mem_activity_acc", "xgmi_link", "energy"} \subseteq Tabled
      /\ PcieStatsFields \ {"rx_bytes", "tx_bytes"} \subseteq Tabled
      /\ {"avg_power", "package_power", "soc_voltage", "gfx_voltage", "mem_voltage", "fan_speed"}
             \subseteq Metrics16
      /\ {"edge_temp", "junction_temp", "memory_temp", "hbm_temp"} \subseteq Metrics16
  BY TableWidths DEF Tabled, UsageFields, PcieStatsFields
<1>10. ASSUME NEW t, KnownTable(d, t)
       PROVE  /\ Within(AmdsmiActivity(t), V) /\ Within(AmdsmiPartitionActivity(t), V)
              /\ Within(AmdsmiViolation(d, t), V)
  <2>1. /\ Within(Widened(t, UsageFields \ {"gfx_busy"}, "na32"), V)
        /\ Within([f \in {"gfx_busy", "gfx_activity_acc", "mem_activity_acc"} |-> t[f]], V)
    BY <1>7, <1>8, <1>9, <1>10, KnownCopies
  <2>2. Within(AmdsmiActivity(t), V)
    BY <2>1, OverWithin, Zenon DEF AmdsmiActivity
  <2>3. Within(AmdsmiPartitionActivity(t), V)
    BY <2>2 DEF AmdsmiPartitionActivity, Within
  <2> DEFINE accumulated == {"violation_counter", "residency_acc", "vr_acc", "hbm_acc",
                             "gfx_limit_acc", "low_util_acc"}
             percent == {"residency_per", "gfx_limit_per", "low_util_per"}
             part == [low_util_acc |-> "low_util_acc_of_partition"]
             all == [f \in accumulated \union percent |-> Read(d, f, "na64")]
             some == When(~ d.first /\ "low_util_acc" \notin d.lacks, part)
  <2>4. Within(all, V)
    <3>1. \A f \in accumulated \union percent :
              f \in Fields /\ f # "free_vram" /\ f \notin ClockRangeFields
      BY AttrNames DEF Fields, StatsFields, ViolationFields
    <3> HIDE DEF V
    <3> QED
      BY <1>1, <1>3, <1>8, <3>1 DEF Within
  <2>5. Within(some, V)
    <3>1. ~ d.first => d.partitioned
      BY DEF Placed
    <3> HIDE DEF V
    <3> QED
      BY <1>1, <1>2, <3>1 DEF Within, When, Untouched, All
  <2>6. AmdsmiViolation(d, t) = some ++ all
    BY DEF AmdsmiViolation
  <2>7. Within(AmdsmiViolation(d, t), V)
    <3> HIDE DEF some, all, V
    <3> QED
      BY <2>4, <2>5, <2>6, OverWithin
  <2> QED
    BY <2>2, <2>3, <2>7
<1>11. /\ Within(Widened(c, {"gfx_activity", "umc_activity"}, "na32"), V)
       /\ Within([f \in PcieStatsFields \ {"rx_bytes", "tx_bytes"} |-> m[f]], V)
       /\ Within([xgmi_link |-> m["xgmi_link"]], V)
  <2>1. /\ Within(Widened(c, {"gfx_activity", "umc_activity"}, "na32"), V)
        /\ Within([f \in PcieStatsFields \ {"rx_bytes", "tx_bytes"} |-> m[f]], V)
        /\ Within([f \in {"xgmi_link"} |-> m[f]], V)
    BY <1>7, <1>8, <1>9, KnownCopies
  <2>2. [f \in {"xgmi_link"} |-> m[f]] = [xgmi_link |-> m["xgmi_link"]]
    OBVIOUS
  <2> QED
    BY <2>1, <2>2
<1>12. /\ Within([xgmi_requests |-> Ask(d, "xgmi_counter", "xgmi_requests", "zero", "zero"),
                  xgmi_responses |-> Ask(d, "xgmi_counter", "xgmi_responses", "zero", "zero")], V)
       /\ Within([tx_bytes |-> Read(d, "rx_bytes", "na64"), rx_bytes |-> Read(d, "tx_bytes", "na64")], V)
  <2>1. {"xgmi_requests", "xgmi_responses"} \subseteq Fields \ ClockRangeFields
    BY AttrNames DEF Fields, StatsFields
  <2> HIDE DEF V
  <2> QED
    BY <1>1, <1>2, <1>3, <1>8, <2>1 DEF Within
<1>13. Within(AmdsmiPower(m), V)
  <2>1. /\ Within(Widened(m, {"avg_power", "package_power", "soc_voltage", "gfx_voltage",
                              "mem_voltage", "fan_speed"}, "na64"), V)
        /\ Within(Widened(m, {"edge_temp", "junction_temp", "memory_temp", "hbm_temp"}, "na32"), V)
    BY <1>7, <1>8, <1>9, KnownCopies
  <2>2. Within([power_usage |-> Widen(m["package_power"], "na16", "na64"), energy |-> m["energy"]], V)
    <3>1. "energy" \in Tabled /\ "energy" # "free_vram" /\ "energy" \notin ClockRangeFields
      BY <1>9, AttrNames
    <3>2. m["energy"] \in Known(d, "energy")
      BY <1>7, <3>1 DEF KnownTable
    <3> HIDE DEF V
    <3> QED
      BY <1>1, <1>2, <3>1, <3>2 DEF Within
  <2> QED
    BY <2>1, <2>2, OverWithin, Zenon DEF AmdsmiPower
<1>14. Within(AmdsmiEcc(d), V)
  <2>1. {"ecc_total", "ecc_block"} \subseteq Fields \ ClockRangeFields
    BY AttrNames DEF Fields, StatsFields
  <2>2. /\ Within([ecc_total |-> Ask(d, "ecc_count", "ecc_total", "zero", "zero")], V)
        /\ Within([ecc_block |-> Read(d, "ecc_block", "zero")], V)
    <3> HIDE DEF V
    <3> QED
      BY <1>1, <1>3, <1>8, <2>1 DEF Within
  <2> QED
    BY <2>2, WhenWithin, OverWithin, Zenon DEF AmdsmiEcc
<1>15. Within(AmdsmiVramUsage(d), V)
  <2>1. /\ Ask(d, "memory_total", "total_vram", "zero", "zero") = Read(d, "total_vram", "zero")
        /\ Ask(d, "memory_usage", "used_vram", "zero", "zero") = Read(d, "used_vram", "zero")
    BY DEF Ask
  <2>2. AmdsmiVramUsage(d) = [total_vram |-> Read(d, "total_vram", "zero"),
                              used_vram |-> Read(d, "used_vram", "zero"), free_vram |-> FreeOf(d)]
    BY <2>1 DEF AmdsmiVramUsage, FreeOf
  <2>3. {"total_vram", "used_vram"} \subseteq Fields \ ClockRangeFields
    BY AttrNames DEF Fields, StatsFields
  <2> HIDE DEF V
  <2> QED
    BY <1>1, <1>3, <1>8, <2>2, <2>3 DEF Within
<1> DEFINE readings == StatsReadings(d, TRUE, m, c, p)
<1>16. Within(readings, V)
  <2> HIDE DEF V
  <2> QED
    BY <1>6, <1>7, <1>10, <1>11, <1>12, <1>13, <1>14, <1>15, StatsLayers, Zenon
<1>17. \A f \in StatsFields : f \notin Excused(d) => f \in DOMAIN readings
  BY FullStatsNames
<1>18. Compared(d) \intersect Excused(d) = {}
  <2>1. Excused(d) = NotProvided(d)
    BY DEF Excused
  <2>2. ~ d.first => d.partitioned
    BY DEF Placed
  <2>3. "spec_fan_speed" \notin Compared(d)
    <3>1. "spec_fan_speed" \in SpecFields
      BY DEF SpecFields
    <3> QED
      BY <3>1, ComparedNames DEF Backends
  <2> QED
    BY <1>2, <2>1, <2>2, <2>3 DEF NotProvided
<1>19. /\ \A f : f \in DOMAIN StatsOf(d) <=> \/ f \in DOMAIN readings
                                             \/ f \in UsageFields
                                             \/ f \in PcieStatsFields \union ViolationFields
                                                      \union {"xgmi_link"}
       /\ \A f \in DOMAIN readings : StatsOf(d)[f] = readings[f]
  <2> DEFINE usage == All(UsageFields, "na32")
             rest  == All(PcieStatsFields \union ViolationFields \union {"xgmi_link"}, "na64")
  <2>1. StatsOf(d) = (readings ++ usage) ++ rest
    BY <1>6, StatsOverMarks
  <2>2. /\ DOMAIN usage = UsageFields
        /\ DOMAIN rest = PcieStatsFields \union ViolationFields \union {"xgmi_link"}
    BY DEF All
  <2> HIDE DEF usage, rest, readings
  <2> QED
    BY <2>1, <2>2, OverFields
<1>20. UsageFields \union PcieStatsFields \union ViolationFields \union {"xgmi_link"}
           \subseteq StatsFields
  BY DEF StatsFields
<1> HIDE DEF readings, V
<1>21. Within(StatsOf(d), V)
  BY <1>1, <1>16, <1>17, <1>18, <1>19, <1>20 DEF Within
<1> QED
  BY <1>17, <1>18, <1>19, <1>21 DEF V

LEMMA RangeReadings ==
  /\ RangeReading("gfx_clock_range") = "gfx_range" /\ RangeReading("mem_clock_range") = "mem_range"
  /\ RangeReading("video_clock_range") = "video_range"
  /\ RangeReading("data_clock_range") = "data_range"
  /\ \A r \in ClockRangeFields : RangeReading(r) \in SpecFields
<1>1. ASSUME NEW r \in ClockRangeFields
      PROVE  \E c \in {"gfx_clock", "mem_clock", "video_clock", "data_clock"} :
                 RangeOf[c] = r /\ RangeReading(r) = SpecRangeOf[c]
  <2> DEFINE c == CHOOSE x \in DOMAIN RangeOf : RangeOf[x] = r
  <2>1. c \in DOMAIN RangeOf /\ RangeOf[c] = r
    BY ClockOfRange
  <2>2. RangeReading(r) = SpecRangeOf[c]
    BY DEF RangeReading
  <2>3. DOMAIN RangeOf = {"gfx_clock", "mem_clock", "video_clock", "data_clock"}
    BY DEF RangeOf
  <2> QED
    BY <2>1, <2>2, <2>3
<1>2. \A r \in ClockRangeFields :
          \/ r = "gfx_clock_range" /\ RangeReading(r) = "gfx_range"
          \/ r = "mem_clock_range" /\ RangeReading(r) = "mem_range"
          \/ r = "video_clock_range" /\ RangeReading(r) = "video_range"
          \/ r = "data_clock_range" /\ RangeReading(r) = "data_range"
  <2>1. \A c \in {"gfx_clock", "mem_clock", "video_clock", "data_clock"} :
            \/ RangeOf[c] = "gfx_clock_range" /\ SpecRangeOf[c] = "gfx_range"
            \/ RangeOf[c] = "mem_clock_range" /\ SpecRangeOf[c] = "mem_range"
            \/ RangeOf[c] = "video_clock_range" /\ SpecRangeOf[c] = "video_range"
            \/ RangeOf[c] = "data_clock_range" /\ SpecRangeOf[c] = "data_range"
    BY DEF RangeOf, SpecRangeOf
  <2> QED
    BY <1>1, <2>1
<1> QED
  BY <1>2, AttrNames DEF SpecFields

\* The bandwidth of the PCIe link is one of its status,
LEMMA PullLink ==
  ASSUME NEW d, d.fails = {}, d.backend \in Backends
  PROVE  /\ Within(AmdsmiPcieStatus(d), PullValues(d))
         /\ "pcie_bandwidth" \in DOMAIN AmdsmiPcieStatus(d)
<1>1. /\ Compared(d) \intersect StatusFields
             \subseteq ClockFields \union ClockRangeFields \union {"vram_bandwidth", "pcie_bandwidth"}
      /\ DOMAIN PullValues(d) = Compared(d)
  BY ComparedNames, PullValue
<1> DEFINE link == [pcie_max_width |-> Read16(d, "pcie_max_width", "na32"),
                    pcie_max_speed |-> Read(d, "pcie_max_speed", "na32"),
                    pcie_version |-> Read(d, "pcie_version", "na32"),
                    pcie_width |-> Read16(d, "pcie_width", "na32"),
                    pcie_speed |-> Read(d, "pcie_speed", "na32"),
                    pcie_bandwidth |-> Widen(Read(d, "pcie_bandwidth", "na32"), "na32", "na64")]
<1>2. AmdsmiPcieStatus(d) = link
  BY DEF AmdsmiPcieStatus, When
<1>3. {"pcie_max_width", "pcie_max_speed", "pcie_version", "pcie_width", "pcie_speed"}
          \intersect Compared(d) = {}
  <2>1. /\ {"pcie_max_width", "pcie_max_speed", "pcie_version", "pcie_width", "pcie_speed"}
               \subseteq StatusFields
        /\ {"pcie_max_width", "pcie_max_speed", "pcie_version", "pcie_width", "pcie_speed"}
               \intersect (ClockFields \union ClockRangeFields
                               \union {"vram_bandwidth", "pcie_bandwidth"}) = {}
    BY AttrNames DEF StatusFields, ClockFields
  <2> QED
    BY <1>1, <2>1
<1>4. Widen(Read(d, "pcie_bandwidth", "na32"), "na32", "na64") \in Known(d, "pcie_bandwidth")
  BY NoneKnown, KnownReads DEF Fields, StatusFields
<1>5. "pcie_bandwidth" \in Compared(d) => PullValues(d)["pcie_bandwidth"] = Known(d, "pcie_bandwidth")
  BY PullValue, AttrNames
<1>6. DOMAIN link = {"pcie_max_width", "pcie_max_speed", "pcie_version", "pcie_width",
                     "pcie_speed", "pcie_bandwidth"}
      /\ link["pcie_bandwidth"] = Widen(Read(d, "pcie_bandwidth", "na32"), "na32", "na64")
  OBVIOUS
<1> HIDE DEF link
<1> QED
  BY <1>1, <1>2, <1>3, <1>4, <1>5, <1>6 DEF Within

\* smi_gpu_fill_status, after the specification was read.
LEMMA PullStatus ==
  ASSUME NEW d, d.fails = {}, d.skip = {}, d.backend \in {"amdsmi", "wsl"},
         {"fails", "lacks", "sentinels"} \subseteq DOMAIN d,
         NEW reply, DOMAIN reply = Fields,
         \A r \in {"gfx_range", "mem_range", "video_range", "data_range"} :
             reply[r] = Read(d, r, "na32")
  PROVE  /\ Within(StatusOf(d, reply), PullValues(d))
         /\ \A f \in Compared(d) \intersect StatusFields :
                f \in DOMAIN StatusOf(d, reply) \/ (f = "fabric_clock" /\ f \in d.lacks)
<1> DEFINE V == PullValues(d)
<1>1. /\ DOMAIN V = Compared(d)
      /\ \A f \in Compared(d) : f # "free_vram" /\ f \notin ClockRangeFields => V[f] = Known(d, f)
      /\ \A f \in Compared(d) \intersect ClockRangeFields : V[f] = Known(d, RangeReading(f))
  BY PullValue
<1>2. /\ Compared(d) \subseteq Fields
      /\ Compared(d) \intersect SpecFields = {}
      /\ Compared(d) \intersect StatusFields
             \subseteq ClockFields \union ClockRangeFields \union {"vram_bandwidth", "pcie_bandwidth"}
  BY ComparedNames DEF Backends
<1>3. \A f \in Fields : \A na \in NothingKnown : Read(d, f, na) \in Known(d, f)
  BY KnownReads, NoneKnown
<1>4. PICK m : /\ KnownTable(d, m)
               /\ StatusOf(d, reply) = AmdsmiStatus(d, TRUE, m, reply)
  <2>1. CASE d.backend = "amdsmi"
    BY <2>1, KnownTables DEF StatusOf, AmdsmiCached
  <2>2. CASE d.backend = "wsl"
    <3>1. WslCached(d) = TRUE
      BY DEF WslCached, WslFilled
    <3>2. StatusOf(d, reply) = WslStatus(d, TRUE, WslMetrics(d), reply)
      BY <2>2, <3>1 DEF StatusOf
    <3>3. WslStatus(d, TRUE, WslMetrics(d), reply) = AmdsmiStatus(d, TRUE, WslMetrics(d), reply)
      BY DEF WslStatus, AmdsmiStatus, WslClockStatus, WslPcieStatus
    <3> QED
      BY <3>2, <3>3, KnownTables
  <2> QED
    BY <2>1, <2>2
<1> DEFINE again  == [gfx_range |-> Read(d, "gfx_range", "na32")]
           range  == When(d.rdna /\ "clock_info_again" \notin d.fails, again) ++ reply
           ranges ==
             [gfx_range |-> range["gfx_range"], gfx_clock_range |-> range["gfx_range"],
              mem_clock_range |-> range["mem_range"], video_clock_range |-> range["video_range"],
              data_clock_range |-> range["data_range"]]
           clocks == Widened(m, {"gfx_clock", "mem_clock", "video_clock", "data_clock"}, "na32")
           soc    == Widened(m, {"soc_clock"}, "na32")
           fabric == When("fabric_clock" \notin d.lacks, [fabric_clock |-> "fabric_clock"])
           xgmi   == Widened(m, {"xgmi_width", "xgmi_speed"}, "na64")
           copies == [f \in {"fw_timestamp", "throttling", "vram_bandwidth"} |-> m[f]]
           error  == [xgmi_error |-> Read(d, "xgmi_error", "zero")]
<1>5. \A r \in {"gfx_range", "mem_range", "video_range", "data_range"} :
          range[r] = Read(d, r, "na32")
  <2>1. {"gfx_range", "mem_range", "video_range", "data_range"} \subseteq Fields
    BY DEF Fields, SpecFields
  <2>2. PICK w : w = When(d.rdna /\ "clock_info_again" \notin d.fails, again)
    OBVIOUS
  <2>3. DOMAIN w \subseteq {"gfx_range"} /\ \A f \in DOMAIN w : w[f] = Read(d, f, "na32")
    BY <2>2 DEF When, Untouched, All
  <2>4. range = w ++ reply
    BY <2>2
  <2> HIDE DEF range
  <2> QED
    BY <2>1, <2>3, <2>4, OverFields
<1>6. Within(ranges, V)
  <2>1. \A r \in {"gfx_range", "mem_range", "video_range", "data_range"} :
            range[r] \in Known(d, r)
    BY <1>3, <1>5, NoneKnown DEF Fields, SpecFields
  <2>2. "gfx_range" \notin Compared(d)
    BY <1>2 DEF SpecFields
  <2>3. \A f \in {"gfx_clock_range", "mem_clock_range", "video_clock_range", "data_clock_range"} :
            f \in Compared(d) => V[f] = Known(d, RangeReading(f))
    BY <1>1, AttrNames
  <2> HIDE DEF range, V
  <2> QED
    BY <1>1, <2>1, <2>2, <2>3, RangeReadings DEF Within
<1>7. Within(clocks, V) /\ Within(soc, V) /\ Within(xgmi, V) /\ Within(copies, V)
  <2>1. /\ {"gfx_clock", "mem_clock", "video_clock", "data_clock", "soc_clock", "xgmi_width",
            "xgmi_speed"} \subseteq Metrics16
        /\ {"fw_timestamp", "throttling", "vram_bandwidth"} \subseteq Tabled
        /\ {"na32", "na64"} \subseteq Sentinels
    BY TableWidths, NoneKnown DEF Tabled
  <2> QED
    BY <1>4, <2>1, KnownCopies DEF Backends
<1>8. Within(fabric, V)
  <2>1. "fabric_clock" \in Compared(d) => V["fabric_clock"] = Known(d, "fabric_clock")
    BY <1>1, AttrNames
  <2> HIDE DEF V
  <2> QED
    BY <1>1, <2>1 DEF Within, When, Untouched, All, Known
<1>9. "xgmi_error" \notin Compared(d) /\ "processes" \notin Compared(d)
  BY <1>2, AttrNames DEF StatusFields, ClockFields
<1>10. Within(error, V) /\ Within(AmdsmiProcesses(d), V)
  <2> HIDE DEF V
  <2> QED
    BY <1>1, <1>9 DEF Within, AmdsmiProcesses, When, Untouched, All
<1>11. Within(AmdsmiPcieStatus(d), V) /\ "pcie_bandwidth" \in DOMAIN AmdsmiPcieStatus(d)
  BY PullLink DEF Backends
<1>12. StatusOf(d, reply) = ((ranges ++ clocks ++ soc ++ fabric) ++ xgmi ++ copies) ++
                            AmdsmiPcieStatus(d) ++ error ++ AmdsmiProcesses(d)
  <2>1. AmdsmiClockStatus(d, m, reply) = ranges ++ clocks ++ soc ++ fabric
    <3>1. /\ \A u : When("clk_freq_soc" \notin d.fails, u) = u
          /\ \A u : When("clk_freq_df" \notin d.fails /\ "fabric_clock" \notin d.lacks, u)
                      = When("fabric_clock" \notin d.lacks, u)
      BY DEF When
    <3> QED
      BY <3>1, Zenon DEF AmdsmiClockStatus
  <2>2. /\ \A u : When("skip_clock_status" \notin d.skip /\ TRUE, u) = u
        /\ \A u : When("skip_pcie_status" \notin d.skip, u) = u
        /\ \A u : When("skip_process_status" \notin d.skip, u) = u
        /\ \A u : When("skip_xgmi_status" \notin d.skip /\ "xgmi_error_status" \notin d.fails, u) = u
    BY DEF When
  <2> HIDE DEF ranges, clocks, soc, fabric
  <2> QED
    BY <1>4, <2>1, <2>2, Zenon DEF AmdsmiStatus
<1>13. /\ DOMAIN ranges = {"gfx_range"} \union ClockRangeFields
       /\ DOMAIN clocks = {"gfx_clock", "mem_clock", "video_clock", "data_clock"}
       /\ DOMAIN soc = {"soc_clock"}
       /\ "fabric_clock" \in d.lacks \/ DOMAIN fabric = {"fabric_clock"}
       /\ DOMAIN copies = {"fw_timestamp", "throttling", "vram_bandwidth"}
  BY AttrNames DEF Widened, When
<1> HIDE DEF ranges, clocks, soc, fabric, xgmi, copies, error, V
<1>14. Within(StatusOf(d, reply), V)
  BY <1>6, <1>7, <1>8, <1>10, <1>11, <1>12, OverWithin
<1>15. \A f : f \in DOMAIN StatusOf(d, reply) <=>
                  \/ f \in DOMAIN ranges \/ f \in DOMAIN clocks \/ f \in DOMAIN soc
                  \/ f \in DOMAIN fabric \/ f \in DOMAIN xgmi \/ f \in DOMAIN copies
                  \/ f \in DOMAIN AmdsmiPcieStatus(d) \/ f \in DOMAIN error
                  \/ f \in DOMAIN AmdsmiProcesses(d)
  BY <1>12, OverFields
<1>16. ClockFields = {"gfx_clock", "mem_clock", "video_clock", "data_clock", "soc_clock",
                      "fabric_clock"}
  BY DEF ClockFields
<1>17. \A f \in Compared(d) \intersect StatusFields :
           f \in DOMAIN StatusOf(d, reply) \/ (f = "fabric_clock" /\ f \in d.lacks)
  BY <1>2, <1>11, <1>13, <1>15, <1>16
<1> QED
  BY <1>14, <1>17 DEF V

\* smi_gpu_init_attrs: the ranges of the clocks come first.
LEMMA PullCreate ==
  ASSUME NEW d, d.fails = {}, d.backend \in {"amdsmi", "wsl"}
  PROVE  /\ DOMAIN Created(d) \subseteq SpecFields \union IdentityFields
         /\ \A r \in {"gfx_range", "mem_range", "video_range", "data_range"} :
                r \in DOMAIN Created(d) /\ Created(d)[r] = Read(d, r, "na32")
<1> DEFINE S == SpecFields \union IdentityFields
           ranges == AmdsmiClockRanges(d)
           vram   == AmdsmiVramStatus(d)
           ids    == AmdsmiEnumeration(d)
           strings(missed) ==
             [serial_num |-> Ask(d, "board_info", "serial_num", "zero", missed),
              driver_version |-> Ask(d, "driver_info", "driver_version", "zero", missed),
              card_model |-> IF missed = "zero"
                             THEN IF "asic_info" \notin d.fails THEN "card_model"
                                  ELSE Ask(d, "board_info", "card_model", "zero", "zero")
                             ELSE LET board == Ask(d, "board_info", "card_model", "zero", "junk")
                                  IN IF board = "zero" /\ "asic_info" \notin d.fails
                                     THEN "card_model" ELSE board]
           virt   == When("virtualization_mode" \notin d.fails,
                          [virtualization_mode |-> Read(d, "virtualization_mode", "zero")])
           vbios  == When("vbios_info" \notin d.fails,
                          [vbios_version |-> Read(d, "vbios_version", "zero"),
                           card_sku |-> Read(d, "card_sku", "zero")])
           fw     == When("fw_info" \notin d.fails, [fw_version |-> Read(d, "fw_version", "absent")])
           vendor == When("vram_vendor" \notin d.fails,
                          [memory_vendor |-> Read(d, "memory_vendor", "zero")])
           bdf    == When("bdf_id" \notin d.fails, [pcie_bus_id |-> Read(d, "pcie_bus_id", "zero")])
           over   == When("overdrive" \notin d.fails, [overdrive |-> Read(d, "overdrive", "na32")])
           perf   == When("perf_level" \notin d.fails, [perf_level |-> Read(d, "perf_level", "zero")])
           cap    == When("power_cap" \notin d.fails, [power_cap |-> Read(d, "power_cap", "zero")])
<1>1. PICK board :
          /\ Created(d) = (ranges ++ vram ++ ids ++ board ++ virt ++ vbios ++ fw ++ vendor ++ bdf) ++
                          (over ++ perf ++ cap)
          /\ (board = strings("zero") \/ board = strings("junk"))
  <2>1. AmdsmiConfig(d) = over ++ perf ++ cap
    BY DEF AmdsmiConfig
  <2>2. CASE d.backend = "amdsmi"
    <3>1. AmdsmiIdentity(d) = ranges ++ vram ++ ids ++ strings("junk") ++ virt ++ vbios ++ fw ++
                              vendor ++ bdf
      BY DEF AmdsmiIdentity
    <3>2. Created(d) = AmdsmiIdentity(d) ++ AmdsmiConfig(d)
      BY <2>2 DEF Created, AmdsmiCreate
    <3> HIDE DEF strings, virt, vbios, fw, vendor, bdf, over, perf, cap, ranges, vram, ids
    <3> QED
      BY <2>1, <3>1, <3>2, Zenon
  <2>3. CASE d.backend = "wsl"
    <3>1. WslIdentity(d) = ranges ++ vram ++ ids ++ strings("zero") ++ virt ++ vbios ++ fw ++
                           vendor ++ bdf
      BY DEF WslIdentity, WslClockRanges, WslVramStatus, WslEnumeration
    <3>2. Created(d) = WslIdentity(d) ++ AmdsmiConfig(d)
      BY <2>3 DEF Created, WslCreate, WslConfig
    <3> HIDE DEF strings, virt, vbios, fw, vendor, bdf, over, perf, cap, ranges, vram, ids
    <3> QED
      BY <2>1, <3>1, <3>2, Zenon
  <2> QED
    BY <2>2, <2>3
<1>2. /\ DOMAIN ranges \subseteq S /\ DOMAIN board \subseteq S
      /\ \A r \in {"gfx_range", "mem_range", "video_range", "data_range"} :
             r \in DOMAIN ranges /\ ranges[r] = Read(d, r, "na32")
  BY <1>1 DEF AmdsmiClockRanges, Ask, SpecFields, IdentityFields
<1>3. /\ DOMAIN vram \subseteq S /\ DOMAIN ids \subseteq S
      /\ DOMAIN virt \subseteq S /\ DOMAIN vbios \subseteq S /\ DOMAIN fw \subseteq S
      /\ DOMAIN vendor \subseteq S /\ DOMAIN bdf \subseteq S
  BY DEF When, Untouched, All, SpecFields, IdentityFields, AmdsmiVramStatus, AmdsmiEnumeration
<1>4. DOMAIN over \subseteq S /\ DOMAIN perf \subseteq S /\ DOMAIN cap \subseteq S
  BY DEF When, Untouched, All, SpecFields
<1> HIDE DEF S, strings, virt, vbios, fw, vendor, bdf, over, perf, cap, ranges, vram, ids
<1>5. DOMAIN Created(d) \subseteq S
  BY <1>1, <1>2, <1>3, <1>4, OverNarrow
<1>6. \A r \in {"gfx_range", "mem_range", "video_range", "data_range"} :
          r \in DOMAIN Created(d) /\ Created(d)[r] = ranges[r]
  BY <1>1, <1>2, OverFields
<1> QED
  BY <1>2, <1>5, <1>6 DEF S

\* gim: the status of the GPU, and the statistics.
LEMMA GimPull ==
  ASSUME NEW d, d.fails = {}, d.skip = {}, d.backend = "gim", NEW reply
  PROVE  /\ Within(StatusOf(d, reply), PullValues(d)) /\ Within(StatsOf(d), PullValues(d))
         /\ \A f \in Compared(d) : f \in DOMAIN StatusOf(d, reply) \/ f \in DOMAIN StatsOf(d)
<1> DEFINE V == PullValues(d)
<1>1. /\ DOMAIN V = Compared(d)
      /\ \A f \in Compared(d) : f # "free_vram" /\ f \notin ClockRangeFields => V[f] = Known(d, f)
  BY PullValue
<1>2. Compared(d) \subseteq {"gfx_clock", "mem_clock", "memory_temp", "gfx_activity", "umc_activity",
                             "mm_activity", "gfx_voltage", "soc_voltage", "mem_voltage",
                             "pcie_bandwidth", "ecc_block", "ecc_total"}
  BY ComparedNames DEF Backends
<1>3. \A f \in Compared(d) : V[f] = Known(d, f) /\ f \in Fields
  BY <1>1, <1>2, AttrNames, ComparedNames DEF Backends
<1>4. \A f \in Fields : \A na \in NothingKnown : Read(d, f, na) \in Known(d, f)
  BY KnownReads, NoneKnown
<1>5. \A f \in Compared(d) : \A na \in NothingKnown : Read(d, f, na) \in V[f]
  BY <1>3, <1>4
<1> HIDE DEF V
<1> DEFINE none   == [xgmi_width |-> "na64", xgmi_speed |-> "na64", xgmi_error |-> "zero"]
           clocks == [c \in ClockFields |-> Read(d, c, "na32")]
           ranges == [r \in ClockRangeFields |->
                          LET c == CHOOSE x \in DOMAIN RangeOf : RangeOf[x] = r
                          IN Read(d, SpecRangeOf[c], "na32")]
           bdf    == [pcie_bus_id |-> Read(d, "pcie_bus_id", "zero")]
<1>6. StatusOf(d, reply) = none ++ (clocks ++ ranges) ++ (AmdsmiPcieStatus(d) ++ bdf)
  <2>1. GimClockStatus(d) = clocks ++ ranges
    <3>1. {c \in ClockFields : ClockCall[c] \notin d.fails} = ClockFields
      OBVIOUS
    <3>2. {RangeOf[c] : c \in ClockFields \intersect DOMAIN RangeOf} = ClockRangeFields
      BY DEF ClockRangeFields, RangeOf, ClockFields
    <3> QED
      BY <3>1, <3>2, Zenon DEF GimClockStatus
  <2>2. GimPcieStatus(d) = AmdsmiPcieStatus(d) ++ bdf
    <3>1. GimPcieStatus(d) = AmdsmiPcieStatus(d) ++ When("bdf_id" \notin d.fails, bdf)
      BY DEF GimPcieStatus, AmdsmiPcieStatus
    <3>2. When("bdf_id" \notin d.fails, bdf) = bdf
      BY DEF When
    <3> HIDE DEF bdf
    <3> QED
      BY <3>1, <3>2, Zenon
  <2>3. StatusOf(d, reply) = GimStatus(d)
    BY DEF StatusOf
  <2>4. /\ \A u : When("session_status" \notin d.fails, u) = u
        /\ \A u : When("skip_clock_status" \notin d.skip, u) = u
        /\ \A u : When("skip_pcie_status" \notin d.skip, u) = u
    BY DEF When
  <2> HIDE DEF none, clocks, ranges, bdf
  <2>5. GimStatus(d) = none ++ GimClockStatus(d) ++ GimPcieStatus(d)
    BY <2>4, Zenon DEF GimStatus, Guarded, none
  <2> QED
    BY <2>1, <2>2, <2>3, <2>5
<1>7. /\ Within(none, V) /\ Within(clocks, V) /\ Within(ranges, V) /\ Within(bdf, V)
  <2>1. /\ "xgmi_width" \notin Compared(d) /\ "xgmi_speed" \notin Compared(d)
        /\ "xgmi_error" \notin Compared(d) /\ "pcie_bus_id" \notin Compared(d)
    BY <1>2
  <2>2. ClockRangeFields \intersect Compared(d) = {}
    BY <1>2, AttrNames
  <2>3. "na32" \in NothingKnown
    BY NoneKnown
  <2> QED
    BY <1>1, <1>5, <2>1, <2>2, <2>3 DEF Within
<1>8. Within(AmdsmiPcieStatus(d), V) /\ "pcie_bandwidth" \in DOMAIN AmdsmiPcieStatus(d)
  BY PullLink DEF V, Backends
<1>9. /\ Within(StatusOf(d, reply), V)
      /\ \A f : f \in ClockFields \union {"pcie_bandwidth"} => f \in DOMAIN StatusOf(d, reply)
  <2>1. DOMAIN clocks = ClockFields
    OBVIOUS
  <2> HIDE DEF none, clocks, ranges, bdf
  <2> QED
    BY <1>6, <1>7, <1>8, <2>1, OverWithin, OverFields
<1>10. "na64" \in NothingKnown /\ "na32" \in NothingKnown /\ "zero" \in NothingKnown
  BY NoneKnown
<1>11. /\ Within([f \in {"package_power", "soc_voltage", "gfx_voltage", "mem_voltage"} |->
                      Read(d, f, "na64")], V)
       /\ Within([f \in {"gfx_activity", "umc_activity", "mm_activity"} |-> Read(d, f, "na32")], V)
       /\ Within([f \in {"replay_count", "recovery_count", "rollover_count", "nack_count"} |->
                      Read(d, f, "na64")], V)
       /\ Within([f \in {"edge_temp", "junction_temp", "memory_temp", "hbm_temp"} |->
                      Read(d, f, "zero")], V)
  BY <1>1, <1>5, <1>10 DEF Within
<1>12. Within(GimWalk(d), V)
  <2>1. \A f \in Compared(d) : f \notin {"vcn_activity", "vcn_busy", "jpeg_activity", "jpeg_busy",
                                         "gfx_busy"} \union ViolationFields
    BY <1>2 DEF ViolationFields
  <2>2. {"residency_per", "gfx_limit_per", "low_util_per"} \subseteq ViolationFields
    BY DEF ViolationFields
  <2>3. /\ Within([f \in {"vcn_activity", "vcn_busy", "jpeg_activity", "jpeg_busy", "gfx_busy"} |->
                       Streamed(d, f, "na32")], V)
        /\ Within([f \in ViolationFields \ {"residency_per", "gfx_limit_per", "low_util_per"} |->
                       Streamed(d, f, "na64")], V)
        /\ Within(All({"residency_per", "gfx_limit_per", "low_util_per"}, "na64"), V)
    BY <1>1, <2>1, <2>2 DEF Within, All
  <2> QED
    BY <2>3, GimWalkLayers, Zenon
<1>13. Within(GimEcc(d), V)
  <2>1. Ask(d, "ecc_count", "ecc_total", "zero", "zero") = Read(d, "ecc_total", "zero")
    BY DEF Ask
  <2>2. /\ Within([ecc_total |-> Ask(d, "ecc_count", "ecc_total", "zero", "zero")], V)
        /\ Within([ecc_block |-> Read(d, "ecc_block", "zero")], V)
    BY <1>1, <1>5, <1>10, <2>1 DEF Within
  <2> QED
    BY <2>2, WhenWithin, OverWithin, Zenon DEF GimEcc
<1>14. Within(GimReadings(d), V)
  BY <1>11, <1>12, <1>13, GimStatsLayers, Zenon
<1>15. /\ \A f \in StatsFields : f \notin Excused(d) => f \in DOMAIN GimReadings(d)
       /\ \A f : f \in DOMAIN StatsOf(d) <=>
                     \/ f \in DOMAIN GimReadings(d) \/ f \in {"total_vram", "used_vram", "free_vram"}
                     \/ f \in UsageFields \/ f \in PcieStatsFields \union {"xgmi_link"}
       /\ \A f \in DOMAIN GimReadings(d) : StatsOf(d)[f] = GimReadings(d)[f]
  BY GimStatsNames
<1>16. \A f \in Compared(d) \intersect StatsFields : f \in DOMAIN GimReadings(d)
  <2>1. Excused(d) = NotProvided(d)
    BY DEF Excused
  <2>2. Compared(d) \intersect StatsFields \intersect NotProvided(d) = {}
    <3>1. {"gfx_clock", "mem_clock", "pcie_bandwidth"} \intersect StatsFields = {}
      BY DEF StatsFields, UsageFields, PcieStatsFields, ViolationFields
    <3> QED
      BY <1>2, <3>1 DEF NotProvided
  <2> QED
    BY <1>15, <2>1, <2>2
<1>17. {"total_vram", "used_vram", "free_vram"} \union UsageFields \union PcieStatsFields \union
       {"xgmi_link"} \subseteq StatsFields
  BY DEF StatsFields
<1>18. Within(StatsOf(d), V)
  BY <1>1, <1>14, <1>15, <1>16, <1>17 DEF Within
<1>19. \A f \in Compared(d) : f \in ClockFields \union {"pcie_bandwidth"} \/ f \in StatsFields
  BY <1>2 DEF ClockFields, StatsFields, UsageFields
<1> QED
  BY <1>9, <1>15, <1>16, <1>18, <1>19 DEF V

\* So a GPUGet tells what there is to tell.
LEMMA PullTells ==
  ASSUME NEW d, d.fails = {}, d.skip = {}, Placed(d), d.backend \in Backends,
         {"fails", "lacks", "sentinels"} \subseteq DOMAIN d
  PROVE  \A f \in Compared(d) : Pulled(d)[f] \in PullValues(d)[f]
<1>1. /\ DOMAIN PullValues(d) = Compared(d) /\ Compared(d) \subseteq Fields
      /\ Compared(d) \intersect (SpecFields \union IdentityFields) = {}
      /\ Compared(d) \subseteq StatusFields \union StatsFields
  BY PullValue, ComparedNames
<1> DEFINE created == Update(Cleared, Created(d))
           spec    == Update(created, SpecOf(d))
           status  == Update(spec, StatusOf(d, spec))
<1>2. Pulled(d) = Update(status, StatsOf(d))
  BY DEF Pulled
<1>3. DOMAIN created = Fields /\ DOMAIN spec = Fields /\ DOMAIN status = Fields
  <2>1. DOMAIN Cleared = Fields
    BY DEF Cleared
  <2> HIDE DEF created, spec, status
  <2> QED
    BY <2>1, UpdateFields DEF created, spec, status
<1>4. \A f \in Fields :
          /\ f \in DOMAIN StatsOf(d) => Pulled(d)[f] = StatsOf(d)[f]
          /\ f \notin DOMAIN StatsOf(d) => Pulled(d)[f] = status[f]
          /\ f \in DOMAIN StatusOf(d, spec) => status[f] = StatusOf(d, spec)[f]
          /\ f \notin DOMAIN StatusOf(d, spec) => status[f] = spec[f]
  <2>1. \A f \in Fields : /\ f \in DOMAIN StatsOf(d) => Pulled(d)[f] = StatsOf(d)[f]
                          /\ f \notin DOMAIN StatsOf(d) => Pulled(d)[f] = status[f]
    <3> HIDE DEF status
    <3> QED
      BY <1>2, <1>3, UpdateFields
  <2>2. \A f \in Fields : /\ f \in DOMAIN StatusOf(d, spec) => status[f] = StatusOf(d, spec)[f]
                          /\ f \notin DOMAIN StatusOf(d, spec) => status[f] = spec[f]
    <3> HIDE DEF spec
    <3> QED
      BY <1>3, UpdateFields
  <2> QED
    BY <2>1, <2>2
<1>5. CASE d.backend = "gim"
  <2> HIDE DEF status, spec, created
  <2>1. /\ Within(StatusOf(d, spec), PullValues(d)) /\ Within(StatsOf(d), PullValues(d))
        /\ \A f \in Compared(d) : f \in DOMAIN StatusOf(d, spec) \/ f \in DOMAIN StatsOf(d)
    BY <1>5, GimPull
  <2> QED
    BY <1>1, <1>4, <2>1 DEF Within
<1>6. CASE d.backend \in {"amdsmi", "wsl"}
  <2>1. SpecOf(d) = Untouched
    BY <1>6 DEF SpecOf, When
  <2>2. /\ DOMAIN Created(d) \subseteq SpecFields \union IdentityFields
        /\ \A r \in {"gfx_range", "mem_range", "video_range", "data_range"} :
               r \in DOMAIN Created(d) /\ Created(d)[r] = Read(d, r, "na32")
    BY <1>6, PullCreate
  <2>3. \A f \in Fields : /\ spec[f] = created[f]
                          /\ f \in DOMAIN Created(d) => created[f] = Created(d)[f]
                          /\ f \notin DOMAIN Created(d) => created[f] = Cleared[f]
    <3>1. DOMAIN Untouched = {}
      BY DEF Untouched, All
    <3>2. \A f \in Fields : spec[f] = created[f]
      <4> HIDE DEF created
      <4> QED
        BY <1>3, <2>1, <3>1, UpdateFields
    <3>3. DOMAIN Cleared = Fields
      BY DEF Cleared
    <3> QED
      BY <3>2, <3>3, UpdateFields
  <2> HIDE DEF status, spec, created
  <2>4. \A r \in {"gfx_range", "mem_range", "video_range", "data_range"} :
            spec[r] = Read(d, r, "na32")
    BY <2>2, <2>3 DEF Fields, SpecFields
  <2>5. /\ Within(StatusOf(d, spec), PullValues(d))
        /\ \A f \in Compared(d) \intersect StatusFields :
               f \in DOMAIN StatusOf(d, spec) \/ (f = "fabric_clock" /\ f \in d.lacks)
    BY <1>3, <1>6, <2>4, PullStatus
  <2>6. /\ Within(StatsOf(d), PullValues(d))
        /\ \A f \in Compared(d) \intersect StatsFields : f \in DOMAIN StatsOf(d)
    BY <1>6, PullStats
  <2>7. ASSUME NEW f \in Compared(d), f \notin DOMAIN StatusOf(d, spec), f \notin DOMAIN StatsOf(d)
        PROVE  Pulled(d)[f] \in PullValues(d)[f]
    <3>1. f = "fabric_clock" /\ f \in d.lacks
      BY <1>1, <2>5, <2>6, <2>7
    <3>2. Pulled(d)[f] = Cleared[f]
      BY <1>1, <1>4, <2>2, <2>3, <2>7
    <3>3. Cleared[f] = "absent"
      BY <1>1, <3>1 DEF Cleared, Repeated, ClockFields
    <3>4. PullValues(d)[f] = NothingKnown
      BY <3>1, PullValue, AttrNames DEF Known
    <3> QED
      BY <3>2, <3>3, <3>4, NoneKnown
  <2> QED
    BY <1>1, <1>4, <2>5, <2>6, <2>7 DEF Within
<1> QED
  BY <1>5, <1>6 DEF Backends
-----------------------------------------------------------------------------
\* The attributes that are to have what there is to tell: those a GPUGet has a
\* field for, but for one of several sources whose first the device lacks.
Agreeing(d) ==
    {a \in WatchFields \ Divergent(d) :
         /\ PullName(a) \in Fields
         /\ a \in WithFallback => PullName(a) \notin d.lacks}

AgreeValues(d) == [a \in Agreeing(d) |-> ToTell(d, PullName(a))]

LEMMA AgreeValue ==
  ASSUME NEW d, d.backend \in Backends
  PROVE  /\ DOMAIN AgreeValues(d) = Agreeing(d) /\ Agreeing(d) \subseteq WatchFields
         /\ \A a \in Agreeing(d) : /\ PullName(a) \in Compared(d)
                                   /\ AgreeValues(d)[a] = PullValues(d)[PullName(a)]
         /\ \A a \in Agreeing(d) : a # "free_vram" /\ a \notin ClockRangeFields =>
                AgreeValues(d)[a] = Known(d, PullName(a))
         /\ "free_vram" \in Agreeing(d) => AgreeValues(d)["free_vram"] = {FreeOf(d)}
         /\ \A a \in Agreeing(d) \intersect ClockRangeFields :
                AgreeValues(d)[a] = Known(d, RangeReading(a))
         /\ \A a \in Agreeing(d) \intersect WithFallback : PullName(a) \notin d.lacks
         /\ Agreeing(d) \intersect {"pcie_speed", "pcie_max_speed", "pcie_usage",
                                    "xgmi_throughput"} = {}
         /\ d.backend = "gim" => Agreeing(d) \subseteq
                {"gpu_clock", "memory_clock", "memory_temp", "gfx_activity", "umc_activity",
                 "mm_activity", "gfx_voltage", "soc_voltage", "mem_voltage", "pcie_bandwidth",
                 "ecc_block", "ecc_total"}
<1>1. /\ DOMAIN AgreeValues(d) = Agreeing(d) /\ Agreeing(d) \subseteq WatchFields
      /\ \A a \in Agreeing(d) : PullName(a) \in Compared(d)
      /\ \A a \in Agreeing(d) \intersect WithFallback : PullName(a) \notin d.lacks
      /\ \A a \in Agreeing(d) : a \notin Divergent(d) /\ PullName(a) \in Fields
      /\ \A a \in Agreeing(d) : AgreeValues(d)[a] = ToTell(d, PullName(a))
  BY DEF Agreeing, AgreeValues, Compared
<1>2. \A a \in Agreeing(d) : AgreeValues(d)[a] = PullValues(d)[PullName(a)]
  BY <1>1 DEF PullValues
<1>3. /\ \A a \in WatchFields : PullName(a) = "free_vram" <=> a = "free_vram"
      /\ \A a \in WatchFields : PullName(a) \in ClockRangeFields <=> a \in ClockRangeFields
      /\ \A a \in ClockRangeFields : PullName(a) = a
      /\ \A a \in WatchFields : a \in {"pcie_usage", "xgmi_throughput"} => PullName(a) = a
  BY AttrNames DEF PullName
<1>4. "free_vram" \notin ClockRangeFields
  BY AttrNames
<1>5. {"pcie_usage", "xgmi_throughput"} \intersect Fields = {}
  BY AttrNames DEF Fields, SpecFields, IdentityFields, StatusFields, StatsFields,
     ClockFields, UsageFields, PcieStatsFields, ViolationFields
<1>6. {"pcie_speed", "pcie_max_speed"} \subseteq Divergent(d)
  BY DEF Divergent
<1>7. d.backend = "gim" => Agreeing(d) \subseteq
          {"gpu_clock", "memory_clock", "memory_temp", "gfx_activity", "umc_activity",
           "mm_activity", "gfx_voltage", "soc_voltage", "mem_voltage", "pcie_bandwidth",
           "ecc_block", "ecc_total"}
  BY <1>1 DEF Divergent
<1> QED
  BY <1>1, <1>2, <1>3, <1>4, <1>5, <1>6, <1>7 DEF ToTell

\* The calls of a slow tick, all of them answered,
LEMMA AgreeCalls ==
  ASSUME NEW d, d.fails = {}, d.backend \in Backends, NEW seed
  PROVE  /\ Within(WatchEcc(d), AgreeValues(d)) /\ Within(WatchEccTotal(d), AgreeValues(d))
         /\ Within(WatchViolation(d), AgreeValues(d)) /\ Within(WatchMemory(d, seed), AgreeValues(d))
         /\ Within(WatchUsed(d), AgreeValues(d)) /\ Within(WatchPcie(d), AgreeValues(d))
         /\ Within([pcie_usage |-> "zero"], AgreeValues(d))
         /\ Within(WatchXgmi(d, "xgmi_requests"), AgreeValues(d))
         /\ Within(WatchXgmi(d, "xgmi_responses"), AgreeValues(d))
         /\ Within(WatchThroughput(d), AgreeValues(d))
<1>1. PICK L : L = AgreeValues(d)
  OBVIOUS
<1>2. /\ DOMAIN L = Agreeing(d)
      /\ "free_vram" \in Agreeing(d) => L["free_vram"] = {FreeOf(d)}
      /\ Agreeing(d) \intersect {"pcie_speed", "pcie_max_speed", "pcie_usage", "xgmi_throughput"} = {}
  BY <1>1, AgreeValue
<1> DEFINE own == ViolationFields \union
                  {"ecc_block", "ecc_total", "total_vram", "used_vram", "pcie_bandwidth",
                   "xgmi_requests", "xgmi_responses"}
<1>3. \A a \in own : /\ a \in Agreeing(d) => L[a] = Known(d, a)
                     /\ a \in Fields
  <2>1. \A a \in own : a # "free_vram" /\ a \notin ClockRangeFields /\ PullName(a) = a
    BY AttrNames DEF PullName, ViolationFields
  <2>2. \A a \in own : a \in Fields
    BY DEF Fields, StatusFields, StatsFields
  <2> HIDE DEF own
  <2> QED
    BY <1>1, <2>1, <2>2, AgreeValue
<1>4. \A a \in own : \A na \in NothingKnown : Read(d, a, na) \in Known(d, a)
  BY <1>3, KnownReads, NoneKnown
<1>5. "zero" \in NothingKnown /\ "na64" \in NothingKnown /\ "na32" \in NothingKnown
  BY NoneKnown
<1>6. Within(WatchEcc(d), L) /\ Within(WatchEccTotal(d), L)
  <2>1. Within([ecc_block |-> Read(d, "ecc_block", "zero")], L)
    BY <1>2, <1>3, <1>4, <1>5 DEF Within
  <2>2. WatchEccTotal(d) = [ecc_total |-> Read(d, "ecc_total", "zero")]
    BY DEF WatchEccTotal, Ask
  <2>3. Within(WatchEccTotal(d), L)
    BY <1>2, <1>3, <1>4, <1>5, <2>2 DEF Within
  <2> QED
    BY <2>1, <2>3, WhenWithin, Zenon DEF WatchEcc
<1>7. Within(WatchViolation(d), L)
  <2>1. Within([f \in ViolationFields |-> Read(d, f, "na64")], L)
    BY <1>2, <1>3, <1>4, <1>5 DEF Within
  <2> QED
    BY <2>1, WhenWithin, Zenon DEF WatchViolation
<1>8. Within(WatchMemory(d, seed), L)
  <2> DEFINE sizes == [total_vram |-> Read(d, "total_vram", "zero"), free_vram |-> FreeOf(d)]
             speed == [f \in {"pcie_speed", "pcie_max_speed"} \ d.lacks |-> f]
  <2>1. WatchMemory(d, seed) = sizes ++ When("pcie_info" \notin d.fails, speed)
    <3>1. /\ Ask(d, "memory_total", "total_vram", "zero", seed["total_vram"])
                 = Read(d, "total_vram", "zero")
          /\ Ask(d, "memory_usage", "used_vram", "zero", "zero") = Read(d, "used_vram", "zero")
      BY DEF Ask
    <3> HIDE DEF speed
    <3> QED
      BY <3>1 DEF WatchMemory, FreeOf, speed
  <2>2. Within(sizes, L)
    BY <1>2, <1>3, <1>4, <1>5 DEF Within
  <2>3. Within(speed, L)
    BY <1>2 DEF Within
  <2> QED
    BY <2>1, <2>2, <2>3, OverWithin, WhenWithin, Zenon
<1>9. Within(WatchUsed(d), L) /\ Within(WatchPcie(d), L) /\ Within([pcie_usage |-> "zero"], L)
  <2>1. Widen(Read(d, "pcie_bandwidth", "na32"), "na32", "na64") \in Known(d, "pcie_bandwidth")
    <3>1. "pcie_bandwidth" \in Fields
      BY <1>3
    <3> QED
      BY <3>1, NoneKnown, KnownReads
  <2>2. /\ Within([used_vram |-> Read(d, "used_vram", "zero")], L)
        /\ Within([pcie_usage |-> "zero"], L)
        /\ Within([pcie_bandwidth |-> Widen(Read(d, "pcie_bandwidth", "na32"), "na32", "na64")], L)
    BY <1>2, <1>3, <1>4, <1>5, <2>1 DEF Within
  <2> QED
    BY <2>2, WhenWithin, OverWithin, Zenon DEF WatchUsed, WatchPcie
<1>10. /\ Within(WatchXgmi(d, "xgmi_requests"), L) /\ Within(WatchXgmi(d, "xgmi_responses"), L)
       /\ Within(WatchThroughput(d), L)
  <2>1. \A f \in {"xgmi_requests", "xgmi_responses"} : f \in own
    OBVIOUS
  <2>2. \A f \in {"xgmi_requests", "xgmi_responses", "xgmi_throughput"} :
            /\ DOMAIN WatchXgmi(d, f) \subseteq {f}
            /\ f \in DOMAIN WatchXgmi(d, f) => f \notin d.lacks /\ WatchXgmi(d, f)[f] = f
    BY DEF WatchXgmi, When, Untouched, All
  <2> HIDE DEF own
  <2>3. \A f \in {"xgmi_requests", "xgmi_responses", "xgmi_throughput"} :
            Within(WatchXgmi(d, f), L)
    BY <1>2, <1>3, <2>1, <2>2 DEF Within, Known
  <2> QED
    BY <2>3 DEF WatchThroughput
<1> QED
  BY <1>1, <1>6, <1>7, <1>8, <1>9, <1>10

\* its clocks,
LEMMA AgreeClocks ==
  ASSUME NEW d, d.fails = {}, d.backend \in Backends, NEW m, KnownTable(d, m)
  PROVE  Within(WatchClocks(d, m), AgreeValues(d))
<1>1. PICK L : L = AgreeValues(d)
  OBVIOUS
<1>2. DOMAIN L = Agreeing(d)
  BY <1>1, AgreeValue
<1>3. \A c \in ClockFields : /\ c \in Agreeing(d) => L[c] = Known(d, c)
                             /\ c \in Fields
  <2>1. \A c \in ClockFields : c # "free_vram" /\ c \notin ClockRangeFields /\ PullName(c) = c
    BY AttrNames DEF PullName, ClockFields
  <2>2. \A c \in ClockFields : c \in Fields
    BY DEF Fields, StatusFields
  <2> QED
    BY <1>1, <2>1, <2>2, AgreeValue
<1> DEFINE clocks == [c \in DOMAIN RangeOf |->
                          IF Stored(d, m, c) THEN Widen(m[c], "na16", "na64") ELSE "absent"]
           ranges == [r \in ClockRangeFields |->
                          LET c == CHOOSE x \in DOMAIN RangeOf : RangeOf[x] = r
                          IN IF Stored(d, m, c) THEN WatchRange(d, c) ELSE "absent"]
           others == [soc_clock |-> IF "clk_freq_soc" \in d.fails THEN "absent"
                                    ELSE Widen(m["soc_clock"], "na16", "na64"),
                      fabric_clock |-> IF "clk_freq_df" \in d.fails \/ "fabric_clock" \in d.lacks
                                       THEN "absent" ELSE "fabric_clock"]
<1>4. WatchClocks(d, m) = clocks ++ ranges ++ others
  BY DEF WatchClocks
<1>5. \A c \in {"gfx_clock", "mem_clock", "video_clock", "data_clock", "soc_clock"} :
          Widen(m[c], "na16", "na64") \in Known(d, c)
  <2>1. \A c \in {"gfx_clock", "mem_clock", "video_clock", "data_clock", "soc_clock"} : c \in Tabled
    BY TableWidths DEF Tabled
  <2> QED
    BY <2>1, KnownCopies, NoneKnown
<1>6. \A c \in DOMAIN RangeOf : /\ WatchRange(d, c) = Read(d, SpecRangeOf[c], "na32")
                                /\ SpecRangeOf[c] \in SpecFields
  BY DEF WatchRange, Ask, RangeOf, SpecRangeOf, SpecFields
<1>7. \A c \in DOMAIN RangeOf : Stored(d, m, c)
  <2>1. \A f \in SpecFields : f # "na64"
    BY DEF SpecFields
  <2>2. \A c \in DOMAIN RangeOf : WatchRange(d, c) # "na64"
    BY <1>6, <2>1 DEF Read
  <2> QED
    BY <2>2 DEF Stored
<1>8. Within(clocks, L)
  <2>1. /\ DOMAIN clocks = {"gfx_clock", "mem_clock", "video_clock", "data_clock"}
        /\ \A c \in DOMAIN clocks : clocks[c] = Widen(m[c], "na16", "na64")
        /\ DOMAIN clocks \subseteq ClockFields
    BY <1>7 DEF RangeOf, ClockFields
  <2> HIDE DEF clocks
  <2> QED
    BY <1>2, <1>3, <1>5, <2>1 DEF Within
<1>9. Within(ranges, L)
  <2> SUFFICES ASSUME NEW r \in ClockRangeFields, r \in Agreeing(d)
               PROVE  ranges[r] \in L[r]
    BY <1>2 DEF Within
  <2> DEFINE c == CHOOSE x \in DOMAIN RangeOf : RangeOf[x] = r
  <2>1. c \in DOMAIN RangeOf /\ RangeReading(r) = SpecRangeOf[c]
    BY ClockOfRange DEF RangeReading
  <2>2. ranges[r] = IF Stored(d, m, c) THEN WatchRange(d, c) ELSE "absent"
    OBVIOUS
  <2> HIDE DEF c, ranges
  <2>3. ranges[r] = Read(d, RangeReading(r), "na32") /\ RangeReading(r) \in Fields
    BY <1>6, <1>7, <2>1, <2>2 DEF Fields
  <2>4. ranges[r] \in Known(d, RangeReading(r))
    BY <2>3, KnownReads, NoneKnown
  <2> QED
    BY <1>1, <2>4, AgreeValue
<1>10. Within(others, L)
  <2>1. /\ DOMAIN others = {"soc_clock", "fabric_clock"} /\ DOMAIN others \subseteq ClockFields
        /\ others["soc_clock"] = Widen(m["soc_clock"], "na16", "na64")
        /\ others["fabric_clock"] = IF "fabric_clock" \in d.lacks THEN "absent" ELSE "fabric_clock"
    BY DEF ClockFields
  <2>2. others["soc_clock"] \in Known(d, "soc_clock") /\ others["fabric_clock"] \in Known(d, "fabric_clock")
    BY <1>5, <2>1, NoneKnown DEF Known
  <2> HIDE DEF others
  <2> QED
    BY <1>2, <1>3, <2>1, <2>2 DEF Within
<1> HIDE DEF clocks, ranges, others
<1>11. Within(WatchClocks(d, m), L)
  BY <1>4, <1>8, <1>9, <1>10, OverWithin
<1> QED
  BY <1>1, <1>11

\* and what every tick takes from the metrics table or, if it has nothing, asks for.
LEMMA AgreeTable ==
  ASSUME NEW d, d.fails = {}, d.backend \in Backends, NEW m, KnownTable(d, m)
  PROVE  /\ Within(WatchBulk(m), AgreeValues(d)) /\ Within(WatchArraysOf(m), AgreeValues(d))
         /\ Within(WatchFallbacks(d, TRUE, m), AgreeValues(d))
         /\ \A a \in Agreeing(d) \intersect WithFallback : a \in DOMAIN WatchFallbacks(d, TRUE, m)
<1>1. PICK L : L = AgreeValues(d)
  OBVIOUS
<1>2. /\ DOMAIN L = Agreeing(d)
      /\ \A a \in Agreeing(d) \intersect WithFallback : PullName(a) \notin d.lacks
  BY <1>1, AgreeValue
<1>3. \A f \in Tabled : /\ m[f] \in Known(d, f)
                        /\ Widen(m[f], "na16", "na64") \in Known(d, f)
                        /\ Widen(Widen(m[f], "na16", "na64"), "na32", "na64") \in Known(d, f)
                        /\ f \notin d.lacks => m[f] = f
                        /\ f \notin NothingKnown
  <2>1. \A f \in Tabled : /\ m[f] \in Known(d, f) /\ f \notin Sentinels
                          /\ Widen(m[f], "na16", "na64") \in Known(d, f)
                          /\ f \notin NothingKnown
    BY KnownCopies, NoneKnown DEF KnownTable
  <2>2. \A f \in Tabled : Widen(Widen(m[f], "na16", "na64"), "na32", "na64") \in Known(d, f)
    BY <2>1, KnownReads, NoneKnown
  <2> QED
    BY <2>1, <2>2 DEF Known
<1>4. \A a \in BulkScalars \union WatchArrays :
          /\ a \in Tabled
          /\ a \in Agreeing(d) => L[a] = Known(d, a)
  <2>1. \A a \in BulkScalars \union WatchArrays :
            a # "free_vram" /\ a \notin ClockRangeFields /\ PullName(a) = a
    BY AttrNames DEF PullName, BulkScalars, WatchArrays
  <2>2. \A a \in BulkScalars \union WatchArrays : a \in Tabled
    BY TableWidths DEF Tabled, BulkScalars, WatchArrays
  <2> QED
    BY <1>1, <2>1, <2>2, AgreeValue
<1>5. Within(WatchBulk(m), L) /\ Within(WatchArraysOf(m), L)
  BY <1>2, <1>3, <1>4 DEF Within, WatchBulk, WatchArraysOf, Widened
<1>6. \A a \in Agreeing(d) \intersect WithFallback : L[a] = {PullName(a)}
  <2>1. \A a \in WithFallback : a # "free_vram" /\ a \notin ClockRangeFields
    BY AttrNames DEF WithFallback
  <2> QED
    BY <1>1, <1>2, <2>1, AgreeValue DEF Known
<1>7. /\ PullName("gpu_clock") = "gfx_clock" /\ PullName("memory_clock") = "mem_clock"
      /\ PullName("memory_temp") = "memory_temp" /\ PullName("gpu_temp") = "edge_temp"
      /\ PullName("power") = "avg_power" /\ PullName("gfx_activity") = "gfx_activity"
  BY DEF PullName
<1>8. {"gfx_clock", "mem_clock", "memory_temp", "edge_temp", "avg_power", "gfx_activity"} \subseteq Tabled
  BY TableWidths DEF Tabled
<1> DEFINE Wide(f) == Widen(m[f], "na16", "na64")
           Single(call, update) == When(call \notin d.fails, update)
           power == IF m["avg_power"] = "na16" THEN Wide("package_power") ELSE m["avg_power"]
           clock == [gpu_clock |-> Wide("gfx_clock")]
           mem   == IF m["mem_clock"] # "na16" THEN [memory_clock |-> m["mem_clock"]]
                    ELSE Single("clk_freq_mem", [memory_clock |-> Read(d, "mem_clock", "junk")])
           vram  == [memory_temp |-> Wide("memory_temp")]
           temp  == IF m["edge_temp"] \notin {"zero", "na16"} THEN [gpu_temp |-> m["edge_temp"]]
                    ELSE Single("temp_edge",
                                IF "edge_temp" \notin d.lacks THEN [gpu_temp |-> "edge_temp"]
                                ELSE When({"temp_junction", "junction_temp"}
                                              \intersect (d.fails \union d.lacks) = {},
                                          [gpu_temp |-> "junction_temp"]))
           watts == IF power \notin {"zero", "na64"} THEN [power |-> power]
                    ELSE Single("power_info", [power |-> Read(d, "avg_power", "na32")]) ++
                         When(TRUE, [power |-> power])
           busy  == [gfx_activity |-> Wide("gfx_activity")]
<1>9. WatchFallbacks(d, TRUE, m) = clock ++ mem ++ vram ++ temp ++ watts ++ busy
  BY DEF WatchFallbacks
<1>10. \A f \in {"gfx_clock", "mem_clock", "memory_temp", "edge_temp", "avg_power", "gfx_activity"} :
           f \notin d.lacks => m[f] = f /\ Wide(f) = f /\ f \notin NothingKnown
  <2>1. "na16" \in NothingKnown
    BY NoneKnown
  <2> QED
    BY <1>3, <1>8, <2>1 DEF Widen
<1>11. Within(clock, L) /\ Within(vram, L) /\ Within(busy, L)
  <2>1. \A a \in {"gpu_clock", "memory_temp", "gfx_activity"} : a \in WithFallback
    BY DEF WithFallback
  <2>2. \A a \in Agreeing(d) : a \in {"gpu_clock", "memory_temp", "gfx_activity"} =>
            L[a] = {PullName(a)} /\ PullName(a) \notin d.lacks
    BY <1>2, <1>6, <2>1
  <2> HIDE DEF Wide
  <2> QED
    BY <1>2, <1>7, <1>10, <2>2 DEF Within
<1>12. /\ Within(mem, L)
       /\ "memory_clock" \in Agreeing(d) => "memory_clock" \in DOMAIN mem
       /\ DOMAIN mem \subseteq {"memory_clock"}
  <2>1. CASE "memory_clock" \in Agreeing(d)
    <3>1. L["memory_clock"] = {"mem_clock"} /\ "mem_clock" \notin d.lacks
      BY <1>2, <1>6, <1>7, <2>1 DEF WithFallback
    <3>2. mem = [memory_clock |-> "mem_clock"]
      BY <1>10, <3>1, NoneKnown
    <3> QED
      BY <3>1, <3>2 DEF Within
  <2>2. CASE "memory_clock" \notin Agreeing(d)
    <3>1. DOMAIN mem \subseteq {"memory_clock"}
      BY DEF When, Untouched, All
    <3> QED
      BY <1>2, <2>2, <3>1 DEF Within
  <2> QED
    BY <2>1, <2>2
<1>13. /\ Within(temp, L)
       /\ "gpu_temp" \in Agreeing(d) => "gpu_temp" \in DOMAIN temp
  <2>1. CASE "gpu_temp" \in Agreeing(d)
    <3>1. L["gpu_temp"] = {"edge_temp"} /\ "edge_temp" \notin d.lacks
      BY <1>2, <1>6, <1>7, <2>1 DEF WithFallback
    <3>2. temp = [gpu_temp |-> "edge_temp"]
      BY <1>10, <3>1, NoneKnown
    <3> QED
      BY <3>1, <3>2 DEF Within
  <2>2. CASE "gpu_temp" \notin Agreeing(d)
    <3>1. DOMAIN temp \subseteq {"gpu_temp"}
      BY DEF When, Untouched, All
    <3> QED
      BY <1>2, <2>2, <3>1 DEF Within
  <2> QED
    BY <2>1, <2>2
<1>14. /\ Within(watts, L)
       /\ "power" \in Agreeing(d) => "power" \in DOMAIN watts
  <2>1. CASE "power" \in Agreeing(d)
    <3>1. L["power"] = {"avg_power"} /\ "avg_power" \notin d.lacks
      BY <1>2, <1>6, <1>7, <2>1 DEF WithFallback
    <3>2. power = "avg_power"
      BY <1>10, <3>1, NoneKnown
    <3>3. watts = [power |-> "avg_power"]
      BY <3>2
    <3> HIDE DEF watts
    <3>4. DOMAIN watts = {"power"} /\ watts["power"] = "avg_power"
      BY <3>3
    <3> QED
      BY <3>1, <3>4 DEF Within
  <2>2. CASE "power" \notin Agreeing(d)
    <3>1. PICK p : p = power
      OBVIOUS
    <3>2. /\ Within([power |-> p], L)
          /\ Within([power |-> Read(d, "avg_power", "na32")], L)
      BY <1>2, <2>2 DEF Within
    <3> DEFINE again == When("power_info" \notin d.fails, [power |-> Read(d, "avg_power", "na32")]) ++
                        When(TRUE, [power |-> p])
    <3>3. Within(again, L)
      BY <3>2, OverWithin, WhenWithin, Zenon
    <3>4. watts = [power |-> p] \/ watts = again
      BY <3>1
    <3> HIDE DEF watts, again
    <3> QED
      BY <2>2, <3>2, <3>3, <3>4
  <2> QED
    BY <2>1, <2>2
<1>15. WithFallback = {"gpu_clock", "memory_clock", "memory_temp", "gpu_temp", "power", "gfx_activity"}
  BY DEF WithFallback
<1>16. DOMAIN clock = {"gpu_clock"} /\ DOMAIN vram = {"memory_temp"} /\ DOMAIN busy = {"gfx_activity"}
  OBVIOUS
<1> HIDE DEF clock, mem, vram, temp, watts, busy
<1>17. Within(WatchFallbacks(d, TRUE, m), L)
  BY <1>9, <1>11, <1>12, <1>13, <1>14, OverWithin
<1>18. \A a : a \in DOMAIN WatchFallbacks(d, TRUE, m) <=>
                  \/ a \in DOMAIN clock \/ a \in DOMAIN mem \/ a \in DOMAIN vram
                  \/ a \in DOMAIN temp \/ a \in DOMAIN watts \/ a \in DOMAIN busy
  <2>1. PICK u : u = clock ++ mem ++ vram ++ temp
    OBVIOUS
  <2>2. \A a : a \in DOMAIN u <=> \/ a \in DOMAIN clock \/ a \in DOMAIN mem
                                  \/ a \in DOMAIN vram \/ a \in DOMAIN temp
    BY <2>1, OverFields
  <2>3. \A a : a \in DOMAIN (u ++ watts ++ busy) <=> \/ a \in DOMAIN u \/ a \in DOMAIN watts
                                                   \/ a \in DOMAIN busy
    BY OverFields
  <2>4. WatchFallbacks(d, TRUE, m) = u ++ watts ++ busy
    BY <1>9, <2>1
  <2> QED
    BY <2>2, <2>3, <2>4, Zenon
<1> QED
  BY <1>1, <1>5, <1>12, <1>13, <1>14, <1>15, <1>16, <1>17, <1>18

\* What a slow tick writes: everything, but for counters the device lacks.
LEMMA SlowNames ==
  ASSUME NEW d, d.fails = {}, d.backend \in Backends, NEW seed, NEW m
  PROVE  \A a \in Agreeing(d) \intersect SlowAttrs :
             \/ a \in DOMAIN SlowPart(d, seed, TRUE, m)
             \/ a \in {"xgmi_requests", "xgmi_responses"} /\ a \in d.lacks
<1>1. Agreeing(d) \intersect {"pcie_speed", "pcie_max_speed", "pcie_usage", "xgmi_throughput"} = {}
  BY AgreeValue
<1> DEFINE ecc    == WatchEcc(d)
           total  == WatchEccTotal(d)
           limits == WatchViolation(d)
           memory == WatchMemory(d, seed)
           used   == WatchUsed(d)
           link   == WatchPcie(d)
           sent   == WatchXgmi(d, "xgmi_requests")
           got    == WatchXgmi(d, "xgmi_responses")
           rate   == WatchThroughput(d)
           clocks == WatchClocks(d, m)
<1>2. SlowPart(d, seed, TRUE, m) =
          ecc ++ total ++ limits ++ memory ++ used ++ link ++ sent ++ got ++ rate ++ clocks
  <2>1. When(TRUE, clocks) = clocks
    BY DEF When
  <2> HIDE DEF clocks
  <2> QED
    BY <2>1 DEF SlowPart, clocks
<1>3. /\ DOMAIN ecc = {"ecc_block"} /\ DOMAIN total = {"ecc_total"}
      /\ DOMAIN limits = ViolationFields /\ DOMAIN used = {"used_vram"}
      /\ "xgmi_requests" \in DOMAIN sent \/ "xgmi_requests" \in d.lacks
      /\ "xgmi_responses" \in DOMAIN got \/ "xgmi_responses" \in d.lacks
  BY DEF WatchEcc, WatchEccTotal, WatchViolation, WatchUsed, WatchXgmi, When
<1>4. "total_vram" \in DOMAIN memory /\ "free_vram" \in DOMAIN memory
  <2>1. PICK sizes, speed : memory = sizes ++ speed /\ DOMAIN sizes = {"total_vram", "free_vram"}
    BY DEF WatchMemory
  <2> QED
    BY <2>1, OverFields
<1>5. "pcie_bandwidth" \in DOMAIN link
  <2>1. PICK usage, width : link = usage ++ width /\ DOMAIN width = {"pcie_bandwidth"}
    BY DEF WatchPcie, When
  <2> QED
    BY <2>1, OverFields
<1>6. \A c \in ClockList : c \in DOMAIN clocks
  <2> DEFINE values == [c \in DOMAIN RangeOf |->
                            IF Stored(d, m, c) THEN Widen(m[c], "na16", "na64") ELSE "absent"]
             ranges == [r \in ClockRangeFields |->
                            LET c == CHOOSE x \in DOMAIN RangeOf : RangeOf[x] = r
                            IN IF Stored(d, m, c) THEN WatchRange(d, c) ELSE "absent"]
             others == [soc_clock |-> IF "clk_freq_soc" \in d.fails THEN "absent"
                                      ELSE Widen(m["soc_clock"], "na16", "na64"),
                        fabric_clock |-> IF "clk_freq_df" \in d.fails \/ "fabric_clock" \in d.lacks
                                         THEN "absent" ELSE "fabric_clock"]
  <2>1. clocks = values ++ ranges ++ others
    BY DEF WatchClocks
  <2>2. \A c \in ClockList : c \in DOMAIN values \/ c \in DOMAIN ranges \/ c \in DOMAIN others
    BY DEF ClockList, ClockFields, RangeOf
  <2> HIDE DEF values, ranges, others, clocks
  <2> QED
    BY <2>1, <2>2, OverFields
<1> HIDE DEF ecc, total, limits, memory, used, link, sent, got, rate, clocks
<1> DEFINE In(a, u) == a \in DOMAIN u
<1>7. \A a, u, v : In(a, u) \/ In(a, v) => In(a, u ++ v)
  BY OverFields
<1>8. ASSUME NEW a
      PROVE  \/ In(a, ecc) \/ In(a, total) \/ In(a, limits) \/ In(a, memory) \/ In(a, used)
             \/ In(a, link) \/ In(a, sent) \/ In(a, got) \/ In(a, rate) \/ In(a, clocks)
             => In(a, SlowPart(d, seed, TRUE, m))
  <2> HIDE DEF In
  <2> QED
    BY <1>2, <1>7
<1>9. SlowAttrs = ClockList \union ViolationFields \union
                  {"pcie_usage", "pcie_bandwidth", "used_vram", "ecc_block", "ecc_total",
                   "xgmi_requests", "xgmi_responses", "xgmi_throughput", "total_vram", "free_vram",
                   "pcie_speed", "pcie_max_speed"}
  BY DEF SlowAttrs
<1> QED
  BY <1>1, <1>3, <1>4, <1>5, <1>6, <1>8, <1>9

\* The stream of gim, all of whose calls are answered.
LEMMA AgreeStream ==
  ASSUME NEW d, d.fails = {}, d.backend = "gim"
  PROVE  /\ Within(GimWatchStream(d), AgreeValues(d))
         /\ \A a \in Agreeing(d) \ {"ecc_block", "ecc_total"} :
                a \in DOMAIN GimWatchStream(d) \/ PullName(a) \in d.lacks
<1>1. PICK L : L = AgreeValues(d)
  OBVIOUS
<1> DEFINE A == Agreeing(d)
<1>2. /\ DOMAIN L = A
      /\ A \subseteq {"gpu_clock", "memory_clock", "memory_temp", "gfx_activity", "umc_activity",
                      "mm_activity", "gfx_voltage", "soc_voltage", "mem_voltage", "pcie_bandwidth",
                      "ecc_block", "ecc_total"}
  BY <1>1, AgreeValue DEF Backends
<1>3. \A a \in A : L[a] = Known(d, PullName(a))
  BY <1>1, <1>2, AttrNames, AgreeValue DEF Backends
<1> HIDE DEF A
<1> DEFINE Metric(f, na) == IF f \in d.lacks THEN na ELSE f
           In(f) == f \notin d.lacks \/ d.sentinels
           from == [gpu_clock |-> "gfx_clock", memory_temp |-> "memory_temp",
                    power |-> "package_power", avg_power |-> "package_power",
                    gfx_activity |-> "gfx_activity", umc_activity |-> "umc_activity",
                    mm_activity |-> "mm_activity", gfx_voltage |-> "gfx_voltage",
                    soc_voltage |-> "soc_voltage", mem_voltage |-> "mem_voltage",
                    pcie_bandwidth |-> "pcie_bandwidth"]
           copied == [memory_clock |-> "mem_clock", gpu_temp |-> "junction_temp"]
           wide == [a \in {b \in DOMAIN from : In(from[b])} |-> Metric(from[a], "na64")]
           cut  == [a \in {b \in DOMAIN copied : In(copied[b])} |-> Metric(copied[a], "na16")]
<1>4. GimWatchStream(d) = wide ++ cut
  <2>1. GimWatchStream(d) = When("metrics_stream" \notin d.fails, wide ++ cut)
    BY DEF GimWatchStream
  <2> QED
    BY <2>1 DEF When
<1>5. /\ \A a \in A : a \in DOMAIN from => from[a] = PullName(a)
      /\ \A a \in A : a \in DOMAIN copied => copied[a] = PullName(a)
  BY <1>2 DEF PullName
<1>6. \A f : Metric(f, "na64") \in Known(d, f) /\ Metric(f, "na16") \in Known(d, f)
  BY NoneKnown DEF Known
<1>7. Within(wide, L) /\ Within(cut, L)
  <2>1. /\ \A a \in DOMAIN wide : a \in DOMAIN from /\ wide[a] \in Known(d, from[a])
        /\ \A a \in DOMAIN cut : a \in DOMAIN copied /\ cut[a] \in Known(d, copied[a])
    <3> HIDE DEF from, copied, Metric, In
    <3> QED
      BY <1>6
  <2> HIDE DEF from, copied, wide, cut
  <2>2. /\ \A a \in DOMAIN wide : a \in A => wide[a] \in L[a]
        /\ \A a \in DOMAIN cut : a \in A => cut[a] \in L[a]
    BY <2>1, <1>3, <1>5
  <2> QED
    BY <1>2, <2>2, Zenon DEF Within
<1>8. \A a \in A \ {"ecc_block", "ecc_total"} :
          a \in DOMAIN wide \/ a \in DOMAIN cut \/ PullName(a) \in d.lacks
  <2>1. \A a \in A \ {"ecc_block", "ecc_total"} : a \in DOMAIN from \/ a \in DOMAIN copied
    BY <1>2
  <2> HIDE DEF from, copied, Metric
  <2> QED
    BY <1>5, <2>1
<1> HIDE DEF wide, cut
<1> QED
  BY <1>1, <1>4, <1>7, <1>8, OverWithin, OverFields DEF A

\* The bandwidth of its link, which is not written at every tick, but never made up.
BandwidthValues(d) ==
    [a \in {"pcie_bandwidth"} |-> NothingKnown \union (IF a \in d.lacks THEN {} ELSE {a})]

LEMMA BandwidthKept ==
  ASSUME NEW d, d.backend = "gim", NEW seed, DOMAIN seed = WatchFields,
         Within(seed, BandwidthValues(d)), NEW refresh
  PROVE  Within(GimWatch(d, seed, refresh), BandwidthValues(d))
<1>1. PICK L : L = BandwidthValues(d)
  OBVIOUS
<1>2. /\ DOMAIN L = {"pcie_bandwidth"} /\ NothingKnown \subseteq L["pcie_bandwidth"]
      /\ "pcie_bandwidth" \in d.lacks \/ "pcie_bandwidth" \in L["pcie_bandwidth"]
  BY <1>1 DEF BandwidthValues
<1>3. Within(WatchReset(seed), L)
  <2>1. "pcie_bandwidth" \in SlowAttrs /\ "pcie_bandwidth" \in WatchFields
    BY AttrNames
  <2>2. WatchReset(seed)["pcie_bandwidth"] = seed["pcie_bandwidth"]
    BY <2>1, ResetValues
  <2> QED
    BY <1>1, <1>2, <2>1, <2>2 DEF Within
<1>4. /\ Within(WatchEcc(d), L) /\ Within(WatchEccTotal(d), L) /\ Within([pcie_usage |-> "zero"], L)
  BY <1>2 DEF Within, WatchEcc, WatchEccTotal, When, Untouched, All
<1>5. Within(GimWatchStream(d), L)
  <2> DEFINE Metric(f, na) == IF f \in d.lacks THEN na ELSE f
             In(f) == f \notin d.lacks \/ d.sentinels
             from == [gpu_clock |-> "gfx_clock", memory_temp |-> "memory_temp",
                      power |-> "package_power", avg_power |-> "package_power",
                      gfx_activity |-> "gfx_activity", umc_activity |-> "umc_activity",
                      mm_activity |-> "mm_activity", gfx_voltage |-> "gfx_voltage",
                      soc_voltage |-> "soc_voltage", mem_voltage |-> "mem_voltage",
                      pcie_bandwidth |-> "pcie_bandwidth"]
             copied == [memory_clock |-> "mem_clock", gpu_temp |-> "junction_temp"]
             wide == [a \in {b \in DOMAIN from : In(from[b])} |-> Metric(from[a], "na64")]
             cut  == [a \in {b \in DOMAIN copied : In(copied[b])} |-> Metric(copied[a], "na16")]
  <2>1. GimWatchStream(d) = When("metrics_stream" \notin d.fails, wide ++ cut)
    BY DEF GimWatchStream
  <2>2. from["pcie_bandwidth"] = "pcie_bandwidth" /\ "pcie_bandwidth" \notin DOMAIN copied
    OBVIOUS
  <2>3. Within(wide, L) /\ Within(cut, L)
    <3> HIDE DEF from, copied
    <3> QED
      BY <1>2, <2>2, NoneKnown DEF Within
  <2> HIDE DEF wide, cut
  <2> QED
    BY <2>1, <2>3, OverWithin, WhenWithin, Zenon
<1> QED
  BY <1>1, <1>3, <1>4, <1>5, GimWatchWithin

\* So a sample of a GPU that answers every call has what there is to tell.
LEMMA SampleAgrees ==
  ASSUME NEW d, d.fails = {}, d.skip = {}, d.backend \in Backends,
         {"fails", "lacks", "sentinels"} \subseteq DOMAIN d, NEW refresh \in BOOLEAN,
         DOMAIN slow_cache_ = WatchFields, Within(slow_cache_, LastingValues(d, slow_cache_)),
         d.backend = "gim" => Within(slow_cache_, BandwidthValues(d))
  PROVE  \A a \in Agreeing(d) :
             refresh \/ a \in FastAttrs => SampleOf(d, refresh)[a] \in AgreeValues(d)[a]
<1> DEFINE reset == WatchReset(slow_cache_)
           L == AgreeValues(d)
<1>1. /\ DOMAIN reset = WatchFields
      /\ \A a \in SlowAttrs : reset[a] = slow_cache_[a]
      /\ \A a \in FastAttrs : reset[a] \in {"na64", "absent"}
  BY ResetValues
<1>2. /\ DOMAIN L = Agreeing(d) /\ Agreeing(d) \subseteq WatchFields
      /\ \A a \in Agreeing(d) : a # "free_vram" /\ a \notin ClockRangeFields =>
             L[a] = Known(d, PullName(a))
      /\ \A a \in Agreeing(d) \intersect WithFallback : PullName(a) \notin d.lacks
  BY AgreeValue
<1>3. WatchFields = FastAttrs \union SlowAttrs /\ FastAttrs \intersect SlowAttrs = {}
  BY AttrNames
<1> HIDE DEF reset, L
<1>4. CASE d.backend # "gim"
  <2>1. PICK m : KnownTable(d, m) /\ TableOf(d) = m
    BY KnownTables DEF TableOf
  <2>2. Bulk(d) = TRUE
    BY DEF Bulk, AmdsmiCached, WslCached, WslFilled
  <2> DEFINE slow == When(refresh, SlowPart(d, slow_cache_, TRUE, m))
             tab  == WatchBulk(m) ++ WatchArraysOf(m)
             new  == slow ++ tab ++ WatchFallbacks(d, TRUE, m)
  <2>3. SampleOf(d, refresh) = Update(reset, new)
    <3>1. SampleOf(d, refresh) = AmdsmiWatch(d, slow_cache_, refresh, TRUE, m)
      BY <1>4, <2>1, <2>2, SampleParts
    <3>2. When(TRUE, tab) = tab
      BY DEF When
    <3>3. AmdsmiWatch(d, slow_cache_, refresh, TRUE, m)
              = Update(reset, slow ++ When(TRUE, tab) ++ WatchFallbacks(d, TRUE, m))
      BY DEF AmdsmiWatch, SlowPart, reset
    <3> QED
      BY <3>1, <3>2, <3>3
  <2>4. Within(new, L)
    <3>1. Within(SlowPart(d, slow_cache_, TRUE, m), L)
      BY <2>1, AgreeCalls, AgreeClocks, SlowPartWithin DEF L
    <3>2. Within(slow, L)
      BY <3>1, WhenWithin, Zenon
    <3>3. Within(tab, L) /\ Within(WatchFallbacks(d, TRUE, m), L)
      BY <2>1, AgreeTable, OverWithin DEF L
    <3> HIDE DEF slow, tab
    <3> QED
      BY <3>2, <3>3, OverWithin
  <2>5. \A a : a \in DOMAIN new <=> \/ a \in DOMAIN slow \/ a \in DOMAIN tab
                                   \/ a \in DOMAIN WatchFallbacks(d, TRUE, m)
    <3> HIDE DEF slow, tab
    <3> QED
      BY OverFields, Zenon
  <2>6. \A a \in Agreeing(d) \intersect FastAttrs : a \in DOMAIN new
    <3>1. \A a \in BulkScalars \union WatchArrays : a \in DOMAIN tab
      <4>1. DOMAIN WatchBulk(m) = BulkScalars /\ DOMAIN WatchArraysOf(m) = WatchArrays
        BY DEF WatchBulk, WatchArraysOf, Widened
      <4> QED
        BY <4>1, OverFields
    <3>2. \A a \in Agreeing(d) \intersect WithFallback : a \in DOMAIN WatchFallbacks(d, TRUE, m)
      BY <2>1, AgreeTable
    <3> HIDE DEF new, tab
    <3> QED
      BY <2>5, <3>1, <3>2 DEF FastAttrs
  <2>7. ASSUME refresh
        PROVE  \A a \in Agreeing(d) \intersect SlowAttrs :
                   \/ a \in DOMAIN new
                   \/ a \in {"xgmi_requests", "xgmi_responses"} /\ a \in d.lacks
    <3>1. slow = SlowPart(d, slow_cache_, TRUE, m)
      BY <2>7 DEF When
    <3> HIDE DEF new, tab, slow
    <3> QED
      BY <2>5, <3>1, SlowNames
  <2>8. \A a \in {"xgmi_requests", "xgmi_responses"} :
            a \in d.lacks /\ a \in Agreeing(d) => slow_cache_[a] \in L[a]
    <3>1. \A a \in {"xgmi_requests", "xgmi_responses"} :
              /\ a \in Lasting(d.backend) /\ a \in WatchFields /\ PullName(a) = a
              /\ a # "free_vram" /\ a \notin ClockRangeFields /\ a # "pcie_bandwidth" /\ ReadingOf(a) = {a}
              /\ a \in SlowAttrs
      BY <1>4, AttrNames, ReadingNames DEF Lasting, PullName, ClockList, ClockFields
    <3>2. \A a \in {"xgmi_requests", "xgmi_responses"} : a \in d.lacks =>
              slow_cache_[a] \in SlowValues(d.backend)[a] \ {a}
      BY <3>1 DEF Within, LastingValues
    <3>3. \A a \in {"xgmi_requests", "xgmi_responses"} :
              SlowValues(d.backend)[a] = {a} \union {"zero", "absent", "na64"}
      BY <3>1 DEF SlowValues
    <3> QED
      BY <1>2, <3>1, <3>2, <3>3, NoneKnown DEF Known
  <2> HIDE DEF new
  <2>9. \A a \in WatchFields : /\ a \in DOMAIN new => SampleOf(d, refresh)[a] = new[a]
                               /\ a \notin DOMAIN new => SampleOf(d, refresh)[a] = reset[a]
    BY <1>1, <2>3, UpdateFields
  <2> QED
    BY <1>1, <1>2, <1>3, <2>4, <2>6, <2>7, <2>8, <2>9 DEF Within, L
<1>5. CASE d.backend = "gim"
  <2> DEFINE calls == (GimWatchEcc(d) ++ WatchEccTotal(d)) ++ [pcie_usage |-> "zero"]
             slow  == When(refresh, calls)
             new   == slow ++ GimWatchStream(d)
  <2>1. SampleOf(d, refresh) = Update(reset, new)
    <3>1. SampleOf(d, refresh) = GimWatch(d, slow_cache_, refresh)
      BY <1>5, SampleParts
    <3> QED
      BY <3>1 DEF GimWatch, reset
  <2>2. GimWatchEcc(d) = WatchEcc(d) /\ DOMAIN WatchEcc(d) = {"ecc_block"}
        /\ DOMAIN WatchEccTotal(d) = {"ecc_total"}
    BY DEF GimWatchEcc, WatchEcc, WatchEccTotal, When
  <2>3. Within(new, L)
    <3>1. Within(calls, L)
      BY <2>2, AgreeCalls, OverWithin DEF L
    <3>2. Within(slow, L) /\ Within(GimWatchStream(d), L)
      BY <1>5, <3>1, AgreeStream, WhenWithin, Zenon DEF L
    <3> HIDE DEF slow
    <3> QED
      BY <3>2, OverWithin
  <2>4. \A a \in Agreeing(d) :
            \/ a \in DOMAIN new
            \/ PullName(a) \in d.lacks
            \/ a \in {"ecc_block", "ecc_total"} /\ ~ refresh
    <3>1. \A a : a \in DOMAIN slow \/ a \in DOMAIN GimWatchStream(d) => a \in DOMAIN new
      <4> HIDE DEF slow
      <4> QED
        BY OverFields
    <3>2. refresh => "ecc_block" \in DOMAIN slow /\ "ecc_total" \in DOMAIN slow
      <4>1. "ecc_block" \in DOMAIN calls /\ "ecc_total" \in DOMAIN calls
        BY <2>2, OverFields
      <4> HIDE DEF calls
      <4> QED
        BY <4>1 DEF When
    <3> HIDE DEF slow, new
    <3> QED
      BY <1>5, <3>1, <3>2, AgreeStream
  <2>5. \A a \in Agreeing(d) : /\ L[a] = Known(d, PullName(a))
                               /\ a \in SlowAttrs => a \in {"pcie_bandwidth", "ecc_block", "ecc_total"}
    <3>1. Agreeing(d) \subseteq
              {"gpu_clock", "memory_clock", "memory_temp", "gfx_activity", "umc_activity",
               "mm_activity", "gfx_voltage", "soc_voltage", "mem_voltage", "pcie_bandwidth",
               "ecc_block", "ecc_total"}
      BY <1>5, AgreeValue
    <3>2. \A a \in Agreeing(d) : a # "free_vram" /\ a \notin ClockRangeFields
      BY <3>1, AttrNames
    <3> QED
      BY <1>2, <3>1, <3>2, AttrNames
  <2>6. \A a \in Agreeing(d) \intersect FastAttrs : a \notin DOMAIN new => reset[a] \in L[a]
    <3>1. {"na64", "absent"} \subseteq NothingKnown /\ "ecc_block" \notin FastAttrs
          /\ "ecc_total" \notin FastAttrs
      BY NoneKnown, AttrNames
    <3>2. \A a \in Agreeing(d) : PullName(a) \in d.lacks => L[a] = NothingKnown
      BY <2>5 DEF Known
    <3>3. \A a \in Agreeing(d) \intersect FastAttrs : reset[a] \in NothingKnown
      BY <1>1, <3>1
    <3> HIDE DEF new
    <3>4. \A a \in Agreeing(d) \intersect FastAttrs : a \notin DOMAIN new => PullName(a) \in d.lacks
      BY <2>4, <3>1
    <3> QED
      BY <3>2, <3>3, <3>4
  <2>7. refresh => \A a \in Agreeing(d) \intersect SlowAttrs : a \notin DOMAIN new => reset[a] \in L[a]
    <3>1. "pcie_bandwidth" \in d.lacks => slow_cache_["pcie_bandwidth"] \in NothingKnown
      BY <1>5, AttrNames DEF Within, BandwidthValues
    <3>2. PullName("pcie_bandwidth") = "pcie_bandwidth" /\ PullName("ecc_block") = "ecc_block"
          /\ PullName("ecc_total") = "ecc_total"
      BY DEF PullName
    <3>3. refresh => "ecc_block" \in DOMAIN new /\ "ecc_total" \in DOMAIN new
      <4>1. refresh => "ecc_block" \in DOMAIN slow /\ "ecc_total" \in DOMAIN slow
        <5>1. "ecc_block" \in DOMAIN calls /\ "ecc_total" \in DOMAIN calls
          BY <2>2, OverFields
        <5> HIDE DEF calls
        <5> QED
          BY <5>1 DEF When
      <4> HIDE DEF slow
      <4> QED
        BY <4>1, OverFields
    <3>4. \A a \in Agreeing(d) : PullName(a) \in d.lacks => L[a] = NothingKnown
      BY <2>5 DEF Known
    <3>5. "pcie_bandwidth" \in SlowAttrs
      BY AttrNames
    <3> HIDE DEF new
    <3>6. refresh => \A a \in Agreeing(d) \intersect SlowAttrs : a \notin DOMAIN new =>
              a = "pcie_bandwidth" /\ "pcie_bandwidth" \in d.lacks
      BY <2>4, <2>5, <3>2, <3>3
    <3> QED
      BY <1>1, <3>1, <3>2, <3>4, <3>5, <3>6
  <2> HIDE DEF new
  <2>8. \A a \in WatchFields : /\ a \in DOMAIN new => SampleOf(d, refresh)[a] = new[a]
                               /\ a \notin DOMAIN new => SampleOf(d, refresh)[a] = reset[a]
    BY <1>1, <2>1, UpdateFields
  <2> QED
    BY <1>2, <1>3, <2>3, <2>6, <2>7, <2>8 DEF Within, L
<1> QED
  BY <1>4, <1>5

-----------------------------------------------------------------------------
\* The inductive invariant: what gim has of the bandwidth is a reading of it, and
\* after a tick all of whose calls were answered each attribute both paths have is
\* what there is to tell.
AgreeInv ==
    /\ WatchInv
    /\ {"fails", "lacks", "sentinels"} \subseteq DOMAIN watched
    /\ watched.skip = {} /\ Placed(watched)
    /\ watched.backend = "gim" => Within(slow_cache_, BandwidthValues(watched))
    /\ tick > 0 /\ watched.fails = {} =>
           \A a \in Agreeing(watched) :
               refreshed \/ a \in FastAttrs => stats_[a] \in AgreeValues(watched)[a]

LEMMA AgreeInit == WatchShowInit => AgreeInv
<1> SUFFICES ASSUME WatchShowInit PROVE AgreeInv
  OBVIOUS
<1>1. /\ {"fails", "lacks", "sentinels"} \subseteq DOMAIN watched
      /\ watched.skip = {} /\ Placed(watched)
  <2>1. {"fails", "lacks", "sentinels"} \subseteq DOMAIN watched /\ watched.skip = {}
    BY DEF WatchShowInit, WatchedGpus, Device
  <2>2. \E role : /\ watched.first = (role # "other")
                  /\ watched.partitioned = (role \in {"first", "other"})
    BY DEF WatchShowInit, WatchedGpus, Device
  <2> QED
    BY <2>1, <2>2 DEF Placed
<1>2. Within(WatchCleared, BandwidthValues(watched))
  <2>1. "pcie_bandwidth" \in WatchFields
    BY AttrNames
  <2> QED
    BY <2>1, ClearedFits, NoneKnown DEF Within, BandwidthValues
<1> QED
  BY <1>1, <1>2, WatchInvInit DEF WatchShowInit, AgreeInv

LEMMA AgreeTick ==
  ASSUME AgreeInv, NEW refresh \in BOOLEAN, WatchTick(refresh)
  PROVE  AgreeInv'
<1>1. PICK fails \in Upto(MaxWatchTrouble - WatchTrouble, WatchCalls(watched.backend, refresh)) :
          LET d == [watched EXCEPT !.fails = fails]
          IN /\ watched' = d
             /\ unanswered' = unanswered + Cardinality(fails)
             /\ stats_' = IF GimWatched(d) THEN SampleOf(d, refresh) ELSE WatchCleared
             /\ slow_cache_' = IF refresh /\ GimWatched(d) THEN stats_' ELSE slow_cache_
  BY DEF WatchTick
<1>2. PICK d : d = [watched EXCEPT !.fails = fails]
  OBVIOUS
<1>3. /\ watched' = d /\ d.backend = watched.backend /\ d.lacks = watched.lacks
      /\ d.skip = {} /\ {"fails", "lacks", "sentinels"} \subseteq DOMAIN d
      /\ stats_' = IF GimWatched(d) THEN SampleOf(d, refresh) ELSE WatchCleared
      /\ slow_cache_' = IF refresh /\ GimWatched(d) THEN stats_' ELSE slow_cache_
      /\ refreshed' = refresh
  BY <1>1, <1>2 DEF AgreeInv, WatchTick
<1>4. Placed(d)
  BY <1>2 DEF AgreeInv, Placed
<1>5. WatchInv /\ WatchInv'
  BY TickKeeps DEF AgreeInv
<1>6. /\ DOMAIN slow_cache_ = WatchFields /\ d.backend \in Backends
      /\ LastingValues(d, slow_cache_) = LastingValues(watched, slow_cache_)
      /\ Within(slow_cache_, LastingValues(d, slow_cache_))
      /\ BandwidthValues(d) = BandwidthValues(watched)
  BY <1>3, <1>5 DEF WatchInv, WatchShowTypeOK, LastingValues, BandwidthValues
<1>7. d.backend = "gim" => Within(slow_cache_, BandwidthValues(d))
  BY <1>3, <1>6 DEF AgreeInv
<1>8. d.backend = "gim" => Within(slow_cache_', BandwidthValues(d))
  <2>1. d.backend = "gim" => SampleOf(d, refresh) = GimWatch(d, slow_cache_, refresh)
    BY <1>6, SampleParts
  <2>2. d.backend = "gim" => Within(GimWatch(d, slow_cache_, refresh), BandwidthValues(d))
    BY <1>6, <1>7, BandwidthKept
  <2> QED
    BY <1>3, <1>7, <2>1, <2>2
<1>9. d.fails = {} => \A a \in Agreeing(d) :
          refresh \/ a \in FastAttrs => stats_'[a] \in AgreeValues(d)[a]
  <2> SUFFICES ASSUME d.fails = {}
               PROVE  \A a \in Agreeing(d) :
                          refresh \/ a \in FastAttrs => stats_'[a] \in AgreeValues(d)[a]
    OBVIOUS
  <2>1. stats_' = SampleOf(d, refresh)
    BY <1>3 DEF GimWatched
  <2> QED
    BY <1>3, <1>6, <1>7, <2>1, SampleAgrees
<1> QED
  BY <1>3, <1>4, <1>5, <1>8, <1>9 DEF AgreeInv

LEMMA AgreeStep == AgreeInv /\ [WatchShowNext]_watchShowVars => AgreeInv'
<1> SUFFICES ASSUME AgreeInv, [WatchShowNext]_watchShowVars PROVE AgreeInv'
  OBVIOUS
<1>1. WatchInv'
  BY WatchInvStep DEF AgreeInv
<1>2. CASE CreateWatch
  BY <1>1, <1>2 DEF CreateWatch, AgreeInv
<1>3. ASSUME NEW refresh \in BOOLEAN, WatchTick(refresh)
      PROVE  AgreeInv'
  BY <1>3, AgreeTick
<1>4. CASE UNCHANGED watchShowVars
  BY <1>1, <1>4 DEF watchShowVars, AgreeInv
<1> QED
  BY <1>2, <1>3, <1>4 DEF WatchShowNext

\* So a watch agrees with a GPUGet.
LEMMA AgreesWithGet == AgreeInv => WatchAgreesWithGet
<1> SUFFICES ASSUME AgreeInv, tick > 0, watched.fails = {},
                    NEW a \in DOMAIN Frame(attr_id, stats_) \intersect
                              (IF refreshed THEN WatchFields ELSE FastAttrs),
                    NEW v, v = stats_[a],
                    NEW w, w = IF PullName(a) \in Fields THEN Pulled(watched)[PullName(a)] ELSE v
             PROVE  \/ v = w
                    \/ v \in NothingKnown /\ w \in NothingKnown
                    \/ a \in Divergent(watched)
                    \/ a \in WithFallback /\ w \in NothingKnown
  BY DEF WatchAgreesWithGet
<1>1. CASE PullName(a) \notin Fields \/ a \in Divergent(watched)
  BY <1>1
<1>2. CASE PullName(a) \in Fields /\ a \notin Divergent(watched)
  <2>1. a \in WatchFields /\ (refreshed \/ a \in FastAttrs)
    BY FrameCopies
  <2>2. PullName(a) \in Compared(watched) /\ watched.backend \in Backends
    BY <1>2, <2>1 DEF Compared, AgreeInv, WatchInv
  <2>3. w \in PullValues(watched)[PullName(a)]
    BY <1>2, <2>2, PullTells DEF AgreeInv
  <2>4. CASE a \in WithFallback /\ PullName(a) \in watched.lacks
    <3>1. PullName(a) # "free_vram" /\ PullName(a) \notin ClockRangeFields
      BY <2>4, AttrNames DEF PullName, WithFallback
    <3>2. PullValues(watched)[PullName(a)] = NothingKnown
      BY <2>2, <2>4, <3>1, PullValue DEF Known
    <3> QED
      BY <2>3, <2>4, <3>2
  <2>5. CASE a \in WithFallback => PullName(a) \notin watched.lacks
    <3>1. a \in Agreeing(watched)
      BY <1>2, <2>1, <2>5 DEF Agreeing
    <3>2. AgreeValues(watched)[a] = PullValues(watched)[PullName(a)]
      BY <2>2, <3>1, AgreeValue
    <3>3. v \in PullValues(watched)[PullName(a)]
      BY <2>1, <3>1, <3>2 DEF AgreeInv
    <3>4. \/ PullValues(watched)[PullName(a)] = NothingKnown
          \/ \E x : PullValues(watched)[PullName(a)] = {x}
      BY <2>2 DEF PullValues, ToTell, Known
    <3> QED
      BY <2>3, <3>3, <3>4
  <2> QED
    BY <2>4, <2>5
<1> QED
  BY <1>1, <1>2

\* The places of the clocks: the list of a GPUGet begins with the kinds that have
\* a range of their own, then the SOC clocks if they are read, then the others, and
\* a watch counts as many of each.
LEMMA ClockPlaces ==
  ASSUME NEW d, NEW m
  PROVE  \A entry \in WatchSlots(d, m, 2) :
             /\ entry[1] \in DOMAIN PullSlots(d, 2)
             /\ PullSlots(d, 2)[entry[1]] = entry[2]
<1> DEFINE names == {"gfx_clock", "mem_clock", "video_clock", "data_clock", "soc_clock",
                     "fabric_clock", "dce_clock", "pcie_clock"}
           S == names \X Nat
           first == Ranged(2)
           soc   == IF SocRead(d) THEN Several("soc_clock", 2) ELSE <<>>
           last  == SingleClocks(d)
<1>1. \A c \in names, n \in Nat : Several(c, n) \in Seq(S) /\ Len(Several(c, n)) = n
  <2> SUFFICES ASSUME NEW c \in names, NEW n \in Nat
               PROVE  Several(c, n) \in Seq(S) /\ Len(Several(c, n)) = n
    OBVIOUS
  <2>1. Several(c, n) \in [1 .. n -> S] /\ DOMAIN Several(c, n) = 1 .. n
    <3>1. \A i \in 1 .. n : <<c, i>> \in S
      OBVIOUS
    <3> HIDE DEF S
    <3> QED
      BY <3>1 DEF Several
  <2>2. Several(c, n) \in Seq(S)
    BY <2>1, SeqDef
  <2> HIDE DEF S
  <2>3. PICK u : u = Several(c, n)
    OBVIOUS
  <2>4. Len(u) \in Nat /\ DOMAIN u = 1 .. Len(u)
    BY <2>2, <2>3, LenProperties
  <2>5. Len(u) = n
    <3>1. \A i : i \in 1 .. n <=> i \in 1 .. Len(u)
      BY <2>1, <2>3, <2>4
    <3>2. (n \in 1 .. n \/ n = 0) /\ (Len(u) \in 1 .. Len(u) \/ Len(u) = 0)
      BY <2>4
    <3>3. (n \in 1 .. Len(u) => n <= Len(u)) /\ (Len(u) \in 1 .. n => Len(u) <= n)
      BY <2>4
    <3>4. n <= Len(u)
      BY <2>4, <3>1, <3>2, <3>3
    <3>5. Len(u) <= n
      BY <2>4, <3>1, <3>2, <3>3
    <3>6. n \in Nat /\ Len(u) \in Nat
      BY <2>4
    <3> HIDE DEF names
    <3> QED
      BY <3>4, <3>5, <3>6
  <2> QED
    BY <2>2, <2>3, <2>5
<1>2. first \in Seq(S)
  <2> DEFINE p == Several("gfx_clock", 2)
             q == Several("mem_clock", 1)
             r == Several("video_clock", 2)
             s == Several("data_clock", 2)
  <2>1. p \in Seq(S) /\ q \in Seq(S) /\ r \in Seq(S) /\ s \in Seq(S)
    <3>1. /\ "gfx_clock" \in names /\ "mem_clock" \in names
          /\ "video_clock" \in names /\ "data_clock" \in names /\ 1 \in Nat /\ 2 \in Nat
      OBVIOUS
    <3> QED
      BY <1>1, <3>1, Zenon
  <2>2. first = ((p \o q) \o r) \o s
    BY DEF Ranged
  <2> HIDE DEF S, first, p, q, r, s
  <2> QED
    BY <2>1, <2>2, ConcatProperties
<1>3. /\ soc \in Seq(S) /\ Len(soc) = IF SocRead(d) THEN 2 ELSE 0
      /\ SocRead(d) => \A i \in 1 .. 2 : soc[i] = <<"soc_clock", i>>
  <2>1. CASE SocRead(d)
    <3>1. soc = Several("soc_clock", 2)
      BY <2>1
    <3>2. soc \in Seq(S) /\ Len(soc) = 2
      <4>1. "soc_clock" \in names /\ 2 \in Nat
        OBVIOUS
      <4> HIDE DEF names, S, soc
      <4> QED
        BY <1>1, <3>1, <4>1
    <3>3. \A i \in 1 .. 2 : soc[i] = <<"soc_clock", i>>
      BY <3>1 DEF Several
    <3> QED
      BY <2>1, <3>2, <3>3
  <2>2. CASE ~ SocRead(d)
    BY <2>2, EmptySeq
  <2> QED
    BY <2>1, <2>2
<1>4. last \in Seq(S)
  <2> DEFINE One(c) == IF SingleRead(d, c) THEN <<<<c, 1>>>> ELSE <<>>
             p == One("fabric_clock")
             q == One("dce_clock")
             r == One("pcie_clock")
  <2>1. ASSUME NEW c \in names
        PROVE  One(c) \in Seq(S)
    <3>1. <<c, 1>> \in S
      OBVIOUS
    <3> HIDE DEF S
    <3>2. <<<<c, 1>>>> \in Seq(S) /\ <<>> \in Seq(S)
      BY <3>1, EmptySeq
    <3> QED
      BY <3>2
  <2>2. p \in Seq(S) /\ q \in Seq(S) /\ r \in Seq(S)
    <3>1. "fabric_clock" \in names /\ "dce_clock" \in names /\ "pcie_clock" \in names
      OBVIOUS
    <3> HIDE DEF S, One, names
    <3> QED
      BY <2>1, <3>1
  <2>3. last = (p \o q) \o r
    BY DEF SingleClocks
  <2> HIDE DEF S, last, p, q, r
  <2> QED
    BY <2>2, <2>3, ConcatProperties
<1>5. PullSlots(d, 2) = (first \o soc) \o last
  BY DEF PullSlots
<1> HIDE DEF names, S, first, soc, last
<1>6. /\ Len(first) \in Nat /\ Len(soc) \in Nat /\ Len(last) \in Nat
      /\ DOMAIN last = 1 .. Len(last)
  BY <1>2, <1>3, <1>4, LenProperties
<1> DEFINE Joined(u, v) ==
              /\ u \o v \in Seq(S) /\ Len(u \o v) = Len(u) + Len(v)
              /\ DOMAIN (u \o v) = 1 .. Len(u) + Len(v)
              /\ \A i \in 1 .. Len(u) : (u \o v)[i] = u[i]
              /\ \A i \in 1 .. Len(v) : (u \o v)[Len(u) + i] = v[i]
<1>7. ASSUME NEW u \in Seq(S), NEW v \in Seq(S)
      PROVE  Joined(u, v)
  <2>1. PICK w : w = u \o v
    OBVIOUS
  <2>2. /\ w \in Seq(S) /\ Len(w) = Len(u) + Len(v)
        /\ \A i \in 1 .. Len(u) + Len(v) : w[i] = IF i <= Len(u) THEN u[i] ELSE v[i - Len(u)]
    BY <2>1, ConcatProperties
  <2>3. Len(u) \in Nat /\ Len(v) \in Nat /\ DOMAIN w = 1 .. Len(u) + Len(v)
    BY <2>2, LenProperties
  <2>4. \A i \in 1 .. Len(u) : w[i] = u[i]
    BY <2>2, <2>3
  <2>5. ASSUME NEW i \in 1 .. Len(v)
        PROVE  w[Len(u) + i] = v[i]
    <3>1. /\ Len(u) + i \in 1 .. Len(u) + Len(v) /\ ~ (Len(u) + i <= Len(u))
          /\ (Len(u) + i) - Len(u) = i
      BY <2>3
    <3> QED
      BY <2>2, <3>1
  <2> QED
    BY <2>1, <2>2, <2>3, <2>4, <2>5
<1>8. PICK list : list = first \o soc
  OBVIOUS
<1>9. Joined(first, soc) /\ list \in Seq(S) /\ Joined(list, last)
  <2>1. Joined(first, soc)
    BY <1>2, <1>3, <1>7
  <2>2. list \in Seq(S)
    BY <1>8, <2>1
  <2>3. Joined(list, last)
    BY <1>4, <1>7, <2>2
  <2> QED
    BY <2>1, <2>2, <2>3
<1>10. PICK pull : pull = list \o last
  OBVIOUS
<1>11. /\ DOMAIN pull = 1 .. Len(first) + Len(soc) + Len(last)
       /\ \A i \in 1 .. Len(first) : pull[i] = first[i]
       /\ \A i \in 1 .. Len(soc) : pull[Len(first) + i] = soc[i]
       /\ \A i \in 1 .. Len(last) : pull[Len(first) + Len(soc) + i] = last[i]
  BY <1>6, <1>8, <1>9, <1>10
<1>12. ASSUME NEW entry \in WatchSlots(d, m, 2)
       PROVE  \/ \E i \in 1 .. Len(first) : entry = <<i, first[i]>>
              \/ SocRead(d) /\ \E i \in 1 .. 2 : entry = <<Len(first) + i, <<"soc_clock", i>>>>
              \/ \E i \in 1 .. Len(last) : entry = <<Len(first) + Len(soc) + i, last[i]>>
  <2>1. \/ \E i \in 1 .. Len(Ranged(2)) : entry = <<i, Ranged(2)[i]>>
        \/ SocRead(d) /\ \E i \in 1 .. 2 : entry = <<Len(Ranged(2)) + i, <<"soc_clock", i>>>>
        \/ \E i \in DOMAIN SingleClocks(d) :
               entry = <<Len(Ranged(2)) + (IF SocRead(d) THEN 2 ELSE 0) + i, SingleClocks(d)[i]>>
    BY DEF WatchSlots
  <2> QED
    BY <2>1, <1>3, <1>6 DEF first, last
<1>13. \A entry \in WatchSlots(d, m, 2) : entry[1] \in DOMAIN pull /\ pull[entry[1]] = entry[2]
  <2> SUFFICES ASSUME NEW entry \in WatchSlots(d, m, 2)
               PROVE  entry[1] \in DOMAIN pull /\ pull[entry[1]] = entry[2]
    OBVIOUS
  <2>1. CASE \E i \in 1 .. Len(first) : entry = <<i, first[i]>>
    BY <2>1, <1>6, <1>11
  <2>2. CASE SocRead(d) /\ \E i \in 1 .. 2 : entry = <<Len(first) + i, <<"soc_clock", i>>>>
    BY <2>2, <1>3, <1>6, <1>11
  <2>3. CASE \E i \in 1 .. Len(last) : entry = <<Len(first) + Len(soc) + i, last[i]>>
    BY <2>3, <1>6, <1>11
  <2> QED
    BY <1>12, <2>1, <2>2, <2>3
<1> QED
  BY <1>5, <1>8, <1>10, <1>13

\* "Mirroring smi_gpu_fill_stats", "assemble like the pull path" (smi_state.cc): a
\* tick all of whose calls are answered reports what a GPUGet of the same GPU
\* reports, and no value for what that has none for, whatever failed before it
\* (smi_watcher_update_all_watch_fields_, smi_gpu_fill_stats); and "the exporter
\* clock_index label matches the pull path 1:1" (smi_state.cc:340), whichever
\* calls fail.
THEOREM WatchesMatchGets == WatchShowSpec => []WatchMatchesGet
<1>1. ClockIndexAgrees
  BY ClockPlaces DEF ClockIndexAgrees
<1>2. AgreeInv => WatchMatchesGet
  BY <1>1, AgreesWithGet DEF WatchMatchesGet
<1>3. WatchShowSpec => []AgreeInv
  BY AgreeInit, AgreeStep, PTL DEF WatchShowSpec
<1> QED
  BY <1>2, <1>3, PTL
=============================================================================
