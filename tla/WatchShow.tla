------------------------------ MODULE WatchShow ------------------------------
(***************************************************************************)
(* A GPU watch from the library's readings to the operator's screen: a     *)
(* client creates a watch of some attributes of a GPU; at each tick the    *)
(* watcher samples the GPU, with calls that may fail on their own, the     *)
(* sample goes to the GPU object, and from there to the stream and to the  *)
(* screen.  The invariants compare it with a GPUGet of the same GPU.       *)
(*                                                                         *)
(* GpuWatch has the clients and their streams, WatchSample the periods;    *)
(* here a tick may refresh the slow tier or not, as it likes.              *)
(***************************************************************************)
EXTENDS WatchReads, FiniteSets, TLC

CONSTANTS
    WatchShortages,      \* sets of readings a device may not have
    MaxWatchTrouble,     \* bound: shortages and failed calls of a behaviour
    MaxTicks             \* bound: ticks of a behaviour

ASSUME WatchShowAssumption ==
    /\ \A s \in WatchShortages : s \subseteq WatchFields \union Fields \union DOMAIN SingleCall
    /\ MaxWatchTrouble \in Nat /\ MaxTicks \in Nat

VARIABLES
    watched,       \* the GPU and its back end; fails: the calls of the last tick that failed
    attr_id,       \* the attributes of the watch object; none yet
    slow_cache_,   \* the sample of the last slow tick
    stats_,        \* the attributes in the GPU object
    tick,          \* ticks so far
    refreshed,     \* the last one refreshed the slow tier
    unanswered         \* failed calls so far

watchShowVars == <<watched, attr_id, slow_cache_, stats_, tick, refreshed, unanswered>>

WatchedGpus(lacks) ==
    {Device("amdsmi", role, FALSE, TRUE, lacks) : role \in {"whole", "first", "other"}} \union
    {Device("wsl", role, FALSE, s, lacks) : role \in {"whole", "other"}, s \in BOOLEAN} \union
    {Device("gim", "whole", FALSE, s, lacks) : s \in BOOLEAN}

\* The calls of a tick.
WatchCalls(backend, refresh) ==
    IF backend = "gim"
    THEN {"session_watch", "handle_from_uuid", "metrics_stream"} \union
         (IF refresh THEN {"ecc_count"} ELSE {})
    ELSE {"metrics", "clk_freq_sys", "clk_freq_mem", "temp_vram", "temp_edge", "temp_junction",
          "power_info", "gpu_activity"} \union
         (IF refresh THEN {"ecc_count", "violation_status", "memory_total", "memory_usage",
                           "pcie_info", "clock_info_gfx", "clock_info_mem", "clock_info_video",
                           "clock_info_data", "clk_freq_soc", "clk_freq_df", "clk_freq_dce",
                           "clk_freq_pcie", "xgmi_counter"} ELSE {}) \union
         (IF backend = "wsl" THEN {"metrics_table", "individual_calls"} ELSE {})

WatchTrouble == unanswered + (IF watched.lacks = {} THEN 0 ELSE 1)

-----------------------------------------------------------------------------
\* gpuWatchCreateCmdPreRun: what can be named on the command line.
NamedAttrs ==
    ("gpu-clock" :> {"gpu_clock"}) @@ ("memory-clock" :> {"memory_clock"}) @@
    ("memory-temp" :> {"memory_temp"}) @@ ("gpu-temp" :> {"gpu_temp"}) @@
    ("power-usage" :> {"power"}) @@ ("ecc-total" :> {"ecc_total"}) @@
    ("pcie-bandwidth" :> {"pcie_bandwidth"}) @@ ("gpu-util" :> {"gfx_activity"}) @@
    ("memory-usage" :> {"used_vram"}) @@ ("ecc-count" :> {"ecc_block"}) @@
    ("xgmi-tx" :> {"xgmi_requests", "xgmi_responses"}) @@
    ("xgmi-throughput" :> {"xgmi_throughput"})

\* What a client may ask for: with the command line client, what has a name,
\* with its own, anything there is an identifier for, and what there is not.
AskedAttrs == {UNION {NamedAttrs[name] : name \in DOMAIN NamedAttrs}, WatchFields \union {"unnamed"}}

\* aga_gpu_watch_attr_id_to_api_spec: no identifier but those of the attributes.
AttrIdToApiSpec(a) == IF a \in WatchFields THEN a ELSE "invalid"

\* aga_gpu_watch_proto_to_api_spec: an invalid identifier is one more attribute.
ProtoToApiSpec(attrs) == {AttrIdToApiSpec(a) : a \in attrs}

\* gpuWatchCreateCmdHandler, and gpu_watch_entry::create_handler.
CreateWatch ==
    /\ attr_id = {}
    /\ \E attrs \in AskedAttrs : attr_id' = ProtoToApiSpec(attrs)
    /\ UNCHANGED <<watched, slow_cache_, stats_, tick, refreshed, unanswered>>

\* The sample of one GPU.
SampleOf(d, refresh) ==
    CASE d.backend = "amdsmi" ->
           AmdsmiWatch(d, slow_cache_, refresh, AmdsmiCached(d), AmdsmiMetrics(d))
      [] d.backend = "wsl" -> WslWatch(d, slow_cache_, refresh)
      [] d.backend = "gim" -> GimWatch(d, slow_cache_, refresh)

\* watcher_update_watch_db: a GPU that gim does not find has the zero the task was
\* allocated with, and its cache is left.
WatchTick(refresh) ==
    /\ attr_id # {}
    /\ tick < MaxTicks
    /\ tick = 0 => refresh
    /\ \E fails \in Upto(MaxWatchTrouble - WatchTrouble, WatchCalls(watched.backend, refresh)) :
           LET d == [watched EXCEPT !.fails = fails]
           IN /\ watched' = d
              /\ unanswered' = unanswered + Cardinality(fails)
              /\ stats_' = IF GimWatched(d) THEN SampleOf(d, refresh) ELSE WatchCleared
              /\ slow_cache_' = IF refresh /\ GimWatched(d) THEN stats_' ELSE slow_cache_
    /\ tick' = tick + 1
    /\ refreshed' = refresh
    /\ UNCHANGED attr_id

WatchShowInit ==
    /\ watched \in UNION {WatchedGpus(lacks) : lacks \in {{}} \union WatchShortages}
    /\ attr_id = {}
    /\ slow_cache_ = WatchCleared
    /\ stats_ = WatchCleared
    /\ tick = 0
    /\ refreshed = FALSE
    /\ unanswered = 0

WatchShowNext == CreateWatch \/ \E refresh \in BOOLEAN : WatchTick(refresh)

WatchShowSpec == WatchShowInit /\ [][WatchShowNext]_watchShowVars

-----------------------------------------------------------------------------
\* fill_gpu_watch_stats: each attribute has its own field; one that is none has
\* no value.
FillScalars(attrs, s) ==
    [a \in attrs \intersect ((FastAttrs \ WatchArrays) \union
                             {"pcie_usage", "pcie_bandwidth", "used_vram", "ecc_total"}) |-> s[a]]

FillErrors(attrs, s) == [a \in attrs \intersect {"ecc_block"} |-> s[a]]

FillLinks(attrs, s) ==
    [a \in attrs \intersect {"xgmi_requests", "xgmi_responses", "xgmi_throughput", "total_vram",
                             "free_vram", "pcie_speed", "pcie_max_speed"} |-> s[a]]

FillViolations(attrs, s) == [a \in attrs \intersect (ViolationFields \ PerXcc) |-> s[a]]

\* aga_fill_watch_long_array: as many values as were counted.
LongArray(s, a) == s[a]

\* aga_fill_watch_indexed_array
IndexedArray(s, a) == s[a]

FillArrays(attrs, s) ==
    [a \in attrs \intersect (WatchArrays \union PerXcc) |-> LongArray(s, a)] ++
    [a \in attrs \intersect ClockList |-> IndexedArray(s, a)]

Frame(attrs, s) ==
    FillScalars(attrs, s) ++ FillErrors(attrs, s) ++ FillLinks(attrs, s) ++
    FillViolations(attrs, s) ++ FillArrays(attrs, s)

\* aga_gpu_watch_stats_to_proto: a list without an entry is no value.
FrameToProto(frame) == [a \in {b \in DOMAIN frame : frame[b] # "absent"} |-> frame[a]]

\* gpuWatchAttrRows: a row per value, and nothing is left out.
Rows == FrameToProto(Frame(attr_id, stats_))

-----------------------------------------------------------------------------
\* The metrics table was not there.
Discrete == ~ IF watched.backend = "wsl" THEN WslCached(watched) ELSE AmdsmiCached(watched)

\* The reading an attribute of a watch is about.
ReadingOf(a) ==
    CASE a = "gpu_clock" -> {"gfx_clock"}
      [] a = "memory_clock" -> {"mem_clock"}
      [] a = "gpu_temp" -> {"edge_temp", "junction_temp"}
      [] a \in {"power", "avg_power"} -> {"avg_power", "package_power"}
      [] a \in ClockRangeFields -> {SpecRangeOf[c] : c \in {x \in DOMAIN RangeOf : RangeOf[x] = a}}
      [] OTHER -> {a}

\* The type invariant.
WatchShowTypeOK ==
    /\ attr_id \subseteq WatchFields \union {"invalid"}
    /\ DOMAIN slow_cache_ = WatchFields /\ DOMAIN stats_ = WatchFields
    /\ tick \in 0 .. MaxTicks
    /\ refreshed \in BOOLEAN
    /\ unanswered \in 0 .. MaxWatchTrouble

\* What a row says is about its attribute (fill_gpu_watch_stats,
\* smi_watcher_update_all_watch_fields_): a reading of it, a sentinel or zero.  It
\* is none for the free memory, if one of the other sizes was not read, and for a
\* clock that a call of its own does not know.
RowsHoldReadings ==
    LET rows == Rows IN \A a \in DOMAIN rows :
        \/ rows[a] \in ReadingOf(a) \union Sentinels \union {"zero"}
        \/ a = "free_vram"
        \/ a = "gpu_clock" /\ Discrete
        \/ a = "memory_clock" /\ "mem_clock" \in watched.lacks

\* "NA uses UINT64_MAX to match the exporter's uint64 applicability check"
\* (amdsmi/smi_state.cc:343), "the exporter only recognises an NA sentinel that
\* matches the full field width" (gimamdsmi/smi_state.cc:257): so it does, but for
\* the ranges of clocks, what a call of its own gave in place of the table, two
\* metrics of the gim stream and a 32-bit counter of the WSL library.
SentinelOfFullWidth ==
    LET rows == Rows IN \A a \in DOMAIN rows : rows[a] \in Sentinels \ {"na64"} =>
        CASE watched.backend = "gim" -> a \in {"memory_clock", "gpu_temp"}
          [] OTHER -> \/ a \in ClockRangeFields \union {"power"}
                      \/ a = "gfx_activity" /\ Discrete
                      \/ a \in Wsl32 /\ watched.backend = "wsl"

\* "A failed read this tick is reported not-applicable rather than as a stale
\* carried-forward value" (smi_state.cc:108): no fast attribute is zero, unless
\* the table of the WSL library had zero for it, or gim did not reach the GPU;
\* and the errors of all blocks are not zero if none was read, unless gim did not
\* reach the GPU at the first slow tick.
FailedReadNotApplicable ==
    tick > 0 =>
        LET rows == Rows IN \A a \in DOMAIN rows \intersect (FastAttrs \union {"ecc_total"}) :
            rows[a] = "zero" =>
                \/ watched.backend = "wsl"
                \/ ~ GimWatched(watched)
                \/ a = "ecc_total" /\ (a \in watched.lacks \/ slow_cache_ = WatchCleared)

\* "Slow tier fields carry forward on ticks that skip the slow reads"
\* (smi_state.cc:108): once a reading was reported, no tick takes it back, whether
\* its call fails or is not made; but for the sum of the errors, the free memory,
\* the list of clocks, which a slow tick makes anew, gim without a GPU, and the
\* PCIe bandwidth of gim, which is read at every tick and kept by slow ones only.
SlowReadingsLast ==
    [][stats_' # stats_ =>
           \A a \in SlowAttrs \ (ClockList \union {"ecc_total", "free_vram"}) :
               /\ stats_[a] \in ReadingOf(a)
               /\ GimWatched(watched')
               /\ watched.backend = "gim" => a # "pcie_bandwidth"
               => stats_'[a] = stats_[a]]_watchShowVars

\* A GPUGet of the same GPU, all of whose calls are answered.
Pulled(d) ==
    LET created == Update(Cleared, Created(d))
    IN Update(Update(Update(created, SpecOf(d)), StatusOf(d, Update(created, SpecOf(d)))), StatsOf(d))

\* The field of a GPUGet an attribute is to agree with.
PullName(a) ==
    CASE a = "gpu_clock" -> "gfx_clock" [] a = "memory_clock" -> "mem_clock"
      [] a = "gpu_temp" -> "edge_temp" [] a = "power" -> "avg_power" [] OTHER -> a

\* What the two paths are known to report differently: a speed that is not
\* available, for which the watch has zero; what a GPUGet of a partition leaves
\* out or takes from another row; what the WSL back end asks for again for a
\* GPUGet; and for gim all but what it has for both.
Divergent(d) ==
    {"pcie_speed", "pcie_max_speed"} \union
    (IF d.partitioned THEN {"vcn_activity", "jpeg_activity", "ecc_block", "ecc_total", "low_util_acc"}
     ELSE {}) \union
    (CASE d.backend = "wsl" ->
            {"package_power", "avg_power", "power", "gfx_activity", "umc_activity", "gpu_temp"}
       [] d.backend = "gim" ->
            WatchFields \ {"gpu_clock", "memory_clock", "memory_temp", "gfx_activity",
                           "umc_activity", "mm_activity", "gfx_voltage", "soc_voltage",
                           "mem_voltage", "pcie_bandwidth", "ecc_block", "ecc_total"}
       [] OTHER -> {})

NothingKnown == Sentinels \union {"zero", "absent"}

\* "Mirroring smi_gpu_fill_stats", "assemble like the pull path": what a watch
\* reports of a GPU all of whose calls are answered is what a GPUGet reports of
\* it, and what the one does not know the other does not know; whatever failed at
\* earlier ticks.
WatchAgreesWithGet ==
    tick > 0 /\ watched.fails = {} =>
        LET get == Pulled(watched)
        IN \A a \in DOMAIN Frame(attr_id, stats_) \intersect
                    (IF refreshed THEN WatchFields ELSE FastAttrs) :
               LET v == stats_[a]
                   w == IF PullName(a) \in Fields THEN get[PullName(a)] ELSE v
               IN \/ v = w
                  \/ v \in NothingKnown /\ w \in NothingKnown
                  \/ a \in Divergent(watched)
                  \/ a \in WithFallback /\ w \in NothingKnown

\* "The exporter clock_index label matches the pull path 1:1" (smi_state.cc:340):
\* the index of a clock in the list of a watch is its place in the list of a
\* GPUGet, when both could read the same kinds.
ClockIndexAgrees ==
    watched.backend # "gim" /\ refreshed /\ ~ Discrete =>
        LET m == IF watched.backend = "wsl" THEN WslMetrics(watched) ELSE AmdsmiMetrics(watched)
            pull == PullSlots(watched, 2)
        IN \A entry \in WatchSlots(watched, m, 2) :
               entry[1] \in DOMAIN pull /\ pull[entry[1]] = entry[2]

\* A frame of a watch has readings of what was asked for, and a sentinel where
\* nothing was read.
RowsFaithful == RowsHoldReadings /\ SentinelOfFullWidth /\ FailedReadNotApplicable

\* A watch and a GPUGet tell the same of a GPU, the numbering of its clocks
\* included ("assemble like the pull path", smi_state.cc).
WatchMatchesGet == WatchAgreesWithGet /\ ClockIndexAgrees
=============================================================================
