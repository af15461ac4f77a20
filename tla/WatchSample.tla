---------------------------- MODULE WatchSample ----------------------------
(***************************************************************************)
(* What the watcher thread publishes and when.  A one-second timer samples *)
(* the fast tier once per fast period and, among those samples, the slow   *)
(* tier once per slow period; slow values are carried forward in between   *)
(* (watch_timer_cb_ and smi_watcher_update_all_watch_fields_ of            *)
(* api/smi/amdsmi/smi_state.cc; the gim and wsl back ends repeat them).    *)
(* The periods are two plain globals that the API thread writes, one after *)
(* the other, when a watch object is created (api/smi/smi_watch.cc), while *)
(* the timer callback reads them one after the other.                      *)
(*                                                                         *)
(* A field's value is abstracted to where it comes from: "zero" (never     *)
(* read since start), "NA", "now" (read for this sample) or "older".       *)
(***************************************************************************)
EXTENDS Integers

CONSTANTS
    FastMin, FastMax, FastDflt,   \* AGA_GPU_WATCH_FAST_PERIOD_*
    SlowMin, SlowMax, SlowDflt,   \* AGA_GPU_WATCH_SLOW_PERIOD_*
    EnvFast,                      \* AGA_GPU_WATCH_UPDATE_FREQ, 0 if not set
    TickWidth,                    \* number of values of the tick counters (uint16_t)
    SlowReads                     \* the slow tier's own smi calls

ASSUME PeriodAssumption ==
    /\ {FastMin, FastMax, FastDflt, SlowMin, SlowMax, SlowDflt, EnvFast} \subseteq Nat
    /\ 0 < FastMin /\ FastMin <= FastDflt /\ FastDflt <= FastMax
    /\ 0 < SlowMin /\ SlowMin <= SlowDflt /\ SlowDflt <= SlowMax
    /\ TickWidth \in Nat
    /\ SlowMax + FastMax < TickWidth

\* Fast attributes: those with a discrete read to fall back on (k_fast_attrs) ...
FallbackAttrs == {"GPU_CLOCK", "MEM_CLOCK", "MEMORY_TEMP", "GPU_TEMP",
                  "POWER_USAGE", "GPU_UTIL"}

\* ... and those served by the bulk metrics read alone.
BulkAttrs ==
    {"UMC_ACTIVITY", "MM_ACTIVITY", "AVG_POWER", "GFX_VOLTAGE", "SOC_VOLTAGE",
     "MEM_VOLTAGE", "ENERGY_CONSUMED", "HBM_TEMP", "VCN_ACTIVITY",
     "JPEG_ACTIVITY", "XGMI_LINK_RX", "XGMI_LINK_TX", "GFX_BUSY_INST",
     "VCN_BUSY_INST", "JPEG_BUSY_INST", "PCIE_REPLAY_COUNT",
     "PCIE_RECOVERY_COUNT", "PCIE_REPLAY_ROLLOVER_COUNT", "PCIE_NACK_SENT_COUNT",
     "PCIE_NACK_RECEIVED_COUNT", "GPU_POWER_USAGE", "VRAM_MAX_BANDWIDTH",
     "EDGE_TEMP"}

FastAttrs == FallbackAttrs \union BulkAttrs
Attrs == FastAttrs \union SlowReads

\* Mutant of ResetAttrs: an attribute was added to the fast tier only.
ResetAttrsMutant ==
    {"GPU_CLOCK", "MEM_CLOCK", "GPU_TEMP", "MEMORY_TEMP", "POWER_USAGE", "GPU_UTIL",
     "UMC_ACTIVITY", "MM_ACTIVITY", "AVG_POWER", "GFX_VOLTAGE", "SOC_VOLTAGE",
     "MEM_VOLTAGE", "ENERGY_CONSUMED", "GPU_POWER_USAGE", "VRAM_MAX_BANDWIDTH"}

\* The fields aga_gpu_watch_reset_fast_fields sets to NA (or to no entry).
ResetAttrs ==
    {"GPU_CLOCK", "MEM_CLOCK", "GPU_TEMP", "MEMORY_TEMP", "POWER_USAGE", "GPU_UTIL",
     "UMC_ACTIVITY", "MM_ACTIVITY", "AVG_POWER", "GFX_VOLTAGE", "SOC_VOLTAGE",
     "MEM_VOLTAGE", "ENERGY_CONSUMED", "GPU_POWER_USAGE", "VRAM_MAX_BANDWIDTH",
     "EDGE_TEMP", "PCIE_REPLAY_COUNT", "PCIE_RECOVERY_COUNT",
     "PCIE_REPLAY_ROLLOVER_COUNT", "PCIE_NACK_SENT_COUNT",
     "PCIE_NACK_RECEIVED_COUNT", "HBM_TEMP", "VCN_ACTIVITY", "JPEG_ACTIVITY",
     "XGMI_LINK_RX", "XGMI_LINK_TX", "GFX_BUSY_INST", "VCN_BUSY_INST",
     "JPEG_BUSY_INST"}

VARIABLES
    fast_period,   \* g_fast_period_secs
    slow_period,   \* g_slow_period_secs
    new_slow,      \* the slow period smi_watch_set_periods has still to write, or 0
    subscribed,    \* any_watch_group_subscribed
    fast_ticks, slow_ticks, slow_primed,
    stage,         \* "idle", or "sample" once the fast period has elapsed
    slow_cache,    \* slow_cache_ of one GPU
    published,     \* the watch_info last handed to the API thread, same GPU
    slow_age       \* history: seconds since the slow tier was last sampled

periodVars     == <<fast_period, slow_period, new_slow>>
sampleTickVars == <<fast_ticks, slow_ticks, slow_primed, stage, slow_age>>
fieldVars      == <<slow_cache, published>>
sampleVars == <<periodVars, subscribed, sampleTickVars, fieldVars>>

SampleTypeOK ==
    /\ fast_period \in FastMin .. FastMax
    /\ slow_period \in SlowMin .. SlowMax
    /\ new_slow \in {0} \union SlowMin .. SlowMax
    /\ subscribed \in BOOLEAN
    /\ fast_ticks \in 0 .. TickWidth - 1
    /\ slow_ticks \in 0 .. TickWidth - 1
    /\ slow_primed \in BOOLEAN
    /\ stage \in {"idle", "sample"}
    /\ slow_cache \in [Attrs -> {"zero", "NA", "now", "older"}]
    /\ published \in [Attrs -> {"zero", "NA", "now", "older"}]
    /\ slow_age \in Nat

-----------------------------------------------------------------------------
\* smi_watch_fast_period_dflt_: the environment's value if it is in range.
FastPeriodDflt == IF EnvFast \in FastMin .. FastMax THEN EnvFast ELSE FastDflt

\* What aga_gpu_watch_proto_to_api_spec accepts; 0 asks for the default.
ValidPeriods(fast, slow) ==
    /\ fast \in {0} \union FastMin .. FastMax
    /\ slow \in {0} \union SlowMin .. SlowMax
    /\ (IF slow = 0 THEN SlowDflt ELSE slow) >= (IF fast = 0 THEN FastDflt ELSE fast)

\* A watch object is created: smi_watch_set_periods writes the fast period ...
SetFastPeriod(fast, slow) ==
    /\ new_slow = 0
    /\ ValidPeriods(fast, slow)
    /\ fast_period' = IF fast = 0 THEN FastPeriodDflt ELSE fast
    /\ new_slow' = IF slow = 0 THEN SlowDflt ELSE slow
    /\ UNCHANGED <<slow_period, subscribed, sampleTickVars, fieldVars>>

\* ... then the slow one.
SetSlowPeriod ==
    /\ new_slow # 0
    /\ slow_period' = new_slow
    /\ new_slow' = 0
    /\ UNCHANGED <<fast_period, subscribed, sampleTickVars, fieldVars>>

\* The first client ever subscribes; the map of watches never empties again.
FirstSubscription ==
    /\ ~subscribed
    /\ stage = "idle"
    /\ subscribed' = TRUE
    /\ UNCHANGED <<periodVars, sampleTickVars, fieldVars>>

\* The timer fires (AGA_WATCHER_INTERVAL is one second): the ticks are counted
\* and compared with the fast period.
TimerFires ==
    /\ subscribed
    /\ stage = "idle"
    /\ slow_ticks' = (slow_ticks + 1) % TickWidth
    /\ slow_age' = slow_age + 1
    /\ LET ticks == (fast_ticks + 1) % TickWidth
       IN  \/ /\ ticks < fast_period
              /\ fast_ticks' = ticks
              /\ UNCHANGED stage
           \/ /\ ticks >= fast_period
              /\ fast_ticks' = 0
              /\ stage' = "sample"
    /\ UNCHANGED <<periodVars, subscribed, slow_primed, fieldVars>>

\* The fields of a sample, as smi_watcher_update_all_watch_fields_ fills them:
\* seeded from the cache, fast fields reset, then whatever could be read.
\* bulk, single: the bulk metrics read, the discrete reads of fast fields
\* succeed; ok: the slow calls that succeed.
Sampled(refresh, bulk, single, ok) ==
    [a \in Attrs |->
        CASE a \in FallbackAttrs /\ (bulk \/ single) -> "now"
          [] a \in BulkAttrs /\ bulk                 -> "now"
          [] a \in SlowReads /\ refresh /\ a \in ok  -> "now"
          [] OTHER -> IF a \in ResetAttrs       THEN "NA"
                      ELSE IF slow_cache[a] = "now" THEN "older"
                      ELSE slow_cache[a]]

\* A slow refresh keeps the whole sample as the next seed.
StoreCache(refresh, sample) ==
    slow_cache' = IF refresh
                  THEN sample
                  ELSE [a \in Attrs |-> IF slow_cache[a] = "now" THEN "older"
                                                              ELSE slow_cache[a]]

\* Mutant of SlowDue: the first sample does not force a slow refresh.
SlowDueMutant == slow_ticks >= slow_period

\* The slow tier is sampled with the very first sample and once per slow period.
SlowDue == ~slow_primed \/ slow_ticks >= slow_period

\* The rest of the callback: decide on the slow tier, sample, publish.
Publish(bulk, single, ok) ==
    /\ stage = "sample"
    /\ stage' = "idle"
    /\ slow_primed' = (slow_primed \/ SlowDue)
    /\ slow_ticks' = IF SlowDue THEN 0 ELSE slow_ticks
    /\ slow_age' = IF SlowDue THEN 0 ELSE slow_age
    /\ published' = Sampled(SlowDue, bulk, single, ok)
    /\ StoreCache(SlowDue, published')
    /\ UNCHANGED <<periodVars, subscribed, fast_ticks>>

SampleInit ==
    /\ fast_period = FastDflt
    /\ slow_period = SlowDflt
    /\ new_slow = 0
    /\ subscribed = FALSE
    /\ fast_ticks = 0
    /\ slow_ticks = 0
    /\ slow_primed = FALSE
    /\ stage = "idle"
    /\ slow_cache = [a \in Attrs |-> "zero"]
    /\ published = [a \in Attrs |-> "zero"]
    /\ slow_age = 0

SampleNext ==
    \/ \E fast \in 0 .. FastMax, slow \in 0 .. SlowMax : SetFastPeriod(fast, slow)
    \/ SetSlowPeriod
    \/ FirstSubscription
    \/ TimerFires
    \/ \E bulk, single \in BOOLEAN, ok \in SUBSET SlowReads : Publish(bulk, single, ok)

SampleSpec == SampleInit /\ [][SampleNext]_sampleVars

-----------------------------------------------------------------------------
\* Whatever the periods are changed to and whenever, a published sample's slow
\* tier was sampled less than the slow period in effect ago, and the very
\* first sample with it: neither uint16_t counter wraps on the way.
SlowTierFresh ==
    [][stage = "sample" /\ stage' = "idle" => slow_primed' /\ slow_age' < slow_period]_sampleVars

\* "a failed read this tick is reported not-applicable rather than as a stale
\* carried-forward value" (smi_state.cc): no fast field is ever published from
\* an earlier sample, though the seed holds fast fields too.
FastNeverStale == \A a \in FastAttrs : published[a] # "older"
=============================================================================
