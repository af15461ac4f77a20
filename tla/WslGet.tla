------------------------------- MODULE WslGet -------------------------------
(***************************************************************************)
(* The metrics part of a GPUGet of the wsl back end (wslamdsmi), which the *)
(* library may answer in pieces.  amdsmi_get_gpu_metrics_info may leave    *)
(* fields zero, leave the size of the structure zero, or not be supported; *)
(* what is zero is then asked for field by field, and the structure counts *)
(* as filled once one of some fields is.  The cache is that of GpuGet, but *)
(* the statistics fetch again when the cached structure does not count as  *)
(* filled.  Not here: the status, which only copies the cache.             *)
(*                                                                         *)
(* A value is the number of the fetch it came with, or 0 for zero; NA is   *)
(* what the client takes for "not available".                              *)
(***************************************************************************)
EXTENDS Integers, FiniteSetsExt

CONSTANTS
    WslGetters,       \* gRPC threads that serve a GPUGet
    WslHandles,       \* GPU handles
    WslPartitioned,   \* handles of partitions
    WslFirst,         \* the handle of partition 0
    MaxFetches        \* bound: fetches from the devices

ASSUME WslAssumption ==
    /\ WslPartitioned \subseteq WslHandles
    /\ MaxFetches \in Nat

VARIABLES
    wsl_metrics,   \* g_gpu_metrics; an erased entry reads like an empty one
    fetched,       \* fetches so far
    wsl_get        \* the GPUGet of each thread

wslVars == <<wsl_metrics, fetched, wsl_get>>

Fields == {"activity", "power", "temperature"}
Counted == {"activity", "power"}    \* those that make a structure a filled one
Metrics == [size : BOOLEAN, val : [Fields -> Nat]]
Empty == [size |-> FALSE, val |-> [f \in Fields |-> 0]]
NA == -1

NoWslGet == [pc |-> "idle"]

\* The type invariant: no entry is made up, none counts as filled by error.
WslTypeOK ==
    /\ fetched \in 0 .. MaxFetches
    /\ wsl_metrics \in [WslHandles -> Metrics]
    /\ \A h \in WslHandles, f \in Fields : wsl_metrics[h].val[f] <= fetched
    /\ \A h \in WslHandles, f \in Counted :
           wsl_metrics[h].val[f] # 0 => wsl_metrics[h].size
    /\ \A c \in WslGetters : wsl_get[c].pc \in {"idle", "fetch", "cache", "stats",
                                                "refetch", "recache", "fill", "partition",
                                                "usage", "done"}

WslGetting(h) == {c \in WslGetters : wsl_get[c].pc # "idle" /\ wsl_get[c].handle = h}

-----------------------------------------------------------------------------
\* Mutant of fill_metrics_from_individual: the structure counts as filled
\* whatever was answered.
fill_metrics_from_individualMutant(m, n) ==
    {[size |-> TRUE, val |-> v] :
         v \in {w \in [Fields -> {m.val[f] : f \in Fields} \union {0, n}] :
                    \A f \in Fields : w[f] \in IF m.val[f] = 0 THEN {0, n} ELSE {m.val[f]}}}

\* smi_wsl_fill_metrics_from_individual_: each field that is zero is asked for,
\* and stays zero if the call fails or the device says so; fetch n gives n.
fill_metrics_from_individual(m, n) ==
    {[size |-> m.size \/ (\E f \in Counted : v[f] # 0), val |-> v] :
         v \in {w \in [Fields -> {m.val[f] : f \in Fields} \union {0, n}] :
                    \A f \in Fields : w[f] \in IF m.val[f] = 0 THEN {0, n} ELSE {m.val[f]}}}

\* What amdsmi_get_gpu_metrics_info makes of the structure m, short of an error:
\* not supported leaves it as it was, success fills what it fills.
Answers(m) == {m} \union {[Empty EXCEPT !.size = s] : s \in BOOLEAN}

-----------------------------------------------------------------------------
\* gpu_entry::read begins.  `since' is the number of fetches when a read of the
\* GPU last began that no other one overlapped: one read hands on what it took
\* from another to the next.  `alone' is that of GetStart in GpuGet.
WslStart(c, h) ==
    /\ wsl_get[c] = NoWslGet
    /\ wsl_get' = [x \in WslGetters |->
           IF x = c
           THEN [pc |-> "fetch", handle |-> h,
                 since |-> Min({fetched} \union {wsl_get[y].since : y \in WslGetting(h)}),
                 alone |-> WslGetting(h) = {}, skip |-> FALSE, answered |-> FALSE,
                 own |-> Empty, activity |-> NA, power |-> NA, temperature |-> NA]
           ELSE IF x \in WslGetting(h) THEN [wsl_get[x] EXCEPT !.alone = FALSE]
           ELSE wsl_get[x]]
    /\ UNCHANGED <<wsl_metrics, fetched>>

\* Fetch n: the thread goes on with what the library answers and the fields asked
\* for one by one; `answered' remembers whether the device ever gave it anything.
Fetch(c, pc, n) ==
    \E answer \in Answers(wsl_get[c].own) :
        \E m \in fill_metrics_from_individual(answer, n) :
            wsl_get' = [wsl_get EXCEPT ![c] = [wsl_get[c] EXCEPT !.pc = pc, !.own = m,
                !.answered = \/ wsl_get[c].answered \/ answer.size
                             \/ \E f \in Fields : m.val[f] # 0]]

\* smi_gpu_fill_spec fetches,
WslSpecFetch(c) ==
    /\ wsl_get[c].pc = "fetch"
    /\ fetched < MaxFetches
    /\ fetched' = fetched + 1
    /\ \/ Fetch(c, "cache", fetched + 1)
       \/ wsl_get' = [wsl_get EXCEPT ![c].pc = "cache"]     \* an error
    /\ UNCHANGED wsl_metrics

\* and caches, under the lock.
WslSpecCache(c) ==
    /\ wsl_get[c].pc = "cache"
    /\ wsl_metrics' = [wsl_metrics EXCEPT ![wsl_get[c].handle] = wsl_get[c].own]
    /\ wsl_get' = [wsl_get EXCEPT ![c].pc = "stats"]
    /\ UNCHANGED fetched

\* smi_gpu_fill_stats copies the cache, under the lock;
WslStatsCopy(c) ==
    /\ wsl_get[c].pc = "stats"
    /\ LET m == wsl_metrics[wsl_get[c].handle] IN
       wsl_get' = [wsl_get EXCEPT ![c] = [@ EXCEPT !.pc = IF m.size THEN "fill" ELSE "refetch",
                                                   !.own = m]]
    /\ UNCHANGED <<wsl_metrics, fetched>>

\* if the structure does not count as filled, it fetches once more
WslStatsRefetch(c) ==
    /\ wsl_get[c].pc = "refetch"
    /\ fetched < MaxFetches
    /\ fetched' = fetched + 1
    /\ \/ Fetch(c, "recache", fetched + 1)
       \/ wsl_get' = [wsl_get EXCEPT ![c] = [@ EXCEPT !.pc = "fill", !.own = Empty]]
    /\ UNCHANGED wsl_metrics

\* and replaces the entry, whatever it is by then.
WslStatsRecache(c) ==
    /\ wsl_get[c].pc = "recache"
    /\ wsl_metrics' = [wsl_metrics EXCEPT ![wsl_get[c].handle] = wsl_get[c].own]
    /\ wsl_get' = [wsl_get EXCEPT ![c].pc = "fill"]
    /\ UNCHANGED fetched

\* Then the response is filled, if the structure counts as filled.  A power of
\* zero is asked for once more, and so is the activity of a GPU that is not a
\* partition; each may be answered, with zero or not.
WslStatsFill(c, skip) ==
    /\ wsl_get[c].pc = "fill"
    /\ LET m == wsl_get[c].own
           partition == wsl_get[c].handle \in WslPartitioned
           pc == IF partition THEN "partition" ELSE "usage"
           unused == partition \/ skip
           asks == m.val["power"] = 0 \/ (~unused /\ m.val["activity"] = 0)
       IN  \/ /\ ~m.size
              /\ wsl_get' = [wsl_get EXCEPT ![c] = [@ EXCEPT !.pc = pc, !.skip = skip]]
              /\ UNCHANGED fetched
           \/ /\ m.size
              /\ asks => fetched < MaxFetches
              /\ fetched' = IF asks THEN fetched + 1 ELSE fetched
              /\ \E p, a \in {0, fetched'} :
                     wsl_get' = [wsl_get EXCEPT ![c] = [@ EXCEPT !.pc = pc, !.skip = skip,
                         !.power = IF m.val["power"] = 0 THEN p ELSE m.val["power"],
                         !.temperature = m.val["temperature"],
                         !.activity = IF unused THEN NA
                                      ELSE IF m.val["activity"] = 0 THEN a
                                      ELSE m.val["activity"]]]
    /\ UNCHANGED wsl_metrics

\* The activity of a partition has metrics of its own, fetched for the violations
\* even if the activity is skipped.
WslStatsPartition(c) ==
    /\ wsl_get[c].pc = "partition"
    /\ LET pc == IF wsl_get[c].handle = WslFirst THEN "usage" ELSE "done" IN
       \/ /\ fetched < MaxFetches
          /\ fetched' = fetched + 1
          /\ \E a \in {0, fetched + 1} :
                 wsl_get' = [wsl_get EXCEPT ![c] =
                     IF wsl_get[c].skip THEN [@ EXCEPT !.pc = pc]
                     ELSE [@ EXCEPT !.pc = pc, !.activity = a, !.answered = TRUE]]
       \/ /\ wsl_get' = [wsl_get EXCEPT ![c].pc = pc]     \* it fails, or all is skipped
          /\ UNCHANGED fetched
    /\ UNCHANGED wsl_metrics

\* That of partition 0 and of a GPU without partitions is taken from the cache at
\* last, if there is a filled structure: over what the calls above answered.
WslStatsUsage(c) ==
    /\ wsl_get[c].pc = "usage"
    /\ LET m == wsl_metrics[wsl_get[c].handle] IN
       wsl_get' = [wsl_get EXCEPT ![c] =
                     [@ EXCEPT !.pc = "done",
                               !.activity = IF wsl_get[c].skip \/ ~m.size
                                            THEN wsl_get[c].activity ELSE m.val["activity"]]]
    /\ UNCHANGED <<wsl_metrics, fetched>>

\* The response goes out.
WslDone(c) ==
    /\ wsl_get[c].pc = "done"
    /\ wsl_get' = [wsl_get EXCEPT ![c] = NoWslGet]
    /\ UNCHANGED <<wsl_metrics, fetched>>

WslInit ==
    /\ wsl_metrics = [h \in WslHandles |-> Empty]
    /\ fetched = 0
    /\ wsl_get = [c \in WslGetters |-> NoWslGet]

WslNext ==
    \E c \in WslGetters :
        \/ \E h \in WslHandles : WslStart(c, h)
        \/ WslSpecFetch(c) \/ WslSpecCache(c) \/ WslStatsCopy(c) \/ WslStatsRefetch(c)
        \/ WslStatsRecache(c) \/ WslStatsPartition(c) \/ WslStatsUsage(c) \/ WslDone(c)
        \/ \E skip \in BOOLEAN : WslStatsFill(c, skip)

WslSpec == WslInit /\ [][WslNext]_wslVars

-----------------------------------------------------------------------------
\* Two fetches per Get may now race with those of other Gets to the cache, and one
\* may put back what it copied from it; still no Get reports a value from before
\* the GPU was last left alone by all (smi_gpu_fill_spec, smi_gpu_fill_stats).
WslNeverOlderThanOverlap ==
    \A c \in WslGetters : wsl_get[c].pc = "done" =>
        \A v \in {wsl_get[c].activity, wsl_get[c].power, wsl_get[c].temperature} :
            v > 0 => v > wsl_get[c].since

\* A structure that is wholly unsupported must not be published as "zero-initialized
\* fields (temperature, fan, voltage, PCIe) as real data rather than AMD SMI NA
\* sentinels" (wslamdsmi/smi_utils.hpp): a GPUGet that no other one overlaps and
\* to which the device answered nothing reports nothing.
NothingFromNothing ==
    \A c \in WslGetters : wsl_get[c].pc = "done" /\ wsl_get[c].alone /\ ~wsl_get[c].answered =>
        {wsl_get[c].activity, wsl_get[c].power, wsl_get[c].temperature} = {NA}

\* What a GPUGet of the WSL back end reports is of its time, and something only
\* if the device answered (smi_gpu_fill_spec, smi_gpu_fill_stats).
WslReportsItsSample == WslNeverOlderThanOverlap /\ NothingFromNothing
=============================================================================
