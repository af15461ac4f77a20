------------------------------- MODULE MCSdk -------------------------------
(***************************************************************************)
(* The parts of the SDK that gpuagent is built on, each in a small         *)
(* instance: event threads, requests between threads, the timer wheel, the *)
(* slab allocator and the thread pool; and, beside them, a watch from its  *)
(* readings to the screen (WatchShow).  They share no state; a behaviour   *)
(* is one of the part it chose at the start, and the rest stands still.    *)
(***************************************************************************)
EXTENDS EventThread, Ipc, TimerWheel, Slab, ThreadPool, WatchShow, TLC

CONSTANTS s1, s2

VARIABLE part    \* the part that moves

\* The asynchronous caller makes two calls, the synchronous one a single one.
IpcSerials == (s1 :> 1) @@ (s2 :> 2)

\* Timers are alike, and so are the threads that arm them.
WheelSymmetry == Permutations(Timers) \union Permutations(WheelUsers)

\* What a watched device may have no reading for.
WatchShowShortages ==
    {WatchArrays, BulkScalars, ClockFields, ClockRangeFields, SpecFields, ViolationFields,
     {"fabric_clock", "dce_clock", "pcie_clock"}, {"ecc_block", "ecc_total"}, {"edge_temp"},
     {"edge_temp", "junction_temp"}, {"avg_power"},
     {"avg_power", "package_power", "gfx_activity", "memory_temp", "nack_count"},
     {"total_vram", "pcie_speed", "pcie_max_speed", "pcie_bandwidth"}, {"used_vram"},
     {"xgmi_requests", "xgmi_throughput"}}

SdkInit ==
    /\ part \in {"event thread", "ipc", "twheel", "slab", "pool", "watch"}
    /\ EventThreadInit /\ IpcInit /\ WheelInit /\ SlabInit /\ PoolInit
    /\ WatchShowInit
    /\ part # "watch" => watched = Device("amdsmi", "whole", FALSE, TRUE, {})
    /\ part # "ipc" => ~server.serializing

SdkNext ==
    /\ UNCHANGED part
    /\ \/ /\ part = "event thread" /\ EventThreadNext
          /\ UNCHANGED <<ipcVars, wheelVars, slabVars, poolVars, watchShowVars>>
       \/ /\ part = "ipc" /\ IpcNext
          /\ UNCHANGED <<eventThreadVars, wheelVars, slabVars, poolVars, watchShowVars>>
       \/ /\ part = "twheel" /\ WheelNext
          /\ UNCHANGED <<eventThreadVars, ipcVars, slabVars, poolVars, watchShowVars>>
       \/ /\ part = "slab" /\ SlabNext
          /\ UNCHANGED <<eventThreadVars, ipcVars, wheelVars, poolVars, watchShowVars>>
       \/ /\ part = "pool" /\ PoolNext
          /\ UNCHANGED <<eventThreadVars, ipcVars, wheelVars, slabVars, watchShowVars>>
       \/ /\ part = "watch" /\ WatchShowNext
          /\ UNCHANGED <<eventThreadVars, ipcVars, wheelVars, slabVars, poolVars>>

sdkVars == <<part, eventThreadVars, ipcVars, wheelVars, slabVars, poolVars,
             watchShowVars>>

SdkSpec == SdkInit /\ [][SdkNext]_sdkVars

-----------------------------------------------------------------------------
\* The type invariants of the parts, which bound every reference count, tick
\* counter and program counter in the code they name.
SdkTypeOK ==
    /\ EventThreadTypeOK
    /\ IpcTypeOK
    /\ WheelTypeOK
    /\ SlabTypeOK
    /\ PoolTypeOK
    /\ WatchShowTypeOK
=============================================================================
