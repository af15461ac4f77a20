------------------------------ MODULE MCAgent ------------------------------
(***************************************************************************)
(* The parts of gpuagent that share no state, each in a small instance:    *)
(* objects and their counts (ObjectStore), the start-up loop (CreateGpus), *)
(* event subscriptions (EventMonitor), streamed records (GpuRecords),      *)
(* start-up and shutdown (Lifecycle), sessions of the gim back end         *)
(* (GimSession), readings and the client (GpuShow).  A behaviour is one of *)
(* the part it chose at the start; the rest stands still.  MCGpu and MCSdk *)
(* have the other parts.                                                   *)
(***************************************************************************)
EXTENDS ObjectStore, CreateGpus, EventMonitor, GpuRecords, Lifecycle,
        GimSession, GpuShow, TLC

CONSTANTS a1, a2

VARIABLE part    \* the part that moves

AgentTransports == (a1 :> {"uds"}) @@ (a2 :> {"uds", "tcp"})
AgentStarts     == (a1 :> 2) @@ (a2 :> 1)
AgentBackend    == (a1 :> "amdsmi") @@ (a2 :> "wslamdsmi")

\* What a device may have no reading for.
ShowShortages ==
    {SpecFields \union IdentityFields, ClockFields, ClockRangeFields,
     UsageFields \union PcieStatsFields, ViolationFields, StatsFields,
     StatusFields \ (ClockFields \union ClockRangeFields),
     {"vr_acc"}, {"low_util_acc", "hbm_acc", "total_vram", "xgmi_requests"}}

\* The reads of bad pages and of error records share nothing: they take turns.
OneRead == stream = NoStream \/ cper = NoCper

AgentInit ==
    /\ part \in {"store", "create", "event", "records", "life", "gim", "show"}
    /\ part # "create" => partitions = <<1>>
    /\ StoreInit /\ CreateInit /\ EventInit /\ RecordsInit /\ LifeInit /\ GimInit
    /\ ShowInit
    /\ part # "show" => device = Device("amdsmi", "whole", FALSE, TRUE, {})
    /\ part # "gim" => ~lazy_init

AgentNext ==
    /\ UNCHANGED part
    /\ \/ /\ part = "store" /\ StoreNext
          /\ UNCHANGED <<createVars, eventVars, recordsVars, lifeVars,
                         gimVars, showVars>>
       \/ /\ part = "create" /\ CreateNext
          /\ UNCHANGED <<storeVars, eventVars, recordsVars, lifeVars,
                         gimVars, showVars>>
       \/ /\ part = "event" /\ EventNext
          /\ UNCHANGED <<storeVars, createVars, recordsVars, lifeVars,
                         gimVars, showVars>>
       \/ /\ part = "records" /\ RecordsNext /\ OneRead'
          /\ UNCHANGED <<storeVars, createVars, eventVars, lifeVars,
                         gimVars, showVars>>
       \/ /\ part = "life" /\ LifeNext
          /\ UNCHANGED <<storeVars, createVars, eventVars, recordsVars,
                         gimVars, showVars>>
       \/ /\ part = "gim" /\ GimNext
          /\ UNCHANGED <<storeVars, createVars, eventVars, recordsVars, lifeVars,
                         showVars>>
       \/ /\ part = "show" /\ ShowNext
          /\ UNCHANGED <<storeVars, createVars, eventVars, recordsVars, lifeVars,
                         gimVars>>

agentVars == <<part, storeVars, createVars, eventVars, recordsVars, lifeVars,
               gimVars, showVars>>

AgentSpec == AgentInit /\ [][AgentNext]_agentVars

-----------------------------------------------------------------------------
\* The type invariants of the parts, which bound every reference count, tick
\* counter and program counter in the code they name.
AgentTypeOK ==
    /\ StoreTypeOK
    /\ CreateTypeOK
    /\ EventTypeOK
    /\ RecordsTypeOK
    /\ LifeTypeOK
    /\ GimTypeOK
    /\ ShowTypeOK
=============================================================================
