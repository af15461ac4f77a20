------------------------------- MODULE MCGpu -------------------------------
(***************************************************************************)
(* What is done with GPUs that exist, in parts that share no state: who    *)
(* subscribes to a watch (GpuWatch), what the watcher thread samples       *)
(* (WatchSample), updates, partitions and resets (GpuConfig), and the      *)
(* metrics of a Get with the amdsmi (GpuGet) and wslamdsmi back end        *)
(* (WslGet).  A behaviour is one of the part it chose at the start; the    *)
(* rest stands still.                                                      *)
(***************************************************************************)
EXTENDS MCGpuWatch, WatchSample, GpuConfig, GpuGet, WslGet

CONSTANT p1

VARIABLE part    \* the part that moves

\* One caller partitions GPUs and updates them, the other one only updates.
GpuMaxIds == [c \in Callers |-> IF c = p1 THEN 2 ELSE 0]

\* GPUs share nothing but the count of samples or of fetches: a behaviour of the
\* parts of a Get reads one of them.
OneHandle ==
    \E h \in Handles : \A k \in Handles \ {h} :
        g_gpu_metrics[k] = 0 /\ Getting(k) = {}

OneWslHandle ==
    \E h \in WslHandles : \A k \in WslHandles \ {h} :
        wsl_metrics[k] = Empty /\ WslGetting(k) = {}

GpuInit ==
    /\ part \in {"subscribe", "sample", "config", "get", "wsl"}
    /\ Init /\ SampleInit /\ ConfigInit /\ GetInit /\ WslInit
    /\ part # "config" => smi_backend = "amdsmi" /\ \A g \in ConfigGpus : drift[g] = {}

GpuNext ==
    /\ UNCHANGED part
    /\ \/ /\ part = "subscribe" /\ Next
          /\ UNCHANGED <<sampleVars, configVars, getVars, wslVars>>
       \/ /\ part = "sample" /\ SampleNext
          /\ UNCHANGED <<vars, configVars, getVars, wslVars>>
       \/ /\ part = "config" /\ ConfigNext
          /\ UNCHANGED <<vars, sampleVars, getVars, wslVars>>
       \/ /\ part = "get" /\ GetNext /\ OneHandle'
          /\ UNCHANGED <<vars, sampleVars, configVars, wslVars>>
       \/ /\ part = "wsl" /\ WslNext /\ OneWslHandle'
          /\ UNCHANGED <<vars, sampleVars, configVars, getVars>>

gpuVars == <<part, vars, sampleVars, configVars, getVars, wslVars>>

GpuSpec == GpuInit /\ [][GpuNext]_gpuVars

-----------------------------------------------------------------------------
\* The type invariants of the parts, which bound every reference count, tick
\* counter and program counter in the code they name.
GpuTypeOK ==
    /\ TypeOK
    /\ SampleTypeOK
    /\ ConfigTypeOK
    /\ GetTypeOK
    /\ WslTypeOK
=============================================================================
