----------------------------- MODULE GpuConfig -----------------------------
(***************************************************************************)
(* The configuration of a GPU: what the device has, and the copy of it     *)
(* that the GPU object keeps (spec_ of gpu_entry) and every Get returns.   *)
(*                                                                         *)
(* Callers on gRPC threads read the copy, change an attribute and send     *)
(* the whole specification back: the two partition RPCs do it inside the   *)
(* service (svc/gpu_svc.hpp), `gpuctl update gpu' in the client            *)
(* (cli/cmd/gpu.go).  The API thread handles one update at a time: what    *)
(* differs from the copy is written to the device, one attribute after the *)
(* other (smi_gpu_update), and the copy is replaced when all went well.    *)
(* Reads take no lock, so one that meets the memcpy returns a mixture.     *)
(*                                                                         *)
(* The writes and resets are those of the back end the agent is built      *)
(* with (api/smi/smi_api.hpp).  GPUs are those without partitions below    *)
(* them.  Values are 0 (default), 1 (another one) and Odd.                 *)
(***************************************************************************)
EXTENDS Naturals, Sequences, SequencesExt

CONSTANTS
    ConfigGpus,  \* the GPU objects
    Callers,     \* RPCs that run at the same time
    Flags,       \* those that `gpuctl update gpu' changes
    SpecAttrs,   \* attributes of the specification that are looked at
    SmiBackends, \* the back ends to build with
    MaxIds,      \* bound: GPUs named by one partition request of each caller
    MaxResetIds  \* bound: GPUs named by one reset request

AllAttrs == {"compute", "memory", "overdrive", "clock", "power", "perf", "fan"}

ASSUME ConfigAssumption ==
    /\ SpecAttrs \subseteq AllAttrs
    /\ {"compute", "memory", "perf"} \subseteq SpecAttrs
    /\ Flags \subseteq SpecAttrs
    /\ SmiBackends \subseteq {"amdsmi", "wslamdsmi", "gimamdsmi"}
    /\ "none" \notin Callers
    /\ MaxIds \in [Callers -> Nat] /\ MaxResetIds \in Nat

\* Overdrive: more than AGA_GPU_MAX_OVERDRIVE_LEVEL.  Clocks and power caps: a
\* list of which some entries are good and one is not.  On a device: only some
\* of the list was set.  What gim puts where the library has nothing to say
\* (UINT32_MAX for overdrive).
Odd    == 2
Manual == 1     \* AGA_GPU_PERF_LEVEL_MANUAL; 0 is AUTO

UnknownGpu  == "no such gpu"
Idle   == [pc |-> "idle"]
NoTask == [ids |-> <<>>]
Specs  == [SpecAttrs -> 0 .. Odd]

VARIABLES
    smi_backend,   \* the back end of this agent
    device,        \* what each device has
    stored,        \* spec_ of each gpu_entry
    drift,         \* attributes whose copy may differ from the device, for a known reason
    caller,        \* the RPC of each caller
    api_upd,       \* the caller whose update is being stashed, or "none"
    last_reset     \* the reset task, until another request reaches a device

configVars == <<smi_backend, device, stored, drift, caller, api_upd, last_reset>>

ConfigTypeOK ==
    /\ smi_backend \in SmiBackends
    /\ device \in [ConfigGpus -> Specs]
    /\ stored \in [ConfigGpus -> Specs]
    /\ drift \in [ConfigGpus -> SUBSET SpecAttrs]
    /\ \A c \in Callers :
         /\ caller[c].pc \in {"idle", "queued", "loop", "done"}
         /\ caller[c].pc = "queued" =>
              /\ caller[c].gpu \in ConfigGpus /\ caller[c].spec \in Specs
              /\ smi_backend # "gimamdsmi" /\ "overdrive" \in SpecAttrs =>
                     caller[c].spec["overdrive"] # Odd
    /\ api_upd \in Callers \union {"none"}

-----------------------------------------------------------------------------
\* The copy; while the API thread replaces it, any mixture of both.
Copied(g) ==
    IF api_upd # "none" /\ caller[api_upd].gpu = g
    THEN {[a \in SpecAttrs |-> IF a \in new THEN caller[api_upd].spec[a] ELSE stored[g][a]] :
             new \in SUBSET SpecAttrs}
    ELSE {stored[g]}

\* smi_gpu_fill_spec of gim puts its own values over the copy, unless the session
\* is refused; the power cap is read from the device, if it can be.
NotInGim == {"overdrive", "perf", "fan"}
GimFillSpec(g, s) ==
    {s} \union {[a \in SpecAttrs |-> IF a \in NotInGim THEN Odd
                                    ELSE IF a = "power" /\ read THEN device[g][a] ELSE s[a]] :
                   read \in BOOLEAN}

\* fill_spec_; the other back ends fetch metrics there (GpuGet, WslGet).
fill_spec(g) ==
    IF smi_backend = "gimamdsmi" THEN UNION {GimFillSpec(g, s) : s \in Copied(g)} ELSE Copied(g)

\* Mutant of upd_mask: the memory partition is not compared.
upd_maskMutant(g, spec) == {a \in SpecAttrs \ {"memory"} : stored[g][a] # spec[a]}

\* The attributes an update finds changed.  The clock ranges are compared with
\* AGA_GPU_CLOCK_TYPE_MAX (9) entries of an array that has 4, which takes in the
\* fan speed that follows them.
upd_mask(g, spec) ==
    {a \in SpecAttrs : \/ stored[g][a] # spec[a]
                       \/ a = "clock" /\ "fan" \in SpecAttrs /\ stored[g]["fan"] # spec["fan"]}

Write(spec, mask, a) == IF a \in mask THEN << <<a, spec[a]>> >> ELSE <<>>

\* smi_gpu_update of amdsmi: the writes to the device, in their order.  A new
\* partition is written alone, and an overdrive level needs the manual
\* performance level.
AmdsmiUpdate(g, spec, mask) ==
    LET One(a) == Write(spec, mask, a)
    IN  IF "compute" \in mask THEN One("compute")
        ELSE IF "memory" \in mask THEN One("memory")
        ELSE (IF "overdrive" \in mask /\ device[g]["perf"] # Manual
              THEN << <<"perf", Manual>> >> ELSE <<>>)
             \o One("overdrive") \o One("clock") \o One("power") \o One("perf") \o One("fan")

\* That of wslamdsmi is the same.
WslUpdate(g, spec, mask) == AmdsmiUpdate(g, spec, mask)

\* That of gimamdsmi: whatever else changed is passed over, and the status is OK.
GimUpdate(spec, mask) ==
    IF "memory" \in mask THEN Write(spec, mask, "memory") ELSE Write(spec, mask, "power")

smi_gpu_update(g, spec, mask) ==
    CASE smi_backend = "amdsmi"    -> AmdsmiUpdate(g, spec, mask)
      [] smi_backend = "wslamdsmi" -> WslUpdate(g, spec, mask)
      [] smi_backend = "gimamdsmi" -> GimUpdate(spec, mask)

\* smi_gpu_power_cap_update_ and the loop over the clocks set the entries of a
\* list one by one, so one that fails may have set some; gim has one power cap.
AmdsmiPartly(w) == IF w[1] \in {"clock", "power"} THEN {<<>>, << <<w[1], Odd>> >>} ELSE {<<>>}
WslPartly(w) == AmdsmiPartly(w)
GimPartly == {<<>>}
PartlySet(w) ==
    CASE smi_backend = "amdsmi"    -> AmdsmiPartly(w)
      [] smi_backend = "wslamdsmi" -> WslPartly(w)
      [] smi_backend = "gimamdsmi" -> GimPartly

\* What was written when one of the writes failed, those before it having gone
\* well.  AGA_SMI_SESSION_GUARD of gim may refuse the session before the first.
Tried(writes) == {k \in DOMAIN writes : \A i \in 1 .. k - 1 : writes[i][2] # Odd}
FailedAt(writes, k) == {SubSeq(writes, 1, k - 1) \o partly : partly \in PartlySet(writes[k])}
Interrupted(writes) ==
    (UNION {FailedAt(writes, k) : k \in Tried(writes)})
    \union (IF smi_backend = "gimamdsmi" THEN {<<>>} ELSE {})

\* The device after the writes: the last one of an attribute counts.
Written(g, writes) ==
    [a \in SpecAttrs |->
        LET at == {i \in DOMAIN writes : writes[i][1] = a}
        IN  IF at = {} THEN device[g][a] ELSE writes[CHOOSE i \in at : \A j \in at : j <= i][2]]
AttrsOf(writes) == {writes[i][1] : i \in DOMAIN writes}

\* The partition RPCs that are between their read of g and their answer.
Overlapped(c, g, new) ==
    [x \in Callers |-> IF x # c /\ new[x].pc # "idle" /\ new[x].gpu = g /\ new[x].op # "update"
                       THEN [new[x] EXCEPT !.overlap = TRUE] ELSE new[x]]

\* What is left of a request when its status is known.
Answer(r, ok) == [pc |-> "done", op |-> r.op, value |-> r.value, gpu |-> r.gpu,
                  ok |-> ok, overlap |-> r.overlap]

-----------------------------------------------------------------------------
\* The loop body of the two partition RPCs: read the GPU, change one attribute,
\* send the rest back as it was read.  A GPU that has the partition already ends
\* the loop, and the status is the OK of the read.
PartitionLoop(c, attr, value, ids) ==
    LET g == Head(ids) IN
    IF g \notin ConfigGpus
    THEN caller' = [caller EXCEPT ![c] = [pc |-> "done", op |-> attr, value |-> value,
                                          gpu |-> g, ok |-> FALSE, overlap |-> FALSE]]
    ELSE \E s \in fill_spec(g) :
           LET r == [pc |-> "queued", op |-> attr, value |-> value, gpu |-> g,
                     spec |-> [s EXCEPT ![attr] = value], left |-> Tail(ids),
                     overlap |-> api_upd # "none" /\ caller[api_upd].gpu = g]
           IN  caller' = [caller EXCEPT ![c] = IF s[attr] = value THEN Answer(r, TRUE) ELSE r]

\* GPUComputePartitionSet.
ComputePartitionSet(c, value, ids) ==
    /\ caller[c] = Idle
    /\ PartitionLoop(c, "compute", value, ids)
    /\ UNCHANGED <<smi_backend, device, stored, drift, api_upd, last_reset>>

\* GPUMemoryPartitionSet.
MemoryPartitionSet(c, value, ids) ==
    /\ caller[c] = Idle
    /\ PartitionLoop(c, "memory", value, ids)
    /\ UNCHANGED <<smi_backend, device, stored, drift, api_upd, last_reset>>

\* The next GPU of the request.
PartitionNext(c) ==
    /\ caller[c].pc = "loop"
    /\ PartitionLoop(c, caller[c].op, caller[c].value, caller[c].left)
    /\ UNCHANGED <<smi_backend, device, stored, drift, api_upd, last_reset>>

\* aga_gpu_proto_to_api_spec refuses an overdrive level out of range.
ProtoToApiSpec(spec) == "overdrive" \in SpecAttrs => spec["overdrive"] # Odd

\* gpuctl update: GPUGet, change the attributes its flags name, GPUUpdate.
GpuUpdateCmd(c, g, flags) ==
    /\ caller[c] = Idle
    /\ \E s \in fill_spec(g) :
         LET spec == [a \in SpecAttrs |-> IF a \in DOMAIN flags THEN flags[a] ELSE s[a]]
             r    == [pc |-> "queued", op |-> "update", value |-> 0, gpu |-> g,
                      spec |-> spec, left |-> <<>>, overlap |-> FALSE]
         IN  caller' = [caller EXCEPT ![c] = IF ProtoToApiSpec(spec) THEN r ELSE Answer(r, FALSE)]
    /\ UNCHANGED <<smi_backend, device, stored, drift, api_upd, last_reset>>

-----------------------------------------------------------------------------
\* Mutant of UpdateFails: the copy is replaced although a write failed.
UpdateFailsMutant(c) ==
    /\ api_upd = "none" /\ caller[c].pc = "queued"
    /\ LET g      == caller[c].gpu
           writes == smi_gpu_update(g, caller[c].spec, upd_mask(g, caller[c].spec))
       IN  \E done \in Interrupted(writes) :
             /\ device' = [device EXCEPT ![g] = Written(g, done)]
             /\ drift' = [drift EXCEPT ![g] = @ \union AttrsOf(done)]
             /\ stored' = [stored EXCEPT ![g] = caller[c].spec]
             /\ caller' = Overlapped(c, g, [caller EXCEPT ![c] = Answer(@, FALSE)])
    /\ last_reset' = NoTask
    /\ UNCHANGED <<smi_backend, api_upd>>

\* update_handler on the API thread, up to the result of smi_gpu_update.  When a
\* write fails, those before it stay and the copy is not touched.
UpdateFails(c) ==
    /\ api_upd = "none" /\ caller[c].pc = "queued"
    /\ LET g      == caller[c].gpu
           writes == smi_gpu_update(g, caller[c].spec, upd_mask(g, caller[c].spec))
       IN  \E done \in Interrupted(writes) :
             /\ device' = [device EXCEPT ![g] = Written(g, done)]
             /\ drift' = [drift EXCEPT ![g] = @ \union AttrsOf(done)]
             /\ caller' = Overlapped(c, g, [caller EXCEPT ![c] = Answer(@, FALSE)])
    /\ last_reset' = NoTask
    /\ UNCHANGED <<smi_backend, stored, api_upd>>

\* All writes succeed.  What was written and what is stashed may still differ:
\* the performance level that overdrive needs, and what a new partition leaves out.
UpdateApplies(c) ==
    /\ api_upd = "none" /\ caller[c].pc = "queued"
    /\ LET g      == caller[c].gpu
           spec   == caller[c].spec
           mask   == upd_mask(g, spec)
           writes == smi_gpu_update(g, spec, mask)
           now    == Written(g, writes)
       IN  /\ \A i \in DOMAIN writes : writes[i][2] # Odd
           /\ device' = [device EXCEPT ![g] = now]
           /\ drift' = [drift EXCEPT ![g] = {a \in @ \union mask \union AttrsOf(writes) :
                                               now[a] # spec[a]}]
           /\ caller' = Overlapped(c, g, caller)
    /\ api_upd' = c
    /\ last_reset' = NoTask
    /\ UNCHANGED <<smi_backend, stored>>

\* "update the stashed spec if the gpu update goes through".
UpdateStash(c) ==
    /\ api_upd = c
    /\ stored' = [stored EXCEPT ![caller[c].gpu] = caller[c].spec]
    /\ api_upd' = "none"
    /\ caller' = [caller EXCEPT ![c] = IF @.left = <<>> THEN Answer(@, TRUE)
                                       ELSE [@ EXCEPT !.pc = "loop"]]
    /\ UNCHANGED <<smi_backend, device, drift, last_reset>>

\* The RPC answers.
ConfigDone(c) ==
    /\ caller[c].pc = "done"
    /\ caller' = [caller EXCEPT ![c] = Idle]
    /\ UNCHANGED <<smi_backend, device, stored, drift, api_upd, last_reset>>

-----------------------------------------------------------------------------
\* smi_gpu_reset of amdsmi: the attributes a type sets back to their default, in
\* order.  The status is that of the last call, whatever the ones before it
\* returned.  A partition cannot be reset.
AmdsmiReset(type) ==
    CASE type = "clock"       -> <<"overdrive", "perf">>
      [] type = "fan"         -> <<"fan">>
      [] type = "profile"     -> <<"perf">>
      [] type = "power"       -> <<"power">>
      [] type = "determinism" -> <<"perf">>
      [] type = "partition"   -> <<>>

\* That of wslamdsmi is the same, and gimamdsmi resets nothing.
WslReset(type) == AmdsmiReset(type)
GimReset == <<>>

smi_gpu_reset(type) ==
    CASE smi_backend = "amdsmi"    -> AmdsmiReset(type)
      [] smi_backend = "wslamdsmi" -> WslReset(type)
      [] smi_backend = "gimamdsmi" -> GimReset
ResetTypes == {"clock", "fan", "profile", "power", "determinism", "partition"}

\* handle_gpu_reset_task_, on the API thread: an unknown GPU ends it; the call
\* that resets comes after the loop, for the GPU the loop found last.  Of the power
\* caps, which are reset one by one, some may fail.  The copy of the specification
\* is left alone.
ResetTask(type, ids) ==
    /\ api_upd = "none"
    /\ last_reset' = NoTask
    /\ \/ \E i \in DOMAIN ids : ids[i] \notin ConfigGpus
       \/ smi_gpu_reset(type) = <<>>   \* not supported
    /\ UNCHANGED <<smi_backend, device, stored, drift, caller, api_upd>>

ResetLast(type, ids) ==
    /\ api_upd = "none"
    /\ smi_gpu_reset(type) # <<>>
    /\ Range(ids) \subseteq ConfigGpus
    /\ LET g     == Last(ids)
           calls == smi_gpu_reset(type)
       IN  \E good \in SUBSET (DOMAIN calls), power \in IF type = "power" THEN {0, Odd} ELSE {0} :
             LET reset == {calls[i] : i \in good} \intersect SpecAttrs IN
             /\ device' = [device EXCEPT ![g] =
                    [a \in SpecAttrs |-> IF a \notin reset THEN @[a]
                                         ELSE IF a = "power" /\ @[a] # 0 THEN power ELSE 0]]
             /\ drift' = [drift EXCEPT ![g] = @ \union reset]
             /\ caller' = Overlapped("none", g, caller)
             /\ last_reset' = IF Len(calls) \in good /\ Last(calls) = "perf"
                              THEN [ids |-> ids] ELSE NoTask
    /\ UNCHANGED <<smi_backend, stored, api_upd>>

\* The flags of one command: one or two attributes and their new values.
FlagSets == UNION {[F -> 0 .. Odd] : F \in {{a} : a \in Flags} \union {{a, b} : a, b \in Flags}}
FlagSet == {f \in FlagSets : \A a \in DOMAIN f : f[a] = Odd => a \in {"overdrive", "clock", "power"}}

ConfigIds(max) == UNION {[1 .. n -> ConfigGpus \union {UnknownGpu}] : n \in 1 .. max}

\* The device and the copy agree when the agent starts, but for what the agent
\* failed to read (smi_gpu_init_config_; the discovery and smi_gpu_fill_spec of
\* gim), whose copy stays 0, and for what gim has no access to.
InitialReads == SpecAttrs \intersect (IF smi_backend = "gimamdsmi" THEN {"compute", "memory", "power"}
                                      ELSE {"overdrive", "perf", "power"})
ConfigInit ==
    /\ smi_backend \in SmiBackends
    /\ \E unread \in [ConfigGpus -> SUBSET InitialReads] :
         LET unknown == IF smi_backend = "gimamdsmi" THEN NotInGim \intersect SpecAttrs ELSE {} IN
         /\ device = [g \in ConfigGpus |-> [a \in SpecAttrs |-> IF a \in unread[g] THEN 1 ELSE 0]]
         /\ stored = [g \in ConfigGpus |-> [a \in SpecAttrs |-> IF a \in unknown THEN Odd ELSE 0]]
         /\ drift = [g \in ConfigGpus |-> unknown \union unread[g]]
    /\ caller = [c \in Callers |-> Idle]
    /\ api_upd = "none"
    /\ last_reset = NoTask

ConfigNext ==
    \/ \E c \in Callers :
         \/ \E value \in {0, 1}, ids \in ConfigIds(MaxIds[c]) :
              ComputePartitionSet(c, value, ids) \/ MemoryPartitionSet(c, value, ids)
         \/ PartitionNext(c)
         \/ \E g \in ConfigGpus, flags \in FlagSet : GpuUpdateCmd(c, g, flags)
         \/ UpdateFails(c) \/ UpdateApplies(c) \/ UpdateStash(c) \/ ConfigDone(c)
    \/ \E type \in ResetTypes, ids \in ConfigIds(MaxResetIds) :
         ResetTask(type, ids) \/ ResetLast(type, ids)

ConfigSpec == ConfigInit /\ [][ConfigNext]_configVars

-----------------------------------------------------------------------------
\* "the cached copy is refreshed by the GPUUpdate handler whenever a value is
\* updated" (smi_api.cc:180): the copy tells what the device has, also when
\* updates, resets and torn reads of several callers mix, except for attributes
\* the agent failed to read when it started, that an update wrote and then failed,
\* that a reset changed, that overdrive switched, that went unwritten with a new
\* partition, or that the gim back end does not write.
DriftExplained ==
    \A g \in ConfigGpus : ~(api_upd # "none" /\ caller[api_upd].gpu = g) =>
        \A a \in SpecAttrs : device[g][a] # stored[g][a] => a \in drift[g]

\* A partition RPC that ended with OK on a GPU that nothing else touched since
\* it was read has put the partition in effect on the device
\* (aga_svc_gpu_compute_partition_set, aga_svc_gpu_memory_partition_set), unless
\* the copy of the partition it read was already one that may differ from the
\* device (`drift'): then the RPC may find nothing to change.  With another update
\* in between it may have undone that one and set nothing.
PartitionInEffect ==
    \A c \in Callers :
        caller[c].pc = "done" /\ caller[c].ok /\ caller[c].op \in {"compute", "memory"}
            /\ ~caller[c].overlap /\ caller[c].op \notin drift[caller[c].gpu]
        => device[caller[c].gpu][caller[c].op] = caller[c].value

\* A reset request takes a "list of GPU uuids" (gpu.proto:874): when it succeeds,
\* each GPU of the list has been reset (handle_gpu_reset_task_).
ResetReachesAll == \A g \in Range(last_reset.ids) : device[g]["perf"] = 0
=============================================================================
