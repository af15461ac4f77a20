----------------------------- MODULE CreateGpus -----------------------------
(***************************************************************************)
(* The start-up loop that creates the GPU objects (create_gpus, init.cc).  *)
(*                                                                         *)
(* Discovery lists every GPU the SMI library shows.  A device in a         *)
(* partitioned mode shows as several GPUs in a row, partition 0 first, and *)
(* only partition 0 carries the partition type; the loop creates a parent  *)
(* object for it and makes the rest children of the parent it remembers.   *)
(* A device and a partition number name a GPU, its key and its handle; the *)
(* device alone names its parent object.                                   *)
(*                                                                         *)
(* Any step may fail, as `Faults' allows: "parent" when the uuid or the    *)
(* object of a parent cannot be made, "gpu" when that of a GPU cannot.     *)
(***************************************************************************)
EXTENDS Integers, Sequences

CONSTANTS
    MaxDevices,      \* bound: devices in the system
    MaxPartitions,   \* bound: partitions of a device
    Faults           \* the failures that may happen

ASSUME CreateAssumption ==
    /\ MaxDevices \in Nat
    /\ MaxPartitions \in Nat
    /\ Faults \subseteq {"parent", "gpu"}

\* partitions[d] > 1 for a partitioned device d, 1 for any other.
Systems == UNION {[1 .. n -> 1 .. MaxPartitions] : n \in 1 .. MaxDevices}
GpuIds == (1 .. MaxDevices) \X (0 .. MaxPartitions - 1)
None == <<0, 0>>

VARIABLES
    partitions,              \* the system that was discovered
    next,                    \* gpu[i], or None after the last
    parent_gpu,              \* the local variable: a device, or 0 for NULL
    parents,                 \* devices whose parent object exists
    child_gpus,              \* child_gpus_ of each parent object
    gpu_handle_db,           \* GPUs whose object is complete and in the handle db
    parent_of,               \* parent_gpu_ of each of them, 0 for none
    first_partition_handle   \* first_partition_handle_ of each of them

createVars == <<partitions, next, parent_gpu, parents, child_gpus, gpu_handle_db,
          parent_of, first_partition_handle>>

CreateTypeOK ==
    /\ partitions \in Systems
    /\ next \in GpuIds \union {None}
    /\ parent_gpu \in parents \union {0}
    /\ parents \subseteq DOMAIN partitions
    /\ child_gpus \in [1 .. MaxDevices -> Seq(GpuIds)]
    /\ gpu_handle_db \subseteq GpuIds
    /\ parent_of \in [GpuIds -> 0 .. MaxDevices]
    /\ first_partition_handle \in [GpuIds -> GpuIds \union {None}]

-----------------------------------------------------------------------------
\* The GPU after g in the list that was discovered.
After(g) ==
    IF g[2] + 1 < partitions[g[1]] THEN <<g[1], g[2] + 1>>
    ELSE IF g[1] + 1 \in DOMAIN partitions THEN <<g[1] + 1, 0>>
    ELSE None

\* smi_fill_gpu_profile_: the library tells the partition type of a whole device
\* (SPX) and of the first partition of another one, and refuses the question for
\* the rest; the number of the partition comes with either answer.
Profile(g) ==
    [compute_partition |-> IF g[2] # 0 THEN "NONE"
                           ELSE IF partitions[g[1]] = 1 THEN "SPX" ELSE "partitioned",
     partition_id |-> g[2]]

\* The compute partition type of g is set, and not to SPX.
IsFirstPartition(g) == Profile(g).compute_partition \notin {"NONE", "SPX"}

\* continue: on to the next GPU, nothing created.
Skip(parent) ==
    /\ parent_gpu' = parent
    /\ next' = After(next)
    /\ UNCHANGED <<partitions, child_gpus, gpu_handle_db, parent_of,
                   first_partition_handle>>

\* The rest of the loop body: the object of this GPU is created, below the
\* parent that is remembered.  The first partition handle is the one stashed in
\* the parent, or the GPU's own.
CreateGpu(parent) ==
    \/ /\ "gpu" \in Faults
       /\ Skip(parent)
    \/ /\ parent_gpu' = parent
       /\ next' = After(next)
       /\ gpu_handle_db' = gpu_handle_db \union {next}
       /\ parent_of' = [parent_of EXCEPT ![next] = parent]
       /\ child_gpus' = IF parent = 0 THEN child_gpus
                        ELSE [child_gpus EXCEPT ![parent] = Append(@, next)]
       /\ first_partition_handle' =
              [first_partition_handle EXCEPT ![next] = IF parent = 0 THEN next
                                                       ELSE <<parent, 0>>]
       /\ UNCHANGED partitions

\* Mutant of FirstPartition: the parent of the previous device is kept.
FirstPartitionKeeps ==
    /\ next # None
    /\ IsFirstPartition(next)
    /\ parents' = parents \union {next[1]}
    /\ CreateGpu(IF parent_gpu = 0 THEN next[1] ELSE parent_gpu)

\* The first partition of a device: its parent is created and remembered, or,
\* when that fails, the GPU is skipped and parent_gpu keeps its value.
FirstPartition ==
    /\ next # None
    /\ IsFirstPartition(next)
    /\ \/ /\ "parent" \in Faults
          /\ Skip(parent_gpu)
          /\ UNCHANGED parents
       \/ /\ parents' = parents \union {next[1]}
          /\ CreateGpu(next[1])

\* A later partition: ignored when no parent is remembered.
SubsequentPartition ==
    /\ next # None
    /\ ~IsFirstPartition(next)
    /\ Profile(next).partition_id # 0
    /\ IF parent_gpu = 0 THEN Skip(parent_gpu) ELSE CreateGpu(parent_gpu)
    /\ UNCHANGED parents

\* A GPU that is not partitioned resets parent_gpu.
NotPartitioned ==
    /\ next # None
    /\ ~IsFirstPartition(next)
    /\ Profile(next).partition_id = 0
    /\ CreateGpu(0)
    /\ UNCHANGED parents

CreateInit ==
    /\ partitions \in Systems
    /\ next = <<1, 0>>
    /\ parent_gpu = 0
    /\ parents = {}
    /\ child_gpus = [d \in 1 .. MaxDevices |-> <<>>]
    /\ gpu_handle_db = {}
    /\ parent_of = [g \in GpuIds |-> 0]
    /\ first_partition_handle = [g \in GpuIds |-> None]

CreateNext == FirstPartition \/ SubsequentPartition \/ NotPartitioned

CreateSpec == CreateInit /\ [][CreateNext]_createVars

-----------------------------------------------------------------------------
\* "non-partitioned GPUs and GPUs in SPX mode have no parent and must not be
\* marked partitioned" (init.cc), whatever failed before them in the list.
OnlyPartitionsHaveParents ==
    \A g \in gpu_handle_db : partitions[g[1]] = 1 => parent_of[g] = 0

\* A partition whose device has a parent object is a child of that one, although
\* the loop remembers one parent only and GPUs before it may have failed.
ChildOfOwnParent ==
    \A g \in gpu_handle_db : g[1] \in parents => parent_of[g] = g[1]

\* The partition handle that is "propogated to all its children" (init.cc) is
\* that of partition 0 of the same device, also when partition 0 itself failed,
\* and a GPU that is not partitioned has its own.
FirstHandleOfOwnDevice ==
    \A g \in gpu_handle_db :
        g[1] \in parents \/ partitions[g[1]] = 1
            => first_partition_handle[g] = <<g[1], 0>>

\* "this is a subsequent partition; ignore if we didn't create a parent GPU"
\* (init.cc): a partition is a child of its own device, or has no object.
ChildOfOwnDevice ==
    \A g \in gpu_handle_db : partitions[g[1]] > 1 => parent_of[g] = g[1]

\* The two directions of the relation agree: the children a parent lists are,
\* once each, the GPUs that name it as their parent.
ChildrenAgree ==
    \A d \in 1 .. MaxDevices :
        /\ {child_gpus[d][i] : i \in DOMAIN child_gpus[d]} =
               {g \in gpu_handle_db : parent_of[g] = d}
        /\ \A i, j \in DOMAIN child_gpus[d] :
               child_gpus[d][i] = child_gpus[d][j] => i = j

\* Whatever objects fail on the way, create_gpus leaves a hierarchy of GPUs and
\* partitions that is that of the devices and agrees with itself (init.cc).
HierarchyAgrees ==
    /\ OnlyPartitionsHaveParents
    /\ ChildOfOwnParent
    /\ FirstHandleOfOwnDevice
    /\ ChildrenAgree
=============================================================================
