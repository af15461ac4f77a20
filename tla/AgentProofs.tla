----------------------------- MODULE AgentProofs -----------------------------
(***************************************************************************)
(* Proofs about the start-up and shutdown of gpuagent: the GPU objects     *)
(* that create_gpus makes (CreateGpus), the SMI library, its threads and   *)
(* the Unix socket that agents share (Lifecycle), and the sessions with    *)
(* the library of the gim back end (GimSession); about the lists of        *)
(* records it hands on (GpuRecords) and the events it reports              *)
(* (EventMonitor); and, last, that the parts that MCAgent checks side by   *)
(* side are the parts the proofs are about.                                *)
(***************************************************************************)
EXTENDS ObjectStoreProofs, ShowProofs, MCAgent, SequenceTheorems, FiniteSetTheorems, TLAPS

(***************************************************************************)
(* CreateGpus.  The loop remembers one parent, so the invariant says where *)
(* it is in the list: the GPUs before `next' are done, a parent object is  *)
(* that of a device whose first partition is done, and while the rest of   *)
(* its partitions are made it is the parent that is remembered.            *)
(***************************************************************************)

\* g is in the list that was discovered.
Discovered(g) == g \in GpuIds /\ g[1] \in DOMAIN partitions /\ g[2] < partitions[g[1]]

\* The loop has passed g.
Passed(g) == next = None \/ g[1] < next[1] \/ (g[1] = next[1] /\ g[2] < next[2])

CreateTyped ==
    /\ partitions \in Systems
    /\ next = None \/ Discovered(next)
    /\ parents \subseteq DOMAIN partitions
    /\ parent_gpu \in parents \union {0}
    /\ child_gpus \in [1 .. MaxDevices -> Seq(GpuIds)]
    /\ parent_of \in [GpuIds -> 0 .. MaxDevices]
    /\ first_partition_handle \in [GpuIds -> GpuIds \union {None}]

ParentsPlaced ==
    /\ \A d \in parents : partitions[d] > 1 /\ Passed(<<d, 0>>)
    /\ \A g \in gpu_handle_db : Discovered(g) /\ Passed(g)
    /\ next # None /\ next[1] \in parents => parent_gpu = next[1]

CreateInv == CreateTyped /\ ParentsPlaced /\ HierarchyAgrees

\* The number of partitions of the devices in a system.
LEMMA SystemTyped ==
  ASSUME CreateTyped
  PROVE  /\ DOMAIN partitions \subseteq 1 .. MaxDevices
         /\ \A d \in DOMAIN partitions : partitions[d] \in 1 .. MaxPartitions
         /\ 1 \in DOMAIN partitions
         /\ None \notin GpuIds
<1>1. PICK n \in 1 .. MaxDevices : partitions \in [1 .. n -> 1 .. MaxPartitions]
  BY DEF CreateTyped, Systems
<1> QED
  BY <1>1, CreateAssumption DEF None, GpuIds

\* The GPU after the present one is shown, and only the present one is passed.
LEMMA AfterPasses ==
  ASSUME CreateTyped, next # None, next' = After(next), partitions' = partitions
  PROVE  /\ next' = None \/ Discovered(next)'
         /\ \A g : Discovered(g) => (Passed(g)' <=> Passed(g) \/ g = next)
         /\ ~Passed(next)
         /\ next' # None => \/ next'[1] = next[1] /\ next'[2] > 0
                            \/ next'[1] = next[1] + 1 /\ next'[2] = 0
<1>1. PICK d \in 1 .. MaxDevices, p \in 0 .. MaxPartitions - 1 : next = <<d, p>>
  BY DEF CreateTyped, Discovered, GpuIds
<1>2. /\ d \in DOMAIN partitions /\ p < partitions[d] /\ partitions[d] \in 1 .. MaxPartitions
      /\ DOMAIN partitions \subseteq 1 .. MaxDevices
      /\ \A e \in DOMAIN partitions : partitions[e] \in 1 .. MaxPartitions
      /\ d \in Nat /\ p \in Nat
  BY <1>1, SystemTyped, CreateAssumption DEF CreateTyped, Discovered
<1>3. ~Passed(next)
  BY <1>1, <1>2 DEF Passed
<1>4. CASE p + 1 < partitions[d]
  <2>1. next' = <<d, p + 1>>
    BY <1>1, <1>4 DEF After
  <2>2. <<d, p + 1>> \in GpuIds /\ <<d, p + 1>> # None
    BY <1>2, <1>4, CreateAssumption DEF GpuIds, None
  <2>3. Discovered(next)'
    BY <1>2, <1>4, <2>1, <2>2 DEF Discovered
  <2>4. ASSUME NEW g, Discovered(g)
        PROVE  Passed(g)' <=> Passed(g) \/ g = next
    <3>1. PICK e \in 1 .. MaxDevices, q \in 0 .. MaxPartitions - 1 : g = <<e, q>>
      BY <2>4 DEF Discovered, GpuIds
    <3> QED
      BY <1>1, <1>2, <2>1, <2>2, <3>1, CreateAssumption DEF Passed
  <2> QED
    BY <1>1, <1>2, <1>3, <2>1, <2>3, <2>4
<1>5. CASE p + 1 >= partitions[d] /\ d + 1 \in DOMAIN partitions
  <2>1. next' = <<d + 1, 0>>
    BY <1>1, <1>2, <1>5 DEF After
  <2>2. <<d + 1, 0>> \in GpuIds /\ <<d + 1, 0>> # None
    BY <1>2, <1>5, CreateAssumption DEF GpuIds, None
  <2>3. Discovered(next)'
    BY <1>2, <1>5, <2>1, <2>2 DEF Discovered
  <2>4. ASSUME NEW g, Discovered(g)
        PROVE  Passed(g)' <=> Passed(g) \/ g = next
    <3>1. PICK e \in 1 .. MaxDevices, q \in 0 .. MaxPartitions - 1 :
             g = <<e, q>> /\ q < partitions[e]
      BY <2>4 DEF Discovered, GpuIds
    <3> QED
      BY <1>1, <1>2, <1>5, <2>1, <2>2, <3>1, CreateAssumption DEF Passed
  <2> QED
    BY <1>1, <1>2, <1>3, <2>1, <2>3, <2>4
<1>6. CASE p + 1 >= partitions[d] /\ d + 1 \notin DOMAIN partitions
  <2>1. next' = None
    BY <1>1, <1>2, <1>6 DEF After
  <2>2. PICK n \in 1 .. MaxDevices : partitions \in [1 .. n -> 1 .. MaxPartitions]
    BY DEF CreateTyped, Systems
  <2>3. d = n
    BY <1>2, <1>6, <2>2, CreateAssumption
  <2>4. ASSUME NEW g, Discovered(g)
        PROVE  Passed(g) \/ g = next
    <3>1. PICK e \in 1 .. n, q \in 0 .. MaxPartitions - 1 : g = <<e, q>> /\ q < partitions[e]
      BY <2>2, <2>4 DEF Discovered, GpuIds
    <3> QED
      BY <1>1, <1>2, <1>6, <2>2, <2>3, <3>1, CreateAssumption DEF Passed
  <2>5. \A g : Passed(g)'
    BY <2>1 DEF Passed
  <2> QED
    BY <1>3, <2>1, <2>4, <2>5
<1> QED
  BY <1>2, <1>4, <1>5, <1>6, CreateAssumption

\* The parent objects after a step: one more for a partitioned device whose first
\* partition is next.
NewParents(P) ==
    \/ P = parents
    \/ P = parents \union {next[1]} /\ next[2] = 0 /\ partitions[next[1]] > 1

\* What both ways out of the loop body do to the parents and the place.
LEMMA PlaceMoves ==
  ASSUME CreateInv, next # None, next' = After(next), partitions' = partitions,
         NewParents(parents'), parent_gpu' \in parents' \union {0},
         next[1] \in parents' => parent_gpu' = next[1],
         gpu_handle_db' \subseteq gpu_handle_db \union {next}
  PROVE  /\ next' = None \/ Discovered(next)'
         /\ parents' \subseteq DOMAIN partitions
         /\ parent_gpu' \in (parents \union {0})'
         /\ ParentsPlaced'
         /\ next \notin gpu_handle_db
         /\ parents \subseteq parents'
         /\ \A g \in gpu_handle_db : g[1] \in parents' => g[1] \in parents
<1>1. CreateTyped /\ ParentsPlaced
  BY DEF CreateInv
<1>2. /\ next' = None \/ Discovered(next)'
      /\ \A g : Discovered(g) => (Passed(g)' <=> Passed(g) \/ g = next)
      /\ ~Passed(next)
      /\ next' # None => \/ next'[1] = next[1] /\ next'[2] > 0
                         \/ next'[1] = next[1] + 1 /\ next'[2] = 0
  BY <1>1, AfterPasses
<1>3. PICK d \in 1 .. MaxDevices, p \in 0 .. MaxPartitions - 1 : next = <<d, p>> /\ Discovered(next)
  BY <1>1 DEF CreateTyped, Discovered, GpuIds
<1>4. /\ d \in DOMAIN partitions /\ p < partitions[d]
      /\ DOMAIN partitions \subseteq 1 .. MaxDevices
      /\ \A e \in DOMAIN partitions : partitions[e] \in 1 .. MaxPartitions
  BY <1>1, <1>3, SystemTyped DEF Discovered
<1>5. \A e \in DOMAIN partitions : Discovered(<<e, 0>>)
  BY <1>4, CreateAssumption DEF Discovered, GpuIds
<1>6. parents' \subseteq DOMAIN partitions /\ parents \subseteq parents'
  BY <1>1, <1>3, <1>4 DEF NewParents, CreateTyped
<1>7. \A e \in parents' : partitions[e] > 1 /\ Passed(<<e, 0>>)'
  <2>1. \A e \in parents : partitions[e] > 1 /\ Passed(<<e, 0>>)'
    BY <1>1, <1>2, <1>5, <1>6 DEF ParentsPlaced
  <2>2. ASSUME p = 0 PROVE Passed(<<d, 0>>)'
    BY <1>2, <1>3, <1>4, <1>5, <2>2
  <2> QED
    BY <1>3, <2>1, <2>2 DEF NewParents
<1>8. \A g \in gpu_handle_db' : Discovered(g)' /\ Passed(g)'
  <2>1. \A g \in gpu_handle_db \union {next} : Discovered(g) /\ Passed(g)'
    BY <1>1, <1>2, <1>3 DEF ParentsPlaced
  <2> QED
    BY <2>1 DEF Discovered
<1>9. ASSUME next' # None, next'[1] \in parents'
      PROVE  parent_gpu' = next'[1]
  <2>1. next[1] = d
    BY <1>3
  <2>2. next'[1] # d + 1
    <3>1. SUFFICES ASSUME NEW e \in parents', e = d + 1, next' # None,
                          next'[1] = e, next'[2] = 0
                   PROVE  FALSE
      BY <1>2, <1>3, <1>4, <1>9, CreateAssumption
    <3>2. Passed(<<e, 0>>)'
      BY <1>7
    <3> QED
      BY <3>1, <3>2, CreateAssumption DEF Passed
  <2> QED
    BY <1>2, <1>9, <2>1, <2>2
<1>10. next \notin gpu_handle_db
  BY <1>1, <1>2 DEF ParentsPlaced
<1>11. ASSUME NEW g \in gpu_handle_db, g[1] \in parents'
       PROVE  g[1] \in parents
  <2>1. Discovered(g) /\ Passed(g)
    BY <1>1 DEF ParentsPlaced
  <2>2. PICK e \in 1 .. MaxDevices, q \in 0 .. MaxPartitions - 1 : g = <<e, q>>
    BY <2>1 DEF Discovered, GpuIds
  <2>3. CASE p = 0
    <3>1. e # d
      BY <1>3, <2>1, <2>2, <2>3, CreateAssumption DEF Passed
    <3> QED
      BY <1>3, <1>11, <2>2, <3>1 DEF NewParents
  <2>4. CASE p # 0
    BY <1>3, <1>11, <2>4 DEF NewParents
  <2> QED
    BY <2>3, <2>4
<1> QED
  BY <1>2, <1>6, <1>7, <1>8, <1>9, <1>10, <1>11 DEF ParentsPlaced
\* A GPU is passed over.
LEMMA SkipPreserves ==
  ASSUME CreateInv, next # None, NewParents(parents'), NEW parent \in parents' \union {0},
         next[1] \in parents' => parent = next[1], Skip(parent)
  PROVE  CreateInv'
<1>1. /\ next' = After(next) /\ partitions' = partitions /\ parent_gpu' = parent
      /\ gpu_handle_db' = gpu_handle_db /\ parent_of' = parent_of
      /\ child_gpus' = child_gpus /\ first_partition_handle' = first_partition_handle
  BY DEF Skip
<1>2. /\ next' = None \/ Discovered(next)'
      /\ parents' \subseteq DOMAIN partitions
      /\ parent_gpu' \in (parents \union {0})'
      /\ ParentsPlaced'
      /\ \A g \in gpu_handle_db : g[1] \in parents' => g[1] \in parents
  BY <1>1, PlaceMoves
<1>3. CreateTyped'
  BY <1>1, <1>2 DEF CreateInv, CreateTyped
<1>4. (OnlyPartitionsHaveParents /\ ChildOfOwnParent /\ FirstHandleOfOwnDevice)'
  BY <1>1, <1>2 DEF CreateInv, HierarchyAgrees, OnlyPartitionsHaveParents, ChildOfOwnParent,
                    FirstHandleOfOwnDevice
<1>5. ChildrenAgree'
  BY <1>1 DEF CreateInv, HierarchyAgrees, ChildrenAgree
<1> QED
  BY <1>2, <1>3, <1>4, <1>5 DEF CreateInv, HierarchyAgrees

\* A GPU is created below `parent'.
LEMMA CreateGpuPreserves ==
  ASSUME CreateInv, next # None, NewParents(parents'), NEW parent \in parents' \union {0},
         next[1] \in parents' => parent = next[1],
         partitions[next[1]] = 1 => parent = 0,
         CreateGpu(parent)
  PROVE  CreateInv'
<1>1. CASE Skip(parent)
  BY <1>1, SkipPreserves
<1>2. CASE ~Skip(parent)
  <2>1. /\ next' = After(next) /\ partitions' = partitions /\ parent_gpu' = parent
        /\ gpu_handle_db' = gpu_handle_db \union {next}
        /\ parent_of' = [parent_of EXCEPT ![next] = parent]
        /\ child_gpus' = IF parent = 0 THEN child_gpus
                         ELSE [child_gpus EXCEPT ![parent] = Append(@, next)]
        /\ first_partition_handle' =
               [first_partition_handle EXCEPT ![next] = IF parent = 0 THEN next
                                                        ELSE <<parent, 0>>]
    BY <1>2 DEF CreateGpu
  <2>2. /\ next' = None \/ Discovered(next)'
        /\ parents' \subseteq DOMAIN partitions
        /\ parent_gpu' \in (parents \union {0})'
        /\ ParentsPlaced'
        /\ next \notin gpu_handle_db
        /\ parents \subseteq parents'
        /\ \A g \in gpu_handle_db : g[1] \in parents' => g[1] \in parents
    BY <2>1, PlaceMoves
  <2>3. PICK g \in GpuIds : g = next /\ Discovered(g)
    BY DEF CreateInv, CreateTyped, Discovered
  <2>4. /\ DOMAIN partitions \subseteq 1 .. MaxDevices
        /\ \A d \in DOMAIN partitions : partitions[d] \in 1 .. MaxPartitions
        /\ parent \in 0 .. MaxDevices
        /\ parent = 0 \/ parent \in 1 .. MaxDevices
    <3>1. /\ DOMAIN partitions \subseteq 1 .. MaxDevices
          /\ \A d \in DOMAIN partitions : partitions[d] \in 1 .. MaxPartitions
      BY SystemTyped DEF CreateInv
    <3>2. parent = 0 \/ parent \in 1 .. MaxDevices
      BY <2>2, <3>1
    <3> QED
      BY <3>1, <3>2, CreateAssumption
  <2>5. PICK handle \in GpuIds \union {None} :
           handle = IF parent = 0 THEN next ELSE <<parent, 0>>
    <3>1. parent # 0 => <<parent, 0>> \in GpuIds
      BY <2>2, <2>4, CreateAssumption DEF GpuIds
    <3> QED
      BY <2>3, <3>1
  <2>6. parent_of' = [parent_of EXCEPT ![g] = parent]
        /\ first_partition_handle' = [first_partition_handle EXCEPT ![g] = handle]
    BY <2>1, <2>3, <2>5
  <2>7. child_gpus' \in [1 .. MaxDevices -> Seq(GpuIds)]
    <3>1. ASSUME parent # 0
          PROVE  Append(child_gpus[parent], g) \in Seq(GpuIds)
      BY <2>4, <3>1, AppendProperties DEF CreateInv, CreateTyped
    <3> QED
      BY <2>1, <2>3, <2>4, <3>1 DEF CreateInv, CreateTyped
  <2>8. CreateTyped'
    <3>1. parent_of' \in [GpuIds -> 0 .. MaxDevices]
      BY <2>4, <2>6 DEF CreateInv, CreateTyped
    <3>2. first_partition_handle' \in [GpuIds -> GpuIds \union {None}]
      BY <2>6 DEF CreateInv, CreateTyped
    <3> QED
      BY <2>1, <2>2, <2>7, <3>1, <3>2 DEF CreateInv, CreateTyped
  <2>9. \A h \in gpu_handle_db \union {g} :
           /\ parent_of'[h] = IF h = g THEN parent ELSE parent_of[h]
           /\ first_partition_handle'[h] = IF h = g THEN handle ELSE first_partition_handle[h]
    BY <2>3, <2>6 DEF CreateInv, CreateTyped, ParentsPlaced, Discovered
  <2>10. (OnlyPartitionsHaveParents /\ ChildOfOwnParent)'
    BY <2>1, <2>2, <2>3, <2>9 DEF CreateInv, HierarchyAgrees, OnlyPartitionsHaveParents,
                                  ChildOfOwnParent
  <2>11. FirstHandleOfOwnDevice'
    <3>1. g[1] \in parents' \/ partitions[g[1]] = 1 => handle = <<g[1], 0>>
      <4>1. PICK d \in 1 .. MaxDevices, p \in 0 .. MaxPartitions - 1 : g = <<d, p>>
        BY DEF GpuIds
      <4>2. d \in DOMAIN partitions /\ p < partitions[d]
        BY <2>3, <4>1 DEF Discovered
      <4> QED
        BY <2>3, <2>5, <4>1, <4>2, CreateAssumption
    <3> QED
      BY <2>1, <2>2, <2>3, <2>9, <3>1 DEF CreateInv, HierarchyAgrees, FirstHandleOfOwnDevice
  <2>12. ChildrenAgree'
    <3> SUFFICES ASSUME NEW d \in 1 .. MaxDevices
                 PROVE  /\ {child_gpus'[d][i] : i \in DOMAIN child_gpus'[d]} =
                               {h \in gpu_handle_db' : parent_of'[h] = d}
                        /\ \A i, j \in DOMAIN child_gpus'[d] :
                               child_gpus'[d][i] = child_gpus'[d][j] => i = j
      BY DEF ChildrenAgree
    <3>1. PICK q \in Seq(GpuIds) : q = child_gpus[d]
      BY DEF CreateInv, CreateTyped
    <3>2. /\ {q[i] : i \in DOMAIN q} = {h \in gpu_handle_db : parent_of[h] = d}
          /\ \A i, j \in DOMAIN q : q[i] = q[j] => i = j
      BY <3>1 DEF CreateInv, HierarchyAgrees, ChildrenAgree
    <3>3. child_gpus'[d] = IF parent = d THEN Append(q, g) ELSE q
      BY <2>1, <2>3, <2>4, <3>1, CreateAssumption DEF CreateInv, CreateTyped
    <3>4. {h \in gpu_handle_db' : parent_of'[h] = d} =
              {q[i] : i \in DOMAIN q} \union (IF parent = d THEN {g} ELSE {})
      BY <2>1, <2>2, <2>3, <2>9, <3>2
    <3>5. CASE parent # d
      BY <3>2, <3>3, <3>4, <3>5
    <3>6. CASE parent = d
      <4>1. PICK n \in Nat : /\ n = Len(q) /\ DOMAIN q = 1 .. n
                             /\ DOMAIN Append(q, g) = 1 .. n + 1
                             /\ \A i \in 1 .. n : Append(q, g)[i] = q[i]
                             /\ Append(q, g)[n + 1] = g
        BY AppendProperties, LenProperties
      <4>2. g \notin {q[i] : i \in DOMAIN q}
        BY <2>2, <2>3, <3>2
      <4>3. {Append(q, g)[i] : i \in 1 .. n + 1} = {q[i] : i \in 1 .. n} \union {g}
        BY <4>1
      <4>4. \A i, j \in 1 .. n + 1 : Append(q, g)[i] = Append(q, g)[j] => i = j
        BY <3>2, <4>1, <4>2
      <4> QED
        BY <3>3, <3>4, <3>6, <4>1, <4>3, <4>4
    <3> QED
      BY <3>5, <3>6
  <2> QED
    BY <2>2, <2>8, <2>10, <2>11, <2>12 DEF CreateInv, HierarchyAgrees
<1> QED
  BY <1>1, <1>2

LEMMA CreateStep ==
  ASSUME CreateInv, [CreateNext]_createVars
  PROVE  CreateInv'
<1>1. CASE UNCHANGED createVars
  BY <1>1 DEF createVars, CreateInv, CreateTyped, ParentsPlaced, Discovered, Passed, HierarchyAgrees,
              OnlyPartitionsHaveParents, ChildOfOwnParent, FirstHandleOfOwnDevice, ChildrenAgree
<1> DEFINE d == next[1]
           p == next[2]
<1>2. ASSUME next # None
      PROVE  /\ d \in DOMAIN partitions /\ p \in Nat /\ p < partitions[d]
             /\ partitions[d] \in 1 .. MaxPartitions
             /\ d # 0 /\ d \in 1 .. MaxDevices
             /\ p = 0 => d \notin parents
             /\ parent_gpu \in parents \union {0}
             /\ d \in parents => parent_gpu = d
             /\ IsFirstPartition(next) <=> p = 0 /\ partitions[d] # 1
  <2>1. PICK e \in 1 .. MaxDevices, q \in 0 .. MaxPartitions - 1 : next = <<e, q>> /\ Discovered(next)
    BY <1>2 DEF CreateInv, CreateTyped, Discovered, GpuIds
  <2>2. \A x \in DOMAIN partitions : partitions[x] \in 1 .. MaxPartitions
    BY SystemTyped DEF CreateInv
  <2>3. q = 0 => e \notin parents
    BY <1>2, <2>1, CreateAssumption DEF CreateInv, ParentsPlaced, Passed
  <2>4. IsFirstPartition(next) <=> q = 0 /\ partitions[e] # 1
    BY <2>1 DEF IsFirstPartition, Profile
  <2> QED
    BY <1>2, <2>1, <2>2, <2>3, <2>4, CreateAssumption DEF CreateInv, CreateTyped, ParentsPlaced, Discovered
<1>3. CASE FirstPartition
  <2>1. next # None /\ IsFirstPartition(next)
    BY <1>3 DEF FirstPartition
  <2>2. CASE Skip(parent_gpu) /\ UNCHANGED parents
    <3>1. PICK parent \in parents' \union {0} : parent = parent_gpu
      BY <1>2, <2>1, <2>2
    <3>2. NewParents(parents') /\ (next[1] \in parents' => parent = next[1])
      BY <1>2, <2>1, <2>2, <3>1 DEF NewParents
    <3> QED
      BY <2>1, <2>2, <3>1, <3>2, SkipPreserves
  <2>3. CASE parents' = parents \union {next[1]} /\ CreateGpu(next[1])
    <3>1. PICK parent \in parents' \union {0} : parent = next[1]
      BY <2>3
    <3>2. NewParents(parents')
      BY <1>2, <2>1, <2>3 DEF NewParents
    <3>3. partitions[next[1]] = 1 => parent = 0
      BY <1>2, <2>1
    <3> QED
      BY <2>1, <2>3, <3>1, <3>2, <3>3, CreateGpuPreserves
  <2> QED
    BY <1>3, <2>2, <2>3 DEF FirstPartition
<1>4. CASE SubsequentPartition
  <2>1. next # None /\ p # 0 /\ parents' = parents
    BY <1>4 DEF SubsequentPartition, Profile
  <2>2. PICK parent \in parents' \union {0} : parent = parent_gpu
    BY <1>2, <2>1
  <2>3. NewParents(parents') /\ (next[1] \in parents' => parent = next[1])
    BY <1>2, <2>1, <2>2 DEF NewParents
  <2>4. partitions[next[1]] = 1 => parent = 0
    BY <1>2, <2>1
  <2>5. Skip(parent) \/ CreateGpu(parent)
    BY <1>4, <2>2 DEF SubsequentPartition
  <2> QED
    BY <2>1, <2>3, <2>4, <2>5, SkipPreserves, CreateGpuPreserves
<1>5. CASE NotPartitioned
  <2>1. next # None /\ p = 0 /\ ~IsFirstPartition(next) /\ parents' = parents
    BY <1>5 DEF NotPartitioned, Profile
  <2>2. PICK parent \in parents' \union {0} : parent = 0
    OBVIOUS
  <2>3. NewParents(parents') /\ (next[1] \in parents' => parent = next[1])
    BY <1>2, <2>1 DEF NewParents
  <2>4. CreateGpu(parent)
    BY <1>5, <2>2 DEF NotPartitioned
  <2> QED
    BY <2>1, <2>2, <2>3, <2>4, CreateGpuPreserves
<1> QED
  BY <1>1, <1>3, <1>4, <1>5 DEF CreateNext

LEMMA CreateStarts ==
  ASSUME CreateInit
  PROVE  CreateInv
<1>1. /\ partitions \in Systems /\ next = <<1, 0>> /\ parent_gpu = 0 /\ parents = {}
      /\ child_gpus = [d \in 1 .. MaxDevices |-> <<>>] /\ gpu_handle_db = {}
      /\ parent_of = [g \in GpuIds |-> 0] /\ first_partition_handle = [g \in GpuIds |-> None]
  BY DEF CreateInit
<1>2. PICK n \in 1 .. MaxDevices : partitions \in [1 .. n -> 1 .. MaxPartitions]
  BY <1>1 DEF Systems
<1>3. Discovered(next)
  BY <1>1, <1>2, CreateAssumption DEF Discovered, GpuIds
<1>4. CreateTyped
  BY <1>1, <1>3, CreateAssumption DEF CreateTyped
<1>5. ParentsPlaced
  BY <1>1 DEF ParentsPlaced
<1>6. HierarchyAgrees
  BY <1>1 DEF HierarchyAgrees, OnlyPartitionsHaveParents, ChildOfOwnParent,
              FirstHandleOfOwnDevice, ChildrenAgree
<1> QED
  BY <1>4, <1>5, <1>6 DEF CreateInv

\* The inductive invariant holds of every behaviour.
THEOREM CreateInvariant == CreateSpec => []CreateInv
BY CreateStarts, CreateStep, PTL DEF CreateSpec

\* Whatever the system and whichever uuids and objects fail, the hierarchy that
\* create_gpus leaves is that of the devices and agrees with itself: no GPU that is
\* not partitioned has a parent, a partition whose device has a parent object is
\* its child, every partition has the handle of the first one of its device, and
\* the children a parent lists are those that name it, once each.
THEOREM HierarchyIsThatOfDevices == CreateSpec => []HierarchyAgrees
<1>1. CreateInv => HierarchyAgrees
  BY DEF CreateInv
<1> QED
  BY <1>1, CreateInvariant, PTL

-----------------------------------------------------------------------------
(***************************************************************************)
(* Lifecycle.  The invariant of an agent says how far its threads can be   *)
(* for where main and the signal thread are; that of the socket says that  *)
(* an agent which serves undisturbed is the only one that may touch it.    *)
(***************************************************************************)

\* The threads of an agent in state p, with the signal thread at s.
ThreadsSound(p, s, w, backend) ==
    /\ p.main \in {"dead", "main", "refused", "stale", "prepared", "api", "smi", "spawn"} => ~p.initialized
    /\ p.main \in {"smi", "spawn"} => p.smi_up
    /\ p.main = "spawn" => w["mon"] # "none"
    /\ ~p.initialized => w["wat"] = "none"
    /\ p.main # "spawn" /\ ~p.initialized => w["mon"] = "none"
    /\ p.initialized => w["wat"] # "none" /\ w["mon"] # "none"
    /\ s = "join mon" => /\ backend = "wslamdsmi"
                         /\ w["mon"] \in {"last callback", "exit", "gone"}
    /\ s = "join wat" => w["wat"] \in {"last callback", "exit", "gone"}
    /\ s \in {"join wat", "shutdown"} /\ backend = "wslamdsmi" => w["mon"] = "gone"
    /\ s = "shutdown" => w["wat"] = "gone"
    /\ p.initialized /\ s \notin {"unlink", "raise"} => p.smi_up
    /\ p.initialized /\ ~p.smi_up =>
          /\ w["wat"] = "gone"
          /\ backend = "wslamdsmi" => w["mon"] = "gone"

MainStates == {"dead", "main", "refused", "stale", "prepared", "api", "smi", "spawn", "objects",
               "bind", "serve", "failed"}
ProcStates == [main : MainStates, uds : BOOLEAN, g_socket_path : BOOLEAN, smi_up : BOOLEAN,
               initialized : BOOLEAN]
SignalStates == {"wait", "teardown", "join mon", "join wat", "shutdown", "unlink", "raise"}
ThreadStates == [Threads -> {"none", "run", "callback", "last callback", "exit", "gone"}]

AgentsSound ==
    /\ proc \in [Agents -> ProcStates]
    /\ signalled \in [Agents -> SignalStates]
    /\ smi_thread \in [Agents -> ThreadStates]
    /\ \A a \in Agents :
         signalled[a] \in {"join mon", "join wat", "shutdown"} => proc[a].initialized
    /\ \A a \in Agents : ThreadsSound(proc[a], signalled[a], smi_thread[a], Backend[a])

\* An agent that serves on the socket, and nobody got in its way.
Undisturbed(a) ==
    Listening(a) /\ proc[a].uds /\ signalled[a] # "raise" /\ a \notin raced

\* An agent that may remove the file is one for the socket.
PathSound(p) ==
    /\ p.g_socket_path => p.uds /\ p.main \notin {"dead", "main", "refused", "stale"}
    /\ p.main = "stale" => p.uds

SocketSound ==
    /\ \A a \in Agents : PathSound(proc[a])
    /\ \A a \in Agents : Undisturbed(a) => socket_file = a /\ Contenders = {a}

LifeInv ==
    /\ AgentsSound
    /\ socket_file \in {NoFile, Stale} \union Agents
    /\ raced \subseteq Agents
    /\ starts \in [Agents -> Nat] /\ \A a \in Agents : starts[a] <= MaxStarts[a]
    /\ SocketSound

\* An agent moves and the others stand still.
LEMMA AgentMoves ==
  ASSUME AgentsSound, NEW a \in Agents,
         NEW p \in ProcStates, NEW s \in SignalStates, NEW w \in ThreadStates,
         ThreadsSound(p, s, w, Backend[a]),
         s \in {"join mon", "join wat", "shutdown"} => p.initialized,
         proc' = [proc EXCEPT ![a] = p],
         signalled' = [signalled EXCEPT ![a] = s],
         smi_thread' = [smi_thread EXCEPT ![a] = w]
  PROVE  AgentsSound'
<1>1. \A b \in Agents : /\ proc'[b] = IF b = a THEN p ELSE proc[b]
                        /\ signalled'[b] = IF b = a THEN s ELSE signalled[b]
                        /\ smi_thread'[b] = IF b = a THEN w ELSE smi_thread[b]
  BY DEF AgentsSound
<1>2. /\ proc' \in [Agents -> ProcStates]
      /\ signalled' \in [Agents -> SignalStates]
      /\ smi_thread' \in [Agents -> ThreadStates]
  BY DEF AgentsSound
<1>3. \A b \in Agents :
        signalled'[b] \in {"join mon", "join wat", "shutdown"} => proc'[b].initialized
  BY <1>1 DEF AgentsSound
<1>4. \A b \in Agents : ThreadsSound(proc'[b], signalled'[b], smi_thread'[b], Backend[b])
  BY <1>1 DEF AgentsSound
<1> QED
  BY <1>2, <1>3, <1>4 DEF AgentsSound

\* Where an agent stands.
LEMMA AgentTyped ==
  ASSUME AgentsSound, NEW a \in Agents
  PROVE  \E p \in ProcStates, s \in SignalStates, w \in ThreadStates :
           /\ p = proc[a] /\ s = signalled[a] /\ w = smi_thread[a]
           /\ ThreadsSound(p, s, w, Backend[a])
           /\ s \in {"join mon", "join wat", "shutdown"} => p.initialized
           /\ proc = [proc EXCEPT ![a] = p]
           /\ signalled = [signalled EXCEPT ![a] = s]
           /\ smi_thread = [smi_thread EXCEPT ![a] = w]
<1>1. /\ proc = [proc EXCEPT ![a] = proc[a]]
      /\ signalled = [signalled EXCEPT ![a] = signalled[a]]
      /\ smi_thread = [smi_thread EXCEPT ![a] = smi_thread[a]]
  BY DEF AgentsSound
<1>2. proc[a] \in ProcStates /\ signalled[a] \in SignalStates /\ smi_thread[a] \in ThreadStates
  BY DEF AgentsSound
<1> QED
  BY <1>1, <1>2 DEF AgentsSound

\* main goes on, and the threads are not concerned.
LEMMA MainMoves ==
  ASSUME AgentsSound, NEW a \in Agents, NEW q \in ProcStates,
         proc' = [proc EXCEPT ![a] = q], UNCHANGED <<signalled, smi_thread>>,
         q.initialized = proc[a].initialized, q.smi_up = proc[a].smi_up,
         q.main \notin {"smi", "spawn"}, proc[a].main \notin {"smi", "spawn"},
         \/ q.main \notin {"dead", "main", "refused", "stale", "prepared", "api"}
         \/ proc[a].main \in {"dead", "main", "refused", "stale", "prepared", "api"}
  PROVE  AgentsSound'
<1>1. PICK p \in ProcStates, s \in SignalStates, w \in ThreadStates :
         /\ p = proc[a] /\ s = signalled[a] /\ w = smi_thread[a]
         /\ ThreadsSound(p, s, w, Backend[a])
         /\ s \in {"join mon", "join wat", "shutdown"} => p.initialized
         /\ proc = [proc EXCEPT ![a] = p]
         /\ signalled = [signalled EXCEPT ![a] = s]
         /\ smi_thread = [smi_thread EXCEPT ![a] = w]
  BY AgentTyped
<1>2. ThreadsSound(q, s, w, Backend[a])
  BY <1>1 DEF ThreadsSound
<1>3. s \in {"join mon", "join wat", "shutdown"} => q.initialized
  BY <1>1
<1>4. signalled' = [signalled EXCEPT ![a] = s] /\ smi_thread' = [smi_thread EXCEPT ![a] = w]
  BY <1>1
<1> QED
  BY <1>2, <1>3, <1>4, AgentMoves

ThreadTo(a, th, y) == smi_thread' = [smi_thread EXCEPT ![a][th] = y]

\* A thread goes on, and does not come back from its end.
LEMMA ThreadMoves ==
  ASSUME AgentsSound, NEW a \in Agents, NEW th \in Threads,
         NEW y \in {"run", "callback", "last callback", "exit", "gone"},
         ThreadTo(a, th, y), UNCHANGED <<proc, signalled>>,
         smi_thread[a][th] \notin {"none", "gone"},
         smi_thread[a][th] \in {"last callback", "exit"} => y \in {"exit", "gone"}
  PROVE  AgentsSound'
<1>1. PICK p \in ProcStates, s \in SignalStates, w \in ThreadStates :
         /\ p = proc[a] /\ s = signalled[a] /\ w = smi_thread[a]
         /\ ThreadsSound(p, s, w, Backend[a])
         /\ s \in {"join mon", "join wat", "shutdown"} => p.initialized
         /\ proc = [proc EXCEPT ![a] = p]
         /\ signalled = [signalled EXCEPT ![a] = s]
         /\ smi_thread = [smi_thread EXCEPT ![a] = w]
  BY AgentTyped
<1>2. PICK v \in ThreadStates : /\ smi_thread' = [smi_thread EXCEPT ![a] = v]
                               /\ \A x \in Threads : v[x] = IF x = th THEN y ELSE w[x]
  <2>1. [w EXCEPT ![th] = y] \in ThreadStates
    BY DEF ThreadStates
  <2>2. smi_thread' = [smi_thread EXCEPT ![a] = [w EXCEPT ![th] = y]]
    BY <1>1 DEF AgentsSound, ThreadTo
  <2> QED
    BY <2>1, <2>2 DEF ThreadStates
<1>3. ThreadsSound(p, s, v, Backend[a])
  <2>1. CASE th = "mon"
    BY <1>1, <1>2, <2>1 DEF ThreadsSound, Threads
  <2>2. CASE th = "wat"
    BY <1>1, <1>2, <2>2 DEF ThreadsSound, Threads
  <2> QED
    BY <2>1, <2>2 DEF Threads
<1>4. proc' = [proc EXCEPT ![a] = p] /\ signalled' = [signalled EXCEPT ![a] = s]
  BY <1>1
<1>5. s \in {"join mon", "join wat", "shutdown"} => p.initialized
  BY <1>1
<1>6. smi_thread' = [smi_thread EXCEPT ![a] = v]
  BY <1>2
<1> QED
  BY <1>3, <1>4, <1>5, <1>6, AgentMoves

\* A thread is stopped, and the signal thread goes on to wait for it.
LEMMA StopMoves ==
  ASSUME AgentsSound, NEW a \in Agents, NEW th \in Threads, stop(a, th), proc' = proc,
         NEW s2 \in {"join mon", "join wat"}, signalled' = [signalled EXCEPT ![a] = s2],
         proc[a].initialized, signalled[a] \in {"teardown", "join mon"},
         \/ s2 = "join mon" /\ th = "mon" /\ Backend[a] = "wslamdsmi"
         \/ /\ s2 = "join wat" /\ th = "wat"
            /\ Backend[a] = "wslamdsmi" => smi_thread[a]["mon"] = "gone"
  PROVE  AgentsSound'
<1>1. PICK p \in ProcStates, s \in SignalStates, w \in ThreadStates :
         /\ p = proc[a] /\ s = signalled[a] /\ w = smi_thread[a]
         /\ ThreadsSound(p, s, w, Backend[a])
         /\ s \in {"join mon", "join wat", "shutdown"} => p.initialized
         /\ proc = [proc EXCEPT ![a] = p]
         /\ signalled = [signalled EXCEPT ![a] = s]
         /\ smi_thread = [smi_thread EXCEPT ![a] = w]
  BY AgentTyped
<1>2. w["mon"] # "none" /\ w["wat"] # "none"
  BY <1>1 DEF ThreadsSound
<1>3. PICK y \in {"last callback", "exit", "gone"} :
         smi_thread' = [smi_thread EXCEPT ![a][th] = y]
  <2> DEFINE y == CASE w[th] = "run"      -> "exit"
                    [] w[th] = "callback" -> "last callback"
                    [] OTHER              -> w[th]
  <2>1. smi_thread' = [smi_thread EXCEPT ![a][th] = y]
    BY <1>1 DEF stop, AgentsSound
  <2>2. w[th] # "none" /\ w[th] \in {"none", "run", "callback", "last callback", "exit", "gone"}
    BY <1>2 DEF Threads, ThreadStates
  <2>3. y \in {"last callback", "exit", "gone"}
    BY <2>2
  <2> QED
    BY <2>1, <2>3
<1>4. PICK v \in ThreadStates : /\ smi_thread' = [smi_thread EXCEPT ![a] = v]
                               /\ \A x \in Threads : v[x] = IF x = th THEN y ELSE w[x]
  <2>1. [w EXCEPT ![th] = y] \in ThreadStates
    BY DEF ThreadStates
  <2>2. smi_thread' = [smi_thread EXCEPT ![a] = [w EXCEPT ![th] = y]]
    BY <1>1, <1>3 DEF AgentsSound
  <2> QED
    BY <2>1, <2>2 DEF ThreadStates
<1>5. ThreadsSound(p, s2, v, Backend[a])
  <2>1. p.smi_up
    BY <1>1 DEF ThreadsSound
  <2>2. CASE th = "mon"
    BY <1>1, <1>2, <1>4, <2>1, <2>2 DEF ThreadsSound, Threads
  <2>3. CASE th = "wat"
    BY <1>1, <1>2, <1>4, <2>1, <2>3 DEF ThreadsSound, Threads
  <2> QED
    BY <2>2, <2>3 DEF Threads
<1>6. proc' = [proc EXCEPT ![a] = p] /\ p.initialized
  BY <1>1
<1>7. smi_thread' = [smi_thread EXCEPT ![a] = v] /\ s2 \in SignalStates
  BY <1>4 DEF SignalStates
<1> QED
  BY <1>5, <1>6, <1>7, AgentMoves

\* A step of agent a.
AgentStep(a) ==
    \/ Start(a) \/ Prepare(a) \/ unlink_stale(a) \/ ExitOne(a) \/ aga_api_init(a)
    \/ smi_init(a) \/ wsl_smi_init(a)
    \/ spawn_event_monitor_thread(a) \/ spawn_watcher_thread(a)
    \/ create_gpus(a) \/ grpc_server_start(a)
    \/ \E th \in Threads : TimerCallback(a, th) \/ CallbackDone(a, th) \/ ThreadExit(a, th)
    \/ Signal(a) \/ aga_api_teardown(a) \/ JoinMonitor(a) \/ JoinWatcher(a)
    \/ ShutDown(a) \/ CleanSocket(a) \/ Raise(a) \/ Kill(a)

\* Every step of an agent.
LEMMA AgentSteps ==
  ASSUME AgentsSound, NEW a \in Agents, AgentStep(a)
  PROVE  AgentsSound'
<1>1. PICK p \in ProcStates, s \in SignalStates, w \in ThreadStates :
         /\ p = proc[a] /\ s = signalled[a] /\ w = smi_thread[a]
         /\ ThreadsSound(p, s, w, Backend[a])
         /\ s \in {"join mon", "join wat", "shutdown"} => p.initialized
         /\ proc = [proc EXCEPT ![a] = p]
         /\ signalled = [signalled EXCEPT ![a] = s]
         /\ smi_thread = [smi_thread EXCEPT ![a] = w]
  BY AgentTyped
<1>2. ASSUME Start(a)
      PROVE  AgentsSound'
  <2>1. PICK u \in BOOLEAN : proc' = [proc EXCEPT ![a].main = "main", ![a].uds = u]
    BY <1>2 DEF Start
  <2>2. PICK q \in ProcStates : /\ proc' = [proc EXCEPT ![a] = q]
                               /\ q.main = "main"
                               /\ q.smi_up = p.smi_up
                               /\ q.initialized = p.initialized
    <3>1. [p EXCEPT !.main = "main", !.uds = u] \in ProcStates
      BY DEF ProcStates, MainStates
    <3>2. proc' = [proc EXCEPT ![a] = [p EXCEPT !.main = "main", !.uds = u]]
      BY <1>1, <1>2, <2>1 DEF AgentsSound, Start
    <3> QED
      BY <3>1, <3>2 DEF ProcStates
  <2> QED
    BY <1>1, <1>2, <2>1, <2>2, MainMoves DEF Start, Alive
<1>3. ASSUME Prepare(a) \/ unlink_stale(a), NEW m \in {"refused", "stale", "prepared"},
             proc' = [proc EXCEPT ![a].main = m]
      PROVE  AgentsSound'
  <2>1. PICK q \in ProcStates : /\ proc' = [proc EXCEPT ![a] = q]
                               /\ q.main = m
                               /\ q.smi_up = p.smi_up
                               /\ q.initialized = p.initialized
    <3>1. [p EXCEPT !.main = m] \in ProcStates
      BY DEF ProcStates, MainStates
    <3>2. proc' = [proc EXCEPT ![a] = [p EXCEPT !.main = m]]
      BY <1>1, <1>3 DEF AgentsSound
    <3> QED
      BY <3>1, <3>2 DEF ProcStates
  <2>2. p.main \in {"main", "stale"} /\ UNCHANGED <<signalled, smi_thread>>
    BY <1>1, <1>3 DEF Prepare, unlink_stale
  <2> QED
    BY <1>1, <2>1, <2>2, MainMoves
<1>4. ASSUME Prepare(a) \/ unlink_stale(a),
             proc' = [proc EXCEPT ![a].main = "prepared", ![a].g_socket_path = TRUE]
      PROVE  AgentsSound'
  <2>1. PICK q \in ProcStates : /\ proc' = [proc EXCEPT ![a] = q]
                               /\ q.main = "prepared"
                               /\ q.smi_up = p.smi_up
                               /\ q.initialized = p.initialized
    <3>1. [p EXCEPT !.main = "prepared", !.g_socket_path = TRUE] \in ProcStates
      BY DEF ProcStates, MainStates
    <3>2. proc' = [proc EXCEPT ![a] = [p EXCEPT !.main = "prepared", !.g_socket_path = TRUE]]
      BY <1>1, <1>4 DEF AgentsSound
    <3> QED
      BY <3>1, <3>2 DEF ProcStates
  <2>2. p.main \in {"main", "stale"} /\ UNCHANGED <<signalled, smi_thread>>
    BY <1>1, <1>4 DEF Prepare, unlink_stale
  <2> QED
    BY <1>1, <2>1, <2>2, MainMoves
<1>5. ASSUME Prepare(a) \/ unlink_stale(a)
      PROVE  AgentsSound'
  <2>1. CASE \E m \in {"refused", "stale", "prepared"} : proc' = [proc EXCEPT ![a].main = m]
    BY <1>3, <1>5, <2>1
  <2>2. CASE proc' = [proc EXCEPT ![a].main = "prepared", ![a].g_socket_path = TRUE]
    BY <1>4, <1>5, <2>2
  <2> QED
    BY <1>5, <2>1, <2>2 DEF Prepare, prepare_unix_socket, unlink_stale
<1>6. ASSUME aga_api_init(a)
      PROVE  AgentsSound'
  <2>1. PICK q \in ProcStates : /\ proc' = [proc EXCEPT ![a] = q]
                               /\ q.main = "api"
                               /\ q.smi_up = p.smi_up
                               /\ q.initialized = p.initialized
    <3>1. [p EXCEPT !.main = "api"] \in ProcStates
      BY DEF ProcStates, MainStates
    <3> QED
      BY <1>1, <1>6, <3>1 DEF AgentsSound, ProcStates, aga_api_init
  <2> QED
    BY <1>1, <1>6, <2>1, MainMoves DEF aga_api_init
<1>7. ASSUME smi_init(a), proc' = [proc EXCEPT ![a].main = "objects"]
      PROVE  AgentsSound'
  <2>1. PICK q \in ProcStates : /\ proc' = [proc EXCEPT ![a] = q]
                               /\ q.main = "objects"
                               /\ q.smi_up = p.smi_up
                               /\ q.initialized = p.initialized
    <3>1. [p EXCEPT !.main = "objects"] \in ProcStates
      BY DEF ProcStates, MainStates
    <3> QED
      BY <1>1, <1>7, <3>1 DEF AgentsSound, ProcStates, smi_init
  <2> QED
    BY <1>1, <1>7, <2>1, MainMoves DEF smi_init
<1>8. ASSUME smi_init(a), proc' # [proc EXCEPT ![a].main = "objects"]
      PROVE  AgentsSound'
  <2>1. PICK m \in {"smi", "objects"} : proc' = [proc EXCEPT ![a].main = m, ![a].smi_up = TRUE]
    BY <1>8 DEF smi_init
  <2>2. PICK q \in ProcStates : /\ proc' = [proc EXCEPT ![a] = q]
                               /\ q.main = m
                               /\ q.smi_up = TRUE
                               /\ q.initialized = p.initialized
    <3>1. [p EXCEPT !.main = m, !.smi_up = TRUE] \in ProcStates
      BY DEF ProcStates, MainStates
    <3>2. proc' = [proc EXCEPT ![a] = [p EXCEPT !.main = m, !.smi_up = TRUE]]
      BY <1>1, <1>8, <2>1 DEF AgentsSound, smi_init
    <3> QED
      BY <3>1, <3>2 DEF ProcStates
  <2>3. p.main = "api" /\ ThreadsSound(p, s, w, Backend[a])
    BY <1>1, <1>8, <2>1 DEF smi_init
  <2>4. ThreadsSound(q, s, w, Backend[a])
    BY <2>1, <2>2, <2>3 DEF ThreadsSound
  <2>5. s \in {"join mon", "join wat", "shutdown"} => q.initialized
    BY <1>1, <1>8, <2>1, <2>2, <2>3
  <2>6. /\ signalled' = [signalled EXCEPT ![a] = s]
        /\ smi_thread' = [smi_thread EXCEPT ![a] = w]
    BY <1>1, <1>8, <2>1 DEF smi_init
  <2> QED
    BY <1>1, <2>2, <2>4, <2>5, <2>6, AgentMoves
<1>9. ASSUME wsl_smi_init(a), ~smi_init(a)
      PROVE  AgentsSound'
  <2>1. PICK q \in ProcStates : /\ proc' = [proc EXCEPT ![a] = q]
                               /\ q.main = "objects"
                               /\ q.smi_up = p.smi_up
                               /\ q.initialized = p.initialized
    <3>1. [p EXCEPT !.main = "objects"] \in ProcStates
      BY DEF ProcStates, MainStates
    <3> QED
      BY <1>1, <1>9, <3>1 DEF AgentsSound, ProcStates, wsl_smi_init
  <2> QED
    BY <1>1, <1>9, <2>1, MainMoves DEF wsl_smi_init
<1>10. ASSUME spawn_event_monitor_thread(a)
      PROVE  AgentsSound'
  <2>1. PICK q \in ProcStates : /\ proc' = [proc EXCEPT ![a] = q]
                               /\ q.main = "spawn"
                               /\ q.smi_up = p.smi_up
                               /\ q.initialized = p.initialized
    <3>1. [p EXCEPT !.main = "spawn"] \in ProcStates
      BY DEF ProcStates, MainStates
    <3>2. proc' = [proc EXCEPT ![a] = [p EXCEPT !.main = "spawn"]]
      BY <1>1, <1>10 DEF AgentsSound, spawn_event_monitor_thread
    <3> QED
      BY <3>1, <3>2 DEF ProcStates
  <2>2. PICK v \in ThreadStates : /\ smi_thread' = [smi_thread EXCEPT ![a] = v]
                                 /\ v["mon"] = "run" /\ v["wat"] = w["wat"]
    <3>1. [w EXCEPT !["mon"] = "run"] \in ThreadStates
      BY <1>10 DEF ThreadStates, Threads
    <3>2. smi_thread' = [smi_thread EXCEPT ![a] = [w EXCEPT !["mon"] = "run"]]
      BY <1>1, <1>10 DEF AgentsSound, spawn_event_monitor_thread
    <3> QED
      BY <3>1, <3>2 DEF ThreadStates, Threads
  <2>3. p.main = "smi" /\ ThreadsSound(p, s, w, Backend[a])
    BY <1>1, <1>10 DEF spawn_event_monitor_thread
  <2>4. ThreadsSound(q, s, v, Backend[a])
    BY <2>1, <2>2, <2>3 DEF ThreadsSound
  <2>5. s \in {"join mon", "join wat", "shutdown"} => q.initialized
    BY <1>1, <1>10, <2>1, <2>2, <2>3
  <2>6. signalled' = [signalled EXCEPT ![a] = s]
    BY <1>1, <1>10 DEF spawn_event_monitor_thread
  <2> QED
    BY <1>1, <2>1, <2>2, <2>4, <2>5, <2>6, AgentMoves
<1>11. ASSUME spawn_watcher_thread(a)
      PROVE  AgentsSound'
  <2>1. PICK q \in ProcStates : /\ proc' = [proc EXCEPT ![a] = q]
                               /\ q.main = "objects"
                               /\ q.initialized = TRUE
                               /\ q.smi_up = p.smi_up
    <3>1. [p EXCEPT !.main = "objects", !.initialized = TRUE] \in ProcStates
      BY DEF ProcStates, MainStates
    <3>2. proc' = [proc EXCEPT ![a] = [p EXCEPT !.main = "objects", !.initialized = TRUE]]
      BY <1>1, <1>11 DEF AgentsSound, spawn_watcher_thread
    <3> QED
      BY <3>1, <3>2 DEF ProcStates
  <2>2. PICK v \in ThreadStates : /\ smi_thread' = [smi_thread EXCEPT ![a] = v]
                                 /\ v["wat"] = "run" /\ v["mon"] = w["mon"]
    <3>1. [w EXCEPT !["wat"] = "run"] \in ThreadStates
      BY <1>11 DEF ThreadStates, Threads
    <3>2. smi_thread' = [smi_thread EXCEPT ![a] = [w EXCEPT !["wat"] = "run"]]
      BY <1>1, <1>11 DEF AgentsSound, spawn_watcher_thread
    <3> QED
      BY <3>1, <3>2 DEF ThreadStates, Threads
  <2>3. p.main = "spawn" /\ ThreadsSound(p, s, w, Backend[a])
    BY <1>1, <1>11 DEF spawn_watcher_thread
  <2>4. ThreadsSound(q, s, v, Backend[a])
    BY <2>1, <2>2, <2>3 DEF ThreadsSound
  <2>5. s \in {"join mon", "join wat", "shutdown"} => q.initialized
    BY <1>1, <1>11, <2>1, <2>2, <2>3
  <2>6. signalled' = [signalled EXCEPT ![a] = s]
    BY <1>1, <1>11 DEF spawn_watcher_thread
  <2> QED
    BY <1>1, <2>1, <2>2, <2>4, <2>5, <2>6, AgentMoves
<1>12. ASSUME create_gpus(a)
      PROVE  AgentsSound'
  <2>1. PICK m \in {"bind", "failed"} : proc' = [proc EXCEPT ![a].main = m]
    BY <1>12 DEF create_gpus
  <2>2. PICK q \in ProcStates : /\ proc' = [proc EXCEPT ![a] = q]
                               /\ q.main = m
                               /\ q.smi_up = p.smi_up
                               /\ q.initialized = p.initialized
    <3>1. [p EXCEPT !.main = m] \in ProcStates
      BY DEF ProcStates, MainStates
    <3> QED
      BY <1>1, <1>12, <2>1, <3>1 DEF AgentsSound, ProcStates, create_gpus
  <2> QED
    BY <1>1, <1>12, <2>1, <2>2, MainMoves DEF create_gpus
<1>13. ASSUME grpc_server_start(a)
      PROVE  AgentsSound'
  <2>1. PICK m \in {"serve", "failed"} : proc' = [proc EXCEPT ![a].main = m]
    BY <1>13 DEF grpc_server_start
  <2>2. PICK q \in ProcStates : /\ proc' = [proc EXCEPT ![a] = q]
                               /\ q.main = m
                               /\ q.smi_up = p.smi_up
                               /\ q.initialized = p.initialized
    <3>1. [p EXCEPT !.main = m] \in ProcStates
      BY DEF ProcStates, MainStates
    <3> QED
      BY <1>1, <1>13, <2>1, <3>1 DEF AgentsSound, ProcStates, grpc_server_start
  <2> QED
    BY <1>1, <1>13, <2>1, <2>2, MainMoves DEF grpc_server_start
<1>14. ASSUME Signal(a)
      PROVE  AgentsSound'
  <2>1. s = "wait" /\ ThreadsSound(p, s, w, Backend[a])
    BY <1>1, <1>14 DEF Signal
  <2>2. ThreadsSound(p, "teardown", w, Backend[a])
    BY <2>1 DEF ThreadsSound
  <2>3. "teardown" \in {"join mon", "join wat", "shutdown"} => p.initialized
    BY <1>1, <1>14, <2>1
  <2>4. /\ proc' = [proc EXCEPT ![a] = p]
        /\ signalled' = [signalled EXCEPT ![a] = "teardown"]
        /\ smi_thread' = [smi_thread EXCEPT ![a] = w]
        /\ "teardown" \in SignalStates
    BY <1>1, <1>14 DEF Signal, SignalStates
  <2> QED
    BY <1>1, <2>2, <2>3, <2>4, AgentMoves
<1>15. ASSUME aga_api_teardown(a), ~proc[a].initialized
      PROVE  AgentsSound'
  <2>1. ~p.initialized /\ ThreadsSound(p, s, w, Backend[a])
    BY <1>1, <1>15 DEF aga_api_teardown
  <2>2. ThreadsSound(p, "unlink", w, Backend[a])
    BY <2>1 DEF ThreadsSound
  <2>3. "unlink" \in {"join mon", "join wat", "shutdown"} => p.initialized
    BY <1>1, <1>15, <2>1
  <2>4. /\ proc' = [proc EXCEPT ![a] = p]
        /\ signalled' = [signalled EXCEPT ![a] = "unlink"]
        /\ smi_thread' = [smi_thread EXCEPT ![a] = w]
        /\ "unlink" \in SignalStates
    BY <1>1, <1>15 DEF aga_api_teardown, SignalStates
  <2> QED
    BY <1>1, <2>2, <2>3, <2>4, AgentMoves
<1>16. ASSUME JoinWatcher(a)
      PROVE  AgentsSound'
  <2>1. s = "join wat" /\ w["wat"] = "gone" /\ ThreadsSound(p, s, w, Backend[a])
    BY <1>1, <1>16 DEF JoinWatcher
  <2>2. ThreadsSound(p, "shutdown", w, Backend[a])
    BY <2>1 DEF ThreadsSound
  <2>3. "shutdown" \in {"join mon", "join wat", "shutdown"} => p.initialized
    BY <1>1, <1>16, <2>1
  <2>4. /\ proc' = [proc EXCEPT ![a] = p]
        /\ signalled' = [signalled EXCEPT ![a] = "shutdown"]
        /\ smi_thread' = [smi_thread EXCEPT ![a] = w]
        /\ "shutdown" \in SignalStates
    BY <1>1, <1>16 DEF JoinWatcher, SignalStates
  <2> QED
    BY <1>1, <2>2, <2>3, <2>4, AgentMoves
<1>17. ASSUME ShutDown(a)
      PROVE  AgentsSound'
  <2>1. PICK q \in ProcStates : /\ proc' = [proc EXCEPT ![a] = q]
                               /\ q.smi_up = FALSE
                               /\ q.main = p.main
                               /\ q.initialized = p.initialized
    <3>1. [p EXCEPT !.smi_up = FALSE] \in ProcStates
      BY DEF ProcStates, MainStates
    <3>2. proc' = [proc EXCEPT ![a] = [p EXCEPT !.smi_up = FALSE]]
      BY <1>1, <1>17 DEF AgentsSound, ShutDown
    <3> QED
      BY <3>1, <3>2 DEF ProcStates
  <2>2. s = "shutdown" /\ p.initialized /\ ThreadsSound(p, s, w, Backend[a])
    BY <1>1, <1>17 DEF ShutDown
  <2>3. ThreadsSound(q, "unlink", w, Backend[a])
    BY <2>1, <2>2 DEF ThreadsSound
  <2>4. "unlink" \in {"join mon", "join wat", "shutdown"} => q.initialized
    BY <1>1, <1>17, <2>1, <2>2
  <2>5. /\ signalled' = [signalled EXCEPT ![a] = "unlink"]
        /\ smi_thread' = [smi_thread EXCEPT ![a] = w]
        /\ "unlink" \in SignalStates
    BY <1>1, <1>17 DEF ShutDown, SignalStates
  <2> QED
    BY <1>1, <2>1, <2>3, <2>4, <2>5, AgentMoves
<1>18. ASSUME CleanSocket(a)
      PROVE  AgentsSound'
  <2>1. ThreadsSound(p, s, w, Backend[a])
    BY <1>1, <1>18 DEF CleanSocket
  <2>2. ThreadsSound(p, "raise", w, Backend[a])
    BY <2>1 DEF ThreadsSound
  <2>3. "raise" \in {"join mon", "join wat", "shutdown"} => p.initialized
    BY <1>1, <1>18, <2>1
  <2>4. /\ proc' = [proc EXCEPT ![a] = p]
        /\ signalled' = [signalled EXCEPT ![a] = "raise"]
        /\ smi_thread' = [smi_thread EXCEPT ![a] = w]
        /\ "raise" \in SignalStates
    BY <1>1, <1>18 DEF CleanSocket, SignalStates
  <2> QED
    BY <1>1, <2>2, <2>3, <2>4, AgentMoves
<1>19. ASSUME NEW th \in Threads, TimerCallback(a, th) \/ CallbackDone(a, th) \/ ThreadExit(a, th)
       PROVE  AgentsSound'
  <2>1. UNCHANGED <<proc, signalled>>
    BY <1>19 DEF TimerCallback, CallbackDone, ThreadExit
  <2>2. PICK y \in {"run", "callback", "exit", "gone"} :
           /\ smi_thread' = [smi_thread EXCEPT ![a][th] = y]
           /\ smi_thread[a][th] \notin {"none", "gone"}
           /\ smi_thread[a][th] \in {"last callback", "exit"} => y \in {"exit", "gone"}
    <3>1. CASE TimerCallback(a, th)
      BY <3>1 DEF TimerCallback
    <3>2. CASE CallbackDone(a, th)
      BY <3>2 DEF CallbackDone, AgentsSound
    <3>3. CASE ThreadExit(a, th)
      BY <3>3 DEF ThreadExit
    <3> QED
      BY <1>19, <3>1, <3>2, <3>3
  <2> QED
    BY <2>1, <2>2, ThreadMoves DEF ThreadTo
<1>20. ASSUME aga_api_teardown(a), proc[a].initialized
       PROVE  AgentsSound'
  <2>1. proc' = proc /\ signalled[a] = "teardown"
    BY <1>20 DEF aga_api_teardown
  <2>2. \/ Backend[a] = "amdsmi" /\ teardown(a)
        \/ Backend[a] = "wslamdsmi" /\ wsl_teardown(a)
    BY <1>20 DEF aga_api_teardown
  <2> QED
    BY <1>20, <2>1, <2>2, StopMoves DEF teardown, wsl_teardown, Threads
<1>21. ASSUME JoinMonitor(a)
       PROVE  AgentsSound'
  BY <1>1, <1>21, StopMoves DEF JoinMonitor, teardown, Threads
<1>22. ASSUME Die(a)
       PROVE  AgentsSound'
  <2>1. DeadProc \in ProcStates
    BY DEF DeadProc, ProcStates, MainStates
  <2>2. PICK v \in ThreadStates : v = [th \in Threads |-> "none"]
    BY DEF ThreadStates
  <2>3. ThreadsSound(DeadProc, "wait", v, Backend[a])
    BY <2>2 DEF ThreadsSound, DeadProc, Threads
  <2>4. /\ proc' = [proc EXCEPT ![a] = DeadProc]
        /\ signalled' = [signalled EXCEPT ![a] = "wait"]
        /\ smi_thread' = [smi_thread EXCEPT ![a] = v]
        /\ "wait" \in SignalStates
    BY <1>22, <2>2 DEF Die, SignalStates
  <2> QED
    BY <2>1, <2>3, <2>4, AgentMoves
<1> QED
  BY <1>2, <1>5, <1>6, <1>7, <1>8, <1>9, <1>10, <1>11, <1>12, <1>13, <1>14, <1>15, <1>16, <1>17, <1>18,
     <1>19, <1>20, <1>21, <1>22 DEF AgentStep, ExitOne, Raise, Kill
-----------------------------------------------------------------------------
(* The socket.                                                             *)

\* The path is touched by nobody, and a neither comes to contend for it nor stops.
LEMMA SocketLeft ==
  ASSUME LifeInv, NEW a \in Agents, UNCHANGED <<socket_file, raced>>,
         \A b \in Agents \ {a} : proc'[b] = proc[b] /\ signalled'[b] = signalled[b],
         a \in Contenders' <=> a \in Contenders,
         Undisturbed(a)' => Undisturbed(a), PathSound(proc'[a])
  PROVE  SocketSound'
<1>1. Contenders' = Contenders
  BY DEF Contenders
<1>2. \A b \in Agents : Undisturbed(b)' => Undisturbed(b)
  BY DEF Undisturbed, Listening
<1> QED
  BY <1>1, <1>2 DEF LifeInv, SocketSound

LEMMA SocketSteps ==
  ASSUME LifeInv, NEW a \in Agents, AgentStep(a)
  PROVE  SocketSound'
<1> DEFINE p == proc[a]
<1>1. /\ proc \in [Agents -> ProcStates]
      /\ signalled \in [Agents -> SignalStates]
      /\ SocketSound
      /\ p \in ProcStates
  BY DEF LifeInv, AgentsSound
<1>2. CASE Start(a)
  <2>1. PICK u \in BOOLEAN : proc' = [proc EXCEPT ![a].main = "main", ![a].uds = u]
    BY <1>2 DEF Start
  <2>2. /\ proc'[a].main = "main" /\ proc'[a].g_socket_path = p.g_socket_path
        /\ \A b \in Agents \ {a} : proc'[b] = proc[b]
        /\ p.main = "dead"
        /\ UNCHANGED <<signalled, socket_file, raced>>
    BY <1>1, <1>2, <2>1 DEF Start, Alive, ProcStates
  <2>3. a \notin Contenders' /\ a \notin Contenders /\ ~Undisturbed(a)'
    BY <2>2 DEF Contenders, Undisturbed, Listening
  <2>4. PathSound(proc'[a])
    BY <1>1, <2>2 DEF SocketSound, PathSound
  <2> QED
    BY <2>2, <2>3, <2>4, SocketLeft
<1>3. CASE \/ aga_api_init(a) \/ smi_init(a) \/ wsl_smi_init(a) \/ create_gpus(a)
           \/ spawn_event_monitor_thread(a) \/ spawn_watcher_thread(a)
  <2> DEFINE Goes == /\ \A b \in Agents \ {a} : proc'[b] = proc[b]
                     /\ proc'[a].main \notin {"dead", "main", "refused", "stale", "serve"}
                     /\ p.main \notin {"dead", "main", "refused", "stale"}
                     /\ proc'[a].uds = p.uds /\ proc'[a].g_socket_path = p.g_socket_path
                     /\ UNCHANGED <<signalled, socket_file, raced>>
  <2>1. Goes
    <3>1. CASE aga_api_init(a)
      BY <1>1, <3>1 DEF aga_api_init, ProcStates
    <3>2. CASE smi_init(a)
      BY <1>1, <3>2 DEF smi_init, ProcStates
    <3>3. CASE wsl_smi_init(a)
      BY <1>1, <3>2, <3>3 DEF wsl_smi_init, ProcStates
    <3>4. CASE create_gpus(a)
      BY <1>1, <3>4 DEF create_gpus, ProcStates
    <3>5. CASE spawn_event_monitor_thread(a)
      BY <1>1, <3>5 DEF spawn_event_monitor_thread, ProcStates
    <3>6. CASE spawn_watcher_thread(a)
      BY <1>1, <3>6 DEF spawn_watcher_thread, ProcStates
    <3> QED
      BY <1>3, <3>1, <3>2, <3>3, <3>4, <3>5, <3>6
  <2>2. a \in Contenders' <=> a \in Contenders
    BY <2>1 DEF Contenders
  <2>3. ~Undisturbed(a)'
    BY <2>1 DEF Undisturbed, Listening
  <2>4. PathSound(proc'[a])
    BY <1>1, <2>1 DEF SocketSound, PathSound
  <2> QED
    BY <2>1, <2>2, <2>3, <2>4, SocketLeft
<1>4. CASE \/ \E th \in Threads : TimerCallback(a, th) \/ CallbackDone(a, th) \/ ThreadExit(a, th)
           \/ Signal(a) \/ aga_api_teardown(a) \/ JoinMonitor(a) \/ JoinWatcher(a) \/ ShutDown(a)
  <2>1. /\ \A b \in Agents \ {a} : proc'[b] = proc[b] /\ signalled'[b] = signalled[b]
        /\ proc'[a].main = p.main /\ proc'[a].uds = p.uds
        /\ proc'[a].g_socket_path = p.g_socket_path
        /\ signalled'[a] # "raise" <=> signalled[a] # "raise"
        /\ UNCHANGED <<socket_file, raced>>
    <3>1. CASE \E th \in Threads : TimerCallback(a, th) \/ CallbackDone(a, th) \/ ThreadExit(a, th)
      BY <1>1, <3>1 DEF TimerCallback, CallbackDone, ThreadExit
    <3>2. CASE Signal(a) \/ JoinWatcher(a)
      BY <1>1, <3>2 DEF Signal, JoinWatcher
    <3>3. CASE aga_api_teardown(a)
      BY <1>1, <3>3 DEF aga_api_teardown, teardown, wsl_teardown
    <3>4. CASE JoinMonitor(a)
      BY <1>1, <3>4 DEF JoinMonitor, teardown
    <3>5. CASE ShutDown(a)
      BY <1>1, <3>5 DEF ShutDown, ProcStates
    <3> QED
      BY <1>4, <3>1, <3>2, <3>3, <3>4, <3>5
  <2>2. a \in Contenders' <=> a \in Contenders
    BY <2>1 DEF Contenders
  <2>3. Undisturbed(a)' => Undisturbed(a)
    BY <2>1 DEF Undisturbed, Listening
  <2>4. PathSound(proc'[a])
    BY <1>1, <2>1 DEF SocketSound, PathSound
  <2> QED
    BY <2>1, <2>2, <2>3, <2>4, SocketLeft
<1>5. CASE Prepare(a)
  <2>1. /\ \A b \in Agents \ {a} : proc'[b] = proc[b]
        /\ proc'[a].uds = p.uds /\ UNCHANGED signalled
        /\ p.main = "main" /\ ~p.g_socket_path
    BY <1>1, <1>5 DEF Prepare, prepare_unix_socket, ProcStates, SocketSound, PathSound
  <2>2. a \notin Contenders /\ ~Undisturbed(a)
    BY <2>1 DEF Contenders, Undisturbed, Listening
  <2>3. CASE p.uds /\ socket_file \in Agents /\ Listening(socket_file)
    <3>1. /\ proc'[a].main = "refused" /\ proc'[a].g_socket_path = p.g_socket_path
          /\ UNCHANGED <<socket_file, raced>>
      <4>1. socket_file # NoFile
        BY <2>3, LifeAssumption DEF NoFile
      <4> QED
        BY <1>1, <1>5, <2>3, <4>1 DEF Prepare, prepare_unix_socket, ProcStates
    <3>2. a \notin Contenders' /\ ~Undisturbed(a)' /\ PathSound(proc'[a])
      BY <2>1, <3>1 DEF Contenders, Undisturbed, Listening, PathSound
    <3> QED
      BY <2>1, <2>2, <3>1, <3>2, SocketLeft
  <2>4. CASE p.uds /\ ~(socket_file \in Agents /\ Listening(socket_file))
    <3>1. /\ \/ proc'[a].main = "stale" /\ proc'[a].g_socket_path = p.g_socket_path
             \/ proc'[a].main = "prepared"
          /\ raced' = raced
      BY <1>1, <1>5, <2>4 DEF Prepare, prepare_unix_socket, ProcStates
    <3>2. \A b \in Agents : ~Undisturbed(b)
      BY <1>1, <2>4 DEF SocketSound, Undisturbed
    <3>3. \A b \in Agents : ~Undisturbed(b)'
      BY <2>1, <3>1, <3>2 DEF Undisturbed, Listening
    <3>4. \A b \in Agents : PathSound(proc'[b])
      BY <1>1, <2>1, <2>4, <3>1 DEF SocketSound, PathSound
    <3> QED
      BY <3>3, <3>4 DEF SocketSound
  <2>5. CASE ~p.uds
    <3>1. /\ proc'[a].main = "prepared" /\ proc'[a].g_socket_path = p.g_socket_path
          /\ raced' = raced \union Contenders
      BY <1>1, <1>5, <2>5 DEF Prepare, ProcStates
    <3>2. \A b \in Agents : Undisturbed(b) => b \in Contenders
      BY DEF Undisturbed, Listening, Contenders
    <3>3. \A b \in Agents : ~Undisturbed(b)'
      BY <2>1, <3>1, <3>2 DEF Undisturbed, Listening
    <3>4. \A b \in Agents : PathSound(proc'[b])
      BY <1>1, <2>1, <3>1 DEF SocketSound, PathSound
    <3> QED
      BY <3>3, <3>4 DEF SocketSound
  <2> QED
    BY <1>5, <2>3, <2>4, <2>5
<1>9. CASE unlink_stale(a)
  <2>1. /\ \A b \in Agents \ {a} : proc'[b] = proc[b]
        /\ proc'[a].uds = p.uds /\ UNCHANGED <<signalled, raced>>
        /\ p.main = "stale"
        /\ \/ proc'[a].main = "refused" /\ proc'[a].g_socket_path = p.g_socket_path
           \/ proc'[a].main = "prepared"
    BY <1>1, <1>9 DEF unlink_stale, ProcStates
  <2>2. p.uds /\ ~p.g_socket_path
    BY <1>1, <2>1 DEF SocketSound, PathSound
  <2>3. a \in Contenders /\ ~Undisturbed(a)
    BY <2>1, <2>2 DEF Contenders, Undisturbed, Listening
  <2>4. \A b \in Agents : ~Undisturbed(b)
    BY <1>1, <2>3 DEF SocketSound
  <2>5. \A b \in Agents : ~Undisturbed(b)'
    BY <2>1, <2>4 DEF Undisturbed, Listening
  <2>6. \A b \in Agents : PathSound(proc'[b])
    BY <1>1, <2>1, <2>2 DEF SocketSound, PathSound
  <2> QED
    BY <2>5, <2>6 DEF SocketSound
<1>6. CASE grpc_server_start(a)
  <2>1. /\ \A b \in Agents \ {a} : proc'[b] = proc[b]
        /\ proc'[a].uds = p.uds /\ proc'[a].g_socket_path = p.g_socket_path
        /\ proc'[a].main \in {"serve", "failed"} /\ p.main = "bind" /\ UNCHANGED signalled
    BY <1>1, <1>6 DEF grpc_server_start, ProcStates
  <2>2. Contenders' = Contenders
    BY <2>1 DEF Contenders
  <2>3. \A b \in Agents : PathSound(proc'[b])
    BY <1>1, <2>1 DEF SocketSound, PathSound
  <2>4. \A b \in Agents : Undisturbed(b)' => b \in Contenders
    BY <2>2 DEF Undisturbed, Listening, Contenders
  <2>5. CASE proc'[a].main = "failed" \/ ~p.uds
    <3>1. UNCHANGED <<socket_file, raced>>
      BY <1>1, <1>6, <2>5 DEF grpc_server_start, ProcStates
    <3>2. ~Undisturbed(a)'
      BY <2>1, <2>5 DEF Undisturbed, Listening
    <3> QED
      BY <2>1, <2>2, <2>3, <3>1, <3>2, SocketLeft
  <2>6. CASE proc'[a].main = "serve" /\ p.uds /\ Contenders \ {a} # {}
    <3>1. raced' = raced \union Contenders
      BY <1>1, <1>6, <2>6 DEF grpc_server_start, ProcStates
    <3>2. \A b \in Agents : ~Undisturbed(b)'
      BY <2>4, <3>1 DEF Undisturbed
    <3> QED
      BY <2>3, <3>2 DEF SocketSound
  <2>7. CASE proc'[a].main = "serve" /\ p.uds /\ Contenders \ {a} = {}
    <3>1. socket_file' = a
      BY <1>1, <1>6, <2>7 DEF grpc_server_start, ProcStates
    <3>2. \A b \in Agents : Undisturbed(b)' => b = a /\ Contenders' = {a}
      BY <2>2, <2>4, <2>7
    <3> QED
      BY <2>3, <3>1, <3>2 DEF SocketSound
  <2> QED
    BY <2>1, <2>5, <2>6, <2>7
<1>7. CASE CleanSocket(a)
  <2>1. /\ proc' = proc /\ raced' = raced
        /\ signalled[a] = "unlink" /\ signalled'[a] = "raise"
        /\ \A b \in Agents \ {a} : signalled'[b] = signalled[b]
        /\ ~p.g_socket_path => socket_file' = socket_file
    BY <1>1, <1>7 DEF CleanSocket
  <2>2. Contenders \ {a} \subseteq Contenders' /\ Contenders' \subseteq Contenders
    BY <2>1 DEF Contenders
  <2>3. ~Undisturbed(a)' /\ \A b \in Agents \ {a} : Undisturbed(b)' => Undisturbed(b)
    BY <2>1 DEF Undisturbed, Listening
  <2>4. p.g_socket_path => a \in Contenders
    BY <1>1, <2>1 DEF Contenders, SocketSound, PathSound
  <2>5. ASSUME NEW b \in Agents, Undisturbed(b)' PROVE socket_file' = b /\ Contenders' = {b}
    <3>1. b # a /\ socket_file = b /\ Contenders = {b}
      BY <1>1, <2>3, <2>5 DEF SocketSound
    <3> QED
      BY <2>1, <2>2, <2>4, <3>1
  <2>6. \A b \in Agents : PathSound(proc'[b])
    BY <1>1, <2>1 DEF SocketSound
  <2> QED
    BY <2>5, <2>6 DEF SocketSound
<1>8. CASE Die(a)
  <2>1. /\ proc'[a].main = "dead" /\ ~proc'[a].g_socket_path
        /\ \A b \in Agents \ {a} : proc'[b] = proc[b] /\ signalled'[b] = signalled[b]
        /\ raced' = raced \ {a}
        /\ socket_file # a => socket_file' = socket_file
    BY <1>1, <1>8 DEF Die, DeadProc
  <2>2. Contenders' = Contenders \ {a}
    BY <2>1 DEF Contenders
  <2>3. ~Undisturbed(a)' /\ \A b \in Agents \ {a} : Undisturbed(b)' => Undisturbed(b)
    BY <2>1 DEF Undisturbed, Listening
  <2>4. \A b \in Agents : PathSound(proc'[b])
    BY <1>1, <2>1 DEF SocketSound, PathSound
  <2> QED
    BY <1>1, <2>1, <2>2, <2>3, <2>4 DEF SocketSound
<1> QED
  BY <1>2, <1>3, <1>4, <1>5, <1>6, <1>7, <1>8, <1>9 DEF AgentStep, ExitOne, Raise, Kill

LEMMA LifeStep ==
  ASSUME LifeInv, [LifeNext]_lifeVars
  PROVE  LifeInv'
<1>1. CASE UNCHANGED lifeVars
  BY <1>1 DEF lifeVars, LifeInv, AgentsSound, SocketSound, Undisturbed, Listening, Contenders
<1>2. ASSUME NEW a \in Agents, AgentStep(a)
      PROVE  LifeInv'
  <2>1. AgentsSound'
    BY <1>2, AgentSteps DEF LifeInv
  <2>2. SocketSound'
    BY <1>2, SocketSteps
  <2>3. /\ socket_file' \in {NoFile, Stale} \union Agents
        /\ raced' \subseteq Agents
        /\ starts' \in [Agents -> Nat] /\ \A b \in Agents : starts'[b] <= MaxStarts[b]
    <3>1. Contenders \subseteq Agents
      BY DEF Contenders
    <3>2. CASE Start(a)
      <4>1. /\ starts \in [Agents -> Nat] /\ MaxStarts \in [Agents -> Nat]
            /\ \A b \in Agents : starts[b] <= MaxStarts[b]
        BY LifeAssumption DEF LifeInv
      <4>2. starts[a] < MaxStarts[a] /\ starts' = [starts EXCEPT ![a] = @ + 1]
        BY <3>2 DEF Start
      <4>3. starts[a] \in Nat /\ MaxStarts[a] \in Nat
        BY <4>1
      <4>4. starts[a] + 1 \in Nat /\ starts[a] + 1 <= MaxStarts[a]
        BY <4>2, <4>3
      <4>5. /\ starts' \in [Agents -> Nat] /\ starts'[a] = starts[a] + 1
            /\ \A b \in Agents : b # a => starts'[b] = starts[b]
        BY <4>1, <4>2, <4>4
      <4>6. \A b \in Agents : starts'[b] <= MaxStarts[b]
        BY <4>1, <4>4, <4>5
      <4>7. UNCHANGED <<socket_file, raced>>
        BY <3>2 DEF Start
      <4> QED
        BY <4>5, <4>6, <4>7 DEF LifeInv
    <3>3. CASE Die(a)
      BY <3>3 DEF Die, LifeInv
    <3>4. CASE Prepare(a) \/ unlink_stale(a) \/ grpc_server_start(a) \/ CleanSocket(a)
      BY <3>1, <3>4 DEF Prepare, unlink_stale, grpc_server_start, CleanSocket, LifeInv
    <3>5. CASE UNCHANGED <<socket_file, raced, starts>>
      BY <3>5 DEF LifeInv
    <3> QED
      BY <1>2, <3>2, <3>3, <3>4, <3>5 DEF AgentStep, ExitOne, Raise, Kill, aga_api_init, smi_init,
         wsl_smi_init, spawn_event_monitor_thread, spawn_watcher_thread, create_gpus, TimerCallback,
         CallbackDone, ThreadExit, Signal, aga_api_teardown, JoinMonitor, JoinWatcher, ShutDown
  <2> QED
    BY <2>1, <2>2, <2>3 DEF LifeInv
<1>3. LifeNext => \E a \in Agents : AgentStep(a)
  BY DEF LifeNext, AgentStep
<1> QED
  BY <1>1, <1>2, <1>3

LEMMA LifeStarts ==
  ASSUME LifeInit
  PROVE  LifeInv
<1>1. DeadProc \in ProcStates
  BY DEF DeadProc, ProcStates, MainStates
<1>2. PICK v \in ThreadStates : v = [th \in Threads |-> "none"]
  BY DEF ThreadStates
<1>3. \A a \in Agents : proc[a] = DeadProc /\ signalled[a] = "wait" /\ smi_thread[a] = v
  BY <1>2 DEF LifeInit
<1>4. \A a \in Agents : ThreadsSound(DeadProc, "wait", v, Backend[a])
  BY <1>2 DEF ThreadsSound, DeadProc, Threads
<1>5. AgentsSound
  BY <1>1, <1>2, <1>3, <1>4 DEF LifeInit, AgentsSound, SignalStates
<1>6. SocketSound
  BY <1>3 DEF SocketSound, PathSound, Undisturbed, Listening, DeadProc
<1>7. MaxStarts \in [Agents -> Nat]
  BY LifeAssumption
<1> QED
  BY <1>5, <1>6, <1>7 DEF LifeInit, LifeInv

\* The invariant of start-up and shutdown, for every set of agents and however
\* often each is started, signalled and killed.
THEOREM LifeInvariant == LifeSpec => []LifeInv
<1>1. LifeInit => LifeInv
  BY LifeStarts
<1>2. LifeInv /\ [LifeNext]_lifeVars => LifeInv'
  BY LifeStep
<1> QED
  BY <1>1, <1>2, PTL DEF LifeSpec

\* Type correctness of the processes, their threads and the socket file.
THEOREM LifeTypeCorrect == LifeSpec => []LifeTypeOK
<1>1. LifeInv => LifeTypeOK
  BY DEF LifeInv, AgentsSound, LifeTypeOK, ProcStates, MainStates, SignalStates, ThreadStates
<1> QED
  BY <1>1, LifeInvariant, PTL

\* No callback runs and no thread cleans up in an SMI library that was shut down,
\* wherever start-up was when the signal came: the watcher with both back ends,
\* the event monitor with the WSL2 one (smi_state::teardown).
THEOREM LibraryOutlives == LifeSpec => []LibraryOutlivesCallbacks
<1>1. ASSUME LifeInv, NEW a \in Agents, NEW th \in Threads,
             smi_thread[a][th] \in {"callback", "last callback", "exit"}, ~proc[a].smi_up
      PROVE  th = "mon" /\ Backend[a] = "amdsmi"
  <2>1. ThreadsSound(proc[a], signalled[a], smi_thread[a], Backend[a])
    BY <1>1 DEF LifeInv, AgentsSound
  <2>2. Backend[a] \in {"amdsmi", "wslamdsmi"} /\ th \in {"mon", "wat"}
    BY LifeAssumption DEF Threads
  <2> QED
    BY <1>1, <2>1, <2>2 DEF ThreadsSound
<1>2. LifeInv => LibraryOutlivesCallbacks
  BY <1>1 DEF LibraryOutlivesCallbacks
<1> QED
  BY <1>2, LifeInvariant, PTL

\* An agent that serves on the Unix socket, and whose start or run met neither
\* another agent's start nor a TCP agent, can be reached there, whatever agents are
\* refused, signalled or killed around it (prepare_unix_socket, clean_unix_socket).
THEOREM SocketIsItsOwn == LifeSpec => []ServesOnItsSocket
<1>1. LifeInv => ServesOnItsSocket
  BY DEF LifeInv, SocketSound, ServesOnItsSocket, Undisturbed
<1> QED
  BY <1>1, LifeInvariant, PTL

-----------------------------------------------------------------------------
(***************************************************************************)
(* GimSession.  In lazy mode the reference count is the number of open     *)
(* sessions at every moment, also while a thread is inside the mutex, so   *)
(* that the library is initialised and shut down when no session is open;  *)
(* in persistent mode it is initialised once, before any handle is kept.   *)
(***************************************************************************)

\* Where a thread may be with each job.
PcsOf(job) ==
    CASE job = "init"                    -> {"idle", "lock", "init", "count", "unlock", "down"}
      [] job = "discover"                -> {"lock", "init", "count", "discover", "unlock"}
      [] job = "create"                  -> {"lock", "init", "count", "discover", "unlock", "down"}
      [] job \in {"immutable", "spec", "request", "topology"} ->
             {"lock", "init", "count", "resolve", "call", "unlock", "down"}
      [] job = "badpage"                 -> {"call"}
      [] job = "tick" -> {"lock", "init", "count", "walk", "unlock", "down", "post"}
      [] OTHER                           -> {"idle"}

JobsOf(t) ==
    CASE t = "main"    -> {"init", "discover", "create", "immutable", "spec", "add", "serve", "dead"}
      [] t = "watcher" -> {"none", "tick"}
      [] OTHER         -> {"none", "request", "topology", "badpage"}

ThreadRecords == [job : Jobs, pc : Pcs, todo : SUBSET GimGpus, handle : 0 .. MaxLives,
            peer : 0 .. MaxLives, found : 0 .. MaxLives]

InMutex == {"init", "count", "down"}

\* A session is open with thread state s, inside the one of init if that is open.
HoldsSession(s) == /\ s.pc \in {"discover", "resolve", "call", "walk", "unlock"}
             /\ s.job # "badpage"

\* The state s of thread t.
ThreadOk(t, s) ==
    /\ s \in ThreadRecords
    /\ s.job \in JobsOf(t)
    /\ s.pc \in PcsOf(s.job)
    /\ ~lazy_init => s.pc \notin InMutex \union {"lock", "resolve", "unlock"}
    /\ s.job # "topology" \/ s.pc \notin {"call", "unlock", "down"} => s.peer = NoHandle
    /\ s.job = "none" => s = Idle

\* A call behind the guard has handles of the present life.
Fresh(s) == HoldsSession(s) /\ s.pc = "call" => s.handle = lib.life /\ s.peer \in {NoHandle, lib.life}

ThreadsOk ==
    /\ threads \in [GimThreads -> ThreadRecords]
    /\ \A t \in GimThreads : ThreadOk(t, threads[t]) /\ Fresh(threads[t])
    /\ \A t \in GimThreads : threads[t].pc \in InMutex <=> init_mutex = t
    /\ \A t \in GimThreads \ {"main"} : threads[t].job # "none" => Serving

\* Lazy mode.
Counted ==
    lazy_init =>
        /\ refcount = OpenSessions
        /\ refcount > 0 => lib.live
        /\ \A t \in GimThreads : threads[t].pc = "count" => lib.live
        /\ \A t \in GimThreads : threads[t].pc = "down" => refcount = 0
        /\ lib.live => \/ refcount > 0 \/ lib.refused
                       \/ \E t \in GimThreads : threads[t].pc \in {"count", "down"}

\* Persistent mode.
Persistent ==
    ~lazy_init /\ threads["main"].job \in {"add", "immutable", "spec", "serve"} =>
        /\ lib.live /\ threads["main"].found = lib.life
        /\ \A g \in GimGpus \ threads["main"].todo : handles[g] = lib.life
        /\ threads["main"].job = "serve" => threads["main"].todo = {}

\* The slow fields of the samples.
Sampled ==
    /\ sample.priming => sample.refresh
    /\ \A g \in sample.reached : OnlyMissedIsZero(g, sample.db[g])
    /\ \A g \in GimGpus : OnlyMissedIsZero(g, slow_cache[g])

GimTyped ==
    /\ lazy_init \in BOOLEAN
    /\ lib \in [live : BOOLEAN, life : 0 .. MaxLives, refused : BOOLEAN]
    /\ init_mutex \in GimThreads \union {NoThread}
    /\ refcount \in Nat
    /\ handles \in [GimGpus -> 0 .. MaxLives]
    /\ spawned \in BOOLEAN
    /\ slow_primed \in BOOLEAN
    /\ slow_cache \in [GimGpus -> Readings]
    /\ sample \in [db : [GimGpus -> Readings], refresh : BOOLEAN,
                   priming : BOOLEAN, reached : SUBSET GimGpus]
    /\ missed \in [block : SUBSET GimGpus, total : SUBSET GimGpus]

GimInv == GimTyped /\ ThreadsOk /\ Counted /\ Persistent /\ Sampled

\* The sessions that thread state s has open, the one of init included.
Opens(s) == (IF HoldsSession(s) THEN 1 ELSE 0) + (IF s.job = "discover" THEN 1 ELSE 0)

SessionJobs == {"init", "discover", "create", "immutable", "spec", "request", "topology", "tick"}
CallJobs == {"immutable", "spec", "request", "topology"}

\* A session that begins: in lazy mode at its lock, else in its body.
LEMMA BeginsWell ==
  ASSUME lazy_init \in BOOLEAN, NEW t \in GimThreads, NEW s \in ThreadRecords,
         s.job \in JobsOf(t) \cap (SessionJobs \ {"init"}), s.peer = NoHandle,
         s.job = "discover" => ~lazy_init, NEW q, q = Begin(s)
  PROVE  /\ ThreadOk(t, q)
         /\ q.job = s.job /\ q.todo = s.todo /\ q.handle = s.handle /\ q.found = s.found
         /\ lazy_init => q.pc = "lock"
         /\ ~lazy_init => q.pc \in {"discover", "walk", "call"}
         /\ q.pc = "call" => ~lazy_init /\ q.job \in CallJobs
<1>1. PICK at \in Pcs : /\ q = [s EXCEPT !.pc = at]
                        /\ at \in PcsOf(s.job)
                        /\ lazy_init => at = "lock"
                        /\ ~lazy_init => at \in {"discover", "walk", "call"}
                        /\ at = "call" => ~lazy_init /\ s.job \in CallJobs
  <2>1. CASE lazy_init
    BY <2>1 DEF Begin, Pcs, PcsOf, SessionJobs
  <2>2. CASE ~lazy_init
    BY <2>2 DEF Begin, Opened, Pcs, PcsOf, SessionJobs, CallJobs
  <2> QED
    BY <2>1, <2>2
<1>2. /\ q.pc = at /\ q \in ThreadRecords
      /\ q.job = s.job /\ q.todo = s.todo /\ q.handle = s.handle /\ q.found = s.found /\ q.peer = s.peer
  BY <1>1 DEF ThreadRecords
<1> QED
  BY <1>1, <1>2 DEF ThreadOk, InMutex, SessionJobs

\* A session that opens.
LEMMA OpensWell ==
  ASSUME lazy_init, NEW t \in GimThreads, NEW s, ThreadOk(t, s), s.pc = "count",
         NEW q, q = Opened(s)
  PROVE  /\ ThreadOk(t, q) /\ Opens(q) = Opens(s) + 1
         /\ q.pc \notin InMutex \union {"call"}
         /\ t = "watcher" => q.job = s.job
         /\ q.job # "none"
<1>1. s.peer = NoHandle /\ s \in ThreadRecords /\ s.job \in JobsOf(t)
  BY DEF ThreadOk
<1>2. CASE s.job = "init"
  <2>1. q = [s EXCEPT !.job = "discover", !.pc = "lock"]
    BY <1>2 DEF Opened
  <2>2. q \in ThreadRecords /\ q.job = "discover" /\ q.pc = "lock" /\ q.peer = NoHandle
    BY <1>1, <2>1 DEF ThreadRecords, Jobs, Pcs
  <2>3. t = "main"
    BY <1>1, <1>2 DEF JobsOf
  <2> QED
    BY <1>2, <2>2, <2>3 DEF ThreadOk, PcsOf, JobsOf, InMutex, Opens, HoldsSession
<1>3. CASE s.job # "init"
  <2>1. s.job \in SessionJobs
    BY <1>1 DEF ThreadOk, PcsOf, JobsOf, SessionJobs
  <2>2. PICK at \in {"discover", "walk", "resolve"} :
            q = [s EXCEPT !.pc = at] /\ at \in PcsOf(s.job)
    BY <1>3, <2>1 DEF Opened, PcsOf, SessionJobs
  <2>3. /\ q.pc = at /\ q \in ThreadRecords
        /\ q.job = s.job /\ q.peer = s.peer
    BY <1>1, <2>2 DEF ThreadRecords, Pcs
  <2> QED
    BY <1>1, <1>3, <2>1, <2>2, <2>3 DEF ThreadOk, InMutex, Opens, HoldsSession, SessionJobs
<1> QED
  BY <1>2, <1>3

\* What main keeps from one session to the next: the handle of the discovery
\* and the GPUs to come.
KeepsOn(p, q) ==
  q.job \in {"add", "immutable", "spec", "serve"} =>
      /\ q.found = p.found /\ q.job # "serve"
      /\ \/ p.job = "create" /\ q.todo = GimGpus /\ p.found # NoHandle
         \/ p.job \in {"immutable", "spec"} /\ q.todo = p.todo

\* A session that has closed.
LEMMA ClosesWell ==
  ASSUME lazy_init \in BOOLEAN, NEW t \in GimThreads, NEW s, ThreadOk(t, s),
         s.job \in SessionJobs, s.job = "init" => lazy_init, NEW q, q = Closed(s)
  PROVE  /\ ThreadOk(t, q)
         /\ lazy_init => /\ Opens(q) = IF s.job = "discover" THEN 1 ELSE 0
                         /\ q.pc # "call"
         /\ q.pc \notin InMutex
         /\ t = "watcher" => q.job = s.job
         /\ s.job = "tick" => q.pc = "post"
         /\ KeepsOn(s, q)
         /\ q.pc = "call" => q.handle = s.found /\ q.peer = NoHandle /\ s.job = "immutable"
         /\ q.job # "none" /\ t # "main" => q.job = s.job
<1>1. s \in ThreadRecords /\ s.job \in JobsOf(t) /\ (s.job # "topology" => s.peer = NoHandle)
  BY DEF ThreadOk
<1>2. t \in GimThreads /\ (s.job \in {"init", "discover", "create", "immutable", "spec"} => t = "main")
  BY <1>1 DEF JobsOf
<1>3. CASE s.job \in {"init", "discover"} /\ ~(s.job = "discover" /\ lazy_init)
  <2>1. PICK r : r = [s EXCEPT !.job = "create"]
    OBVIOUS
  <2>2. q = Begin(r)
    BY <1>3, <2>1 DEF Closed
  <2>3. /\ r \in ThreadRecords /\ r.job = "create" /\ r.peer = NoHandle
    BY <1>1, <1>3, <2>1 DEF ThreadRecords, Jobs
  <2>4. /\ ThreadOk(t, q) /\ q.job = "create"
        /\ lazy_init => q.pc = "lock"
        /\ ~lazy_init => q.pc \in {"discover", "walk", "call"}
        /\ q.pc = "call" => q.job \in CallJobs
    BY <1>2, <1>3, <2>2, <2>3, BeginsWell DEF JobsOf, SessionJobs
  <2> QED
    BY <1>2, <1>3, <2>4 DEF Opens, HoldsSession, InMutex, KeepsOn, CallJobs
<1>4. CASE s.job = "discover" /\ lazy_init
  <2>1. q = [s EXCEPT !.job = "init", !.pc = "unlock"]
    BY <1>4 DEF Closed
  <2>2. q \in ThreadRecords /\ q.job = "init" /\ q.pc = "unlock" /\ q.peer = NoHandle
    BY <1>1, <1>4, <2>1 DEF ThreadRecords, Jobs, Pcs
  <2> QED
    BY <1>2, <1>4, <2>2 DEF ThreadOk, PcsOf, JobsOf, InMutex, Opens, HoldsSession, KeepsOn
<1>5. CASE s.job = "create"
  <2>1. \/ s.found = NoHandle /\ q = [s EXCEPT !.job = "dead", !.pc = "idle"]
        \/ s.found # NoHandle /\ q = [s EXCEPT !.job = "add", !.pc = "idle", !.todo = GimGpus]
    BY <1>5 DEF Closed
  <2>2. q \in ThreadRecords /\ q.job \in {"dead", "add"} /\ q.pc = "idle" /\ q.peer = NoHandle /\ q.found = s.found
        /\ (q.job = "add" => q.todo = GimGpus /\ s.found # NoHandle)
    BY <1>1, <1>5, <2>1 DEF ThreadRecords, Jobs, Pcs
  <2> QED
    BY <1>2, <1>5, <2>2 DEF ThreadOk, PcsOf, JobsOf, InMutex, Opens, HoldsSession, KeepsOn
<1>6. CASE s.job = "immutable"
  <2>1. PICK r : r = [s EXCEPT !.job = "spec", !.handle = s.found]
    OBVIOUS
  <2>2. q = Begin(r)
    BY <1>6, <2>1 DEF Closed
  <2>3. /\ r \in ThreadRecords /\ r.job = "spec" /\ r.peer = NoHandle
        /\ r.handle = s.found /\ r.found = s.found /\ r.todo = s.todo
    BY <1>1, <1>6, <2>1 DEF ThreadRecords, Jobs
  <2>4. /\ ThreadOk(t, q) /\ q.job = "spec" /\ q.handle = s.found /\ q.found = s.found /\ q.todo = s.todo
        /\ lazy_init => q.pc = "lock"
        /\ ~lazy_init => q.pc \in {"discover", "walk", "call"}
        /\ q.pc = "call" => ~lazy_init
    BY <1>2, <1>6, <2>2, <2>3, BeginsWell DEF JobsOf, SessionJobs
  <2>5. q.pc = "call" => q.peer = NoHandle
    BY <2>4 DEF ThreadOk
  <2> QED
    BY <1>2, <1>6, <2>4, <2>5 DEF Opens, HoldsSession, InMutex, KeepsOn
<1>7. CASE s.job = "spec"
  <2>1. q = [s EXCEPT !.job = "add", !.pc = "idle"]
    BY <1>7 DEF Closed
  <2>2. q \in ThreadRecords /\ q.job = "add" /\ q.pc = "idle" /\ q.peer = NoHandle /\ q.found = s.found
        /\ q.todo = s.todo
    BY <1>1, <1>7, <2>1 DEF ThreadRecords, Jobs, Pcs
  <2> QED
    BY <1>2, <1>7, <2>2 DEF ThreadOk, PcsOf, JobsOf, InMutex, Opens, HoldsSession, KeepsOn
<1>8. CASE s.job = "tick"
  <2>1. q = [s EXCEPT !.pc = "post"]
    BY <1>8 DEF Closed
  <2>2. q \in ThreadRecords /\ q.job = "tick" /\ q.pc = "post" /\ q.peer = NoHandle
    BY <1>1, <1>8, <2>1 DEF ThreadRecords, Jobs, Pcs
  <2> QED
    BY <1>1, <1>2, <1>8, <2>2 DEF ThreadOk, PcsOf, JobsOf, InMutex, Opens, HoldsSession, KeepsOn
<1>9. CASE s.job \in {"request", "topology"}
  <2>1. q = Idle
    BY <1>9 DEF Closed
  <2>2. q \in ThreadRecords /\ q.job = "none" /\ q.pc = "idle" /\ q.peer = NoHandle
    BY <2>1, GimAssumption DEF Idle, ThreadRecords, Jobs, Pcs, NoHandle
  <2>3. t # "main" /\ t # "watcher"
    BY <1>1, <1>9 DEF JobsOf
  <2> QED
    BY <1>1, <1>9, <2>1, <2>2, <2>3 DEF ThreadOk, PcsOf, JobsOf, InMutex, Opens, HoldsSession, KeepsOn
<1> QED
  BY <1>3, <1>4, <1>5, <1>6, <1>7, <1>8, <1>9 DEF SessionJobs

\* The constructor failed.
LEMMA RefusedWell ==
  ASSUME lazy_init, NEW t \in GimThreads, NEW s, ThreadOk(t, s), s.pc = "init",
         NEW q, q = Refused(s)
  PROVE  /\ ThreadOk(t, q) /\ Opens(q) = Opens(s)
         /\ q.pc \notin InMutex \union {"call"}
         /\ t = "watcher" => q.job = s.job
         /\ q.job # "none" /\ t # "main" => q.job = s.job
<1>1. s.job \in SessionJobs /\ s \in ThreadRecords /\ s.job \in JobsOf(t)
      /\ (s.job # "topology" => s.peer = NoHandle)
  BY DEF ThreadOk, PcsOf, JobsOf, SessionJobs
<1>2. CASE s.job \notin {"create", "init"}
  <2>1. q = Closed(s)
    BY <1>2 DEF Refused
  <2> QED
    BY <1>1, <1>2, <2>1, ClosesWell DEF Opens, HoldsSession
<1>3. CASE s.job = "create"
  <2>1. q = [s EXCEPT !.job = "dead", !.pc = "idle"]
    BY <1>3 DEF Refused
  <2>2. q \in ThreadRecords /\ q.job = "dead" /\ q.pc = "idle" /\ q.peer = NoHandle
    BY <1>1, <1>3, <2>1 DEF ThreadRecords, Jobs, Pcs
  <2>3. t = "main"
    BY <1>1, <1>3 DEF JobsOf
  <2> QED
    BY <1>3, <2>2, <2>3 DEF ThreadOk, PcsOf, JobsOf, InMutex, Opens, HoldsSession
<1>4. CASE s.job = "init"
  <2>1. PICK r : r = [s EXCEPT !.job = "create"]
    OBVIOUS
  <2>2. q = Begin(r)
    BY <1>4, <2>1 DEF Refused
  <2>3. /\ r \in ThreadRecords /\ r.job = "create" /\ r.peer = NoHandle
    BY <1>1, <1>4, <2>1 DEF ThreadRecords, Jobs
  <2>4. t = "main"
    BY <1>1, <1>4 DEF JobsOf
  <2>5. ThreadOk(t, q) /\ q.job = "create" /\ q.pc = "lock"
    BY <2>2, <2>3, <2>4, BeginsWell DEF JobsOf, SessionJobs
  <2> QED
    BY <1>4, <2>4, <2>5 DEF Opens, HoldsSession, InMutex
<1> QED
  BY <1>2, <1>3, <1>4

\* The body of a session ends.
LEMMA EndsWell ==
  ASSUME lazy_init \in BOOLEAN, NEW t \in GimThreads, NEW s, ThreadOk(t, s), HoldsSession(s),
         NEW q, q = End(s)
  PROVE  /\ ThreadOk(t, q)
         /\ lazy_init => Opens(q) = Opens(s) /\ q.pc = "unlock"
         /\ q.pc \notin InMutex
         /\ t = "watcher" => q.job = s.job
         /\ ~lazy_init => KeepsOn(s, q)
         /\ lazy_init => q.job = s.job
         /\ q.pc = "call" => ~lazy_init /\ q.handle = s.found /\ q.peer = NoHandle /\ s.job = "immutable"
         /\ q.job # "none" /\ t # "main" => q.job = s.job
<1>1. s \in ThreadRecords /\ s.job \in SessionJobs /\ (s.job = "init" => lazy_init)
  BY DEF ThreadOk, PcsOf, JobsOf, HoldsSession, SessionJobs
<1>2. CASE lazy_init
  <2>1. q = [s EXCEPT !.pc = "unlock"]
    BY <1>2 DEF End
  <2>2. /\ q \in ThreadRecords /\ q.pc = "unlock"
        /\ q.job = s.job /\ q.peer = s.peer
    BY <1>1, <2>1 DEF ThreadRecords, Pcs
  <2>3. "unlock" \in PcsOf(s.job)
    BY <1>1 DEF PcsOf, SessionJobs
  <2>4. s.job # "topology" \/ s.pc \notin {"call", "unlock", "down"} => s.peer = NoHandle
    BY DEF ThreadOk
  <2>5. q.job # "topology" \/ q.pc \notin {"call", "unlock", "down"} => q.peer = NoHandle
    BY <2>2, <2>4
  <2>6. q.job # "none" /\ q.job # "badpage"
    BY <1>1, <2>2 DEF SessionJobs
  <2>7. ThreadOk(t, q)
    BY <1>1, <1>2, <2>2, <2>3, <2>5, <2>6 DEF ThreadOk
  <2> QED
    BY <1>1, <1>2, <2>2, <2>6, <2>7 DEF Opens, HoldsSession, InMutex
<1>3. CASE ~lazy_init
  <2>1. q = Closed(s)
    BY <1>3 DEF End
  <2> QED
    BY <1>1, <1>3, <2>1, ClosesWell
<1> QED
  BY <1>2, <1>3

\* Only thread t moves, to q.
LEMMA ThreadMovesTo ==
  ASSUME ThreadsOk, NEW t \in GimThreads, NEW q \in ThreadRecords, Go(t, q)
  PROVE  /\ threads' \in [GimThreads -> ThreadRecords]
         /\ threads'[t] = q
         /\ \A u \in GimThreads \ {t} : threads'[u] = threads[u]
  BY DEF ThreadsOk, Go

\* The states of the threads after a step of t to q.
LEMMA ThreadsMove ==
  ASSUME lazy_init \in BOOLEAN, ThreadsOk, NEW t \in GimThreads, NEW q, Go(t, q), ThreadOk(t, q),
         lazy_init' = lazy_init,
         q.pc \in InMutex => init_mutex \in {NoThread, t},
         init_mutex' = IF q.pc \in InMutex THEN t
                       ELSE IF threads[t].pc \in InMutex THEN NoThread ELSE init_mutex,
         t # "main" => Serving \/ q.job = "none",
         t = "main" => ~Serving,
         Fresh(q)',
         lib'.life = lib.life \/ \A u \in GimThreads : ~HoldsSession(threads[u])
  PROVE  ThreadsOk'
<1>1. /\ threads' \in [GimThreads -> ThreadRecords]
      /\ threads'[t] = q
      /\ \A u \in GimThreads \ {t} : threads'[u] = threads[u]
  BY ThreadMovesTo DEF ThreadOk
<1>2. ASSUME NEW u \in GimThreads
      PROVE  ThreadOk(u, threads[u])' /\ Fresh(threads[u])'
  <2>1. PICK s : s = threads'[u]
    OBVIOUS
  <2>2. CASE u = t
    <3>1. s = q
      BY <1>1, <2>1, <2>2
    <3>2. ThreadOk(u, s)'
      BY <2>2, <3>1 DEF ThreadOk
    <3> QED
      BY <2>1, <3>1, <3>2 DEF ThreadOk, Fresh
  <2>3. CASE u # t
    <3>1. s = threads[u]
      BY <1>1, <2>1, <2>3
    <3>2. ThreadOk(u, s) /\ Fresh(s) /\ (lib'.life = lib.life \/ ~HoldsSession(s))
      BY <3>1 DEF ThreadsOk
    <3>3. ThreadOk(u, s)' /\ Fresh(s)'
      BY <3>2 DEF ThreadOk, Fresh
    <3> QED
      BY <2>1, <3>3 DEF ThreadOk, Fresh
  <2> QED
    BY <2>2, <2>3
<1>3. ASSUME NEW u \in GimThreads
      PROVE  threads'[u].pc \in InMutex <=> init_mutex' = u
  <2>1. NoThread \notin GimThreads
    BY GimAssumption DEF GimThreads, NoThread
  <2>2. \A v \in GimThreads : threads[v].pc \in InMutex <=> init_mutex = v
    BY DEF ThreadsOk
  <2> QED
    BY <1>1, <2>1, <2>2
<1>4. "main" \in GimThreads
  BY DEF GimThreads
<1>5. \A u \in GimThreads \ {"main"} : threads'[u].job # "none" => Serving'
  BY <1>1, <1>4 DEF ThreadsOk, Serving
<1> QED
  BY <1>1, <1>2, <1>3, <1>5 DEF ThreadsOk

LEMMA FewThreads == IsFiniteSet(GimThreads)
<1>1. IsFiniteSet({"main"})
  BY FS_Singleton
<1>2. {"main"} \cup {"watcher"} = {"main", "watcher"}
  OBVIOUS
<1>3. IsFiniteSet({"main", "watcher"})
  BY <1>1, <1>2, FS_AddElement
<1> QED
  BY <1>3, FS_Union, GimAssumption DEF GimThreads

\* The number of open sessions.
LEMMA SessionsCount ==
  ASSUME ThreadsOk
  PROVE  /\ OpenSessions \in Nat
         /\ \A t \in GimThreads : OpenSessions >= Opens(threads[t])
         /\ OpenSessions = 0 => \A t \in GimThreads : ~HoldsSession(threads[t])
         /\ threads["main"].job = "discover" => OpenSessions > 0
<1> DEFINE S == {t \in GimThreads : InSession(t)}
<1>1. IsFiniteSet(GimThreads)
  BY FewThreads
<1>2. IsFiniteSet(S) /\ Cardinality(S) \in Nat
  BY <1>1, FS_Subset, FS_CardinalityType
<1>3. \A t \in GimThreads : HoldsSession(threads[t]) <=> t \in S
  BY DEF HoldsSession, InSession
<1>4. ASSUME NEW t \in S
      PROVE  Cardinality(S) > 0
  <2>1. Cardinality(S) # 0
    BY <1>2, <1>4, FS_EmptySet
  <2> QED
    BY <1>2, <2>1
<1>5. \A t \in GimThreads : threads[t].job = "discover" => t = "main"
  BY DEF ThreadsOk, ThreadOk, JobsOf
<1>6. OpenSessions = Cardinality(S) + (IF threads["main"].job = "discover" THEN 1 ELSE 0)
  BY DEF OpenSessions
<1> HIDE DEF S
<1>7. ASSUME NEW t \in GimThreads
      PROVE  OpenSessions >= Opens(threads[t])
  BY <1>2, <1>3, <1>4, <1>5, <1>6 DEF Opens
<1> QED
  BY <1>2, <1>3, <1>4, <1>6, <1>7

\* A step of t opens and closes what it does to the state of t.
LEMMA SessionsMove ==
  ASSUME ThreadsOk, NEW t \in GimThreads, NEW q, Go(t, q), ThreadOk(t, q), ThreadsOk'
  PROVE  OpenSessions' = OpenSessions + Opens(q) - Opens(threads[t])
<1> DEFINE S == {u \in GimThreads : InSession(u)}
           T == {u \in GimThreads : InSession(u)'}
           d == IF threads["main"].job = "discover" THEN 1 ELSE 0
           e == IF threads'["main"].job = "discover" THEN 1 ELSE 0
<1>1. /\ threads'[t] = q
      /\ \A u \in GimThreads \ {t} : threads'[u] = threads[u]
  BY ThreadMovesTo DEF ThreadOk
<1>2. /\ IsFiniteSet(S) /\ Cardinality(S) \in Nat
      /\ OpenSessions = Cardinality(S) + d
      /\ OpenSessions' = Cardinality(T) + e
  BY FewThreads, FS_Subset, FS_CardinalityType DEF OpenSessions
<1>3. \A u \in GimThreads : u \in S <=> HoldsSession(threads[u])
  BY DEF HoldsSession, InSession
<1>4. \A u \in GimThreads : u \in T <=> IF u = t THEN HoldsSession(q) ELSE u \in S
  BY <1>1 DEF HoldsSession, InSession
<1>5. Cardinality(T) = Cardinality(S) + (IF HoldsSession(q) THEN 1 ELSE 0)
                       - (IF HoldsSession(threads[t]) THEN 1 ELSE 0)
  <2>1. CASE HoldsSession(q)
    <3>1. T = S \cup {t}
      BY <1>4, <2>1
    <3>2. Cardinality(T) = IF t \in S THEN Cardinality(S) ELSE Cardinality(S) + 1
      BY <1>2, <3>1, FS_AddElement
    <3> HIDE DEF S, T
    <3> QED
      BY <1>2, <1>3, <2>1, <3>2
  <2>2. CASE ~HoldsSession(q)
    <3>1. T = S \ {t}
      BY <1>4, <2>2
    <3>2. Cardinality(T) = IF t \in S THEN Cardinality(S) - 1 ELSE Cardinality(S)
      BY <1>2, <3>1, FS_RemoveElement
    <3> HIDE DEF S, T
    <3> QED
      BY <1>2, <1>3, <2>2, <3>2
  <2> QED
    BY <2>1, <2>2
<1>6. e = d + (IF q.job = "discover" THEN 1 ELSE 0) - (IF threads[t].job = "discover" THEN 1 ELSE 0)
  <2>1. "main" \in GimThreads
    BY DEF GimThreads
  <2>2. t # "main" => q.job # "discover" /\ threads[t].job # "discover"
    BY DEF ThreadsOk, ThreadOk, JobsOf
  <2> QED
    BY <1>1, <2>1, <2>2
<1> HIDE DEF S, T, d, e
<1>7. d \in Int
  BY DEF d
<1> QED
  BY <1>2, <1>5, <1>6, <1>7 DEF Opens

\* The library and the count stay, and t neither counts itself nor shuts down.
LEMMA CountStays ==
  ASSUME lazy_init \in BOOLEAN, refcount \in Nat, ThreadsOk, ThreadsOk', Counted,
         NEW t \in GimThreads, NEW q, Go(t, q), ThreadOk(t, q),
         UNCHANGED <<lazy_init, lib, refcount>>,
         lazy_init => /\ Opens(q) = Opens(threads[t])
                      /\ q.pc \notin {"count", "down"}
                      /\ threads[t].pc \notin {"count", "down"}
  PROVE  Counted'
<1> SUFFICES ASSUME lazy_init
             PROVE  Counted'
  BY DEF Counted
<1>1. OpenSessions' = OpenSessions
  BY SessionsMove, SessionsCount DEF Opens
<1>2. /\ threads'[t] = q
      /\ \A u \in GimThreads \ {t} : threads'[u] = threads[u]
  BY ThreadMovesTo DEF ThreadOk
<1>3. \A u \in GimThreads : threads'[u].pc \in {"count", "down"} => threads'[u] = threads[u]
  BY <1>2
<1>4. \A u \in GimThreads : threads[u].pc \in {"count", "down"} => threads'[u] = threads[u]
  BY <1>2
<1> QED
  BY <1>1, <1>3, <1>4 DEF Counted

\* What a step of main from p to q may do while it keeps the library and the
\* handles.
Fits(p, q) ==
  \/ q.job \notin {"add", "immutable", "spec", "serve"}
  \/ q.job # "serve" /\ lib.live /\ q.found = lib.life /\ q.todo = GimGpus
  \/ /\ q.job # "serve" /\ p.job \in {"immutable", "spec"}
     /\ q.found = p.found /\ q.todo = p.todo

LEMMA HandlesStay ==
  ASSUME ThreadsOk, Persistent, NEW t \in GimThreads, NEW q, Go(t, q), ThreadOk(t, q),
         UNCHANGED <<lazy_init, lib, handles>>,
         t = "main" => ~Serving,
         ~lazy_init /\ t = "main" => Fits(threads[t], q)
  PROVE  Persistent'
<1>1. /\ threads'[t] = q
      /\ \A u \in GimThreads \ {t} : threads'[u] = threads[u]
  BY ThreadMovesTo DEF ThreadOk
<1>2. "main" \in GimThreads
  BY DEF GimThreads
<1>3. CASE t # "main"
  <2>1. threads'["main"] = threads["main"]
    BY <1>1, <1>2, <1>3
  <2> QED
    BY <2>1 DEF Persistent
<1>4. CASE t = "main"
  BY <1>1, <1>4 DEF Persistent, Fits
<1> QED
  BY <1>3, <1>4

\* A step that leaves the samples alone.
LEMMA SamplesStay ==
  ASSUME Sampled, UNCHANGED watchVars
  PROVE  Sampled'
BY DEF Sampled, OnlyMissedIsZero, watchVars

\* The facts about a thread that the steps need.
LEMMA ThreadFacts ==
  ASSUME ThreadsOk, NEW t \in GimThreads
  PROVE  /\ ThreadOk(t, threads[t]) /\ Fresh(threads[t])
         /\ threads[t].pc \in InMutex <=> init_mutex = t
         /\ threads[t].pc # "idle" => /\ threads[t].job # "none"
                                      /\ t # "main" => Serving
                                      /\ t = "main" => ~Serving
         /\ t = "watcher" /\ threads[t].pc # "idle" => threads[t].job = "tick"
         /\ threads[t].pc \in {"lock", "init", "count", "unlock", "down"}
                => lazy_init /\ threads[t].job \in SessionJobs
<1>1. ThreadOk(t, threads[t]) /\ Fresh(threads[t]) /\ (threads[t].pc \in InMutex <=> init_mutex = t)
  BY DEF ThreadsOk
<1>2. threads[t].job = "none" => threads[t].pc = "idle"
  BY <1>1 DEF ThreadOk, Idle
<1>3. threads[t].pc # "idle" => (t # "main" => Serving) /\ (t = "main" => ~Serving)
  BY <1>1, <1>2 DEF ThreadsOk, ThreadOk, PcsOf, Serving
<1>4. threads[t].pc \in {"lock", "init", "count", "unlock", "down"} => lazy_init /\ threads[t].job \in SessionJobs
  BY <1>1, <1>2 DEF ThreadOk, InMutex, PcsOf, SessionJobs, Jobs, ThreadRecords
<1>5. t = "watcher" /\ threads[t].pc # "idle" => threads[t].job = "tick"
  BY <1>1, <1>2 DEF ThreadOk, JobsOf
<1> QED
  BY <1>1, <1>2, <1>3, <1>4, <1>5

\* The steps of the constructor and the destructor of a session.
LEMMA SessionSteps ==
  ASSUME GimInv, NEW t \in GimThreads, Session(t)
  PROVE  GimInv'
<1> DEFINE p == threads[t]
<1>1. /\ ThreadsOk /\ Counted /\ Persistent /\ Sampled /\ GimTyped
      /\ lazy_init \in BOOLEAN /\ refcount \in Nat
      /\ NoThread \notin GimThreads
  BY GimAssumption DEF GimInv, GimTyped, GimThreads, NoThread
<1>2. p.pc \in {"lock", "init", "count", "unlock", "down"} /\ UNCHANGED <<lazy_init, handles, watchVars>>
  BY DEF Session, SessionLock, SessionInit, SessionCount, SessionDrop, SessionDown
<1>3. /\ ThreadOk(t, p) /\ Fresh(p) /\ (p.pc \in InMutex <=> init_mutex = t)
      /\ p.job # "none" /\ (t # "main" => Serving) /\ (t = "main" => ~Serving)
      /\ lazy_init /\ p.job \in SessionJobs
  BY <1>1, <1>2, ThreadFacts
<1>4. \A u \in GimThreads \ {t} : init_mutex = t => threads[u].pc \notin InMutex
  BY <1>1, <1>3 DEF ThreadsOk
<1>5. Persistent'
  BY <1>2, <1>3 DEF Persistent
<1>6. spawned' \in BOOLEAN
  BY <1>1 DEF GimTyped, Session, SessionLock, SessionInit, SessionCount, SessionDrop, SessionDown
<1>7. OpenSessions \in Nat /\ OpenSessions >= Opens(p) /\ refcount = OpenSessions
  BY <1>1, <1>3, SessionsCount DEF Counted
<1>8. ASSUME SessionLock(t)
      PROVE  GimInv'
  <2>1. PICK q : q = [p EXCEPT !.pc = "init"]
    OBVIOUS
  <2>2. /\ Go(t, q) /\ p.pc = "lock" /\ init_mutex = NoThread /\ init_mutex' = t
        /\ UNCHANGED <<lib, refcount>>
    BY <1>8, <2>1 DEF SessionLock
  <2>3. q \in ThreadRecords /\ q.pc = "init" /\ q.job = p.job /\ q.peer = p.peer
    BY <1>3, <2>1 DEF ThreadOk, ThreadRecords, Pcs
  <2>4. ThreadOk(t, q)
    BY <1>3, <2>2, <2>3 DEF ThreadOk, PcsOf, SessionJobs
  <2>5. Fresh(q)'
    BY <2>3 DEF Fresh
  <2>6. ThreadsOk'
    BY <1>1, <1>2, <1>3, <2>2, <2>3, <2>4, <2>5, ThreadsMove DEF InMutex
  <2>7. Counted'
    BY <1>1, <1>2, <2>2, <2>3, <2>4, <2>6, CountStays DEF Opens, HoldsSession
  <2>8. Sampled'
    BY <1>1, <1>2, <2>2, <2>3, <2>4, SamplesStay
  <2> QED
    BY <1>1, <1>2, <1>5, <1>6, <2>2, <2>6, <2>7, <2>8 DEF GimInv, GimTyped, watchVars
<1>9. ASSUME SessionInit(t)
      PROVE  GimInv'
  <2>1. p.pc = "init" /\ init_mutex = t /\ UNCHANGED refcount
    BY <1>3, <1>9 DEF SessionInit, InMutex
  <2>2. \A u \in GimThreads \ {t} : threads[u].pc \notin InMutex
    BY <1>4, <2>1
  <2>3. CASE /\ Go(t, [p EXCEPT !.pc = "count"]) /\ init_mutex' = init_mutex
             /\ \/ refcount > 0 /\ lib' = lib
                \/ refcount = 0 /\ amdsmi_init
    <3>1. PICK q : q = [p EXCEPT !.pc = "count"]
      OBVIOUS
    <3>2. q \in ThreadRecords /\ q.pc = "count" /\ q.job = p.job /\ q.peer = p.peer
      BY <1>3, <3>1 DEF ThreadOk, ThreadRecords, Pcs
    <3>3. ThreadOk(t, q) /\ Fresh(q)'
      BY <1>3, <2>1, <3>2 DEF ThreadOk, PcsOf, SessionJobs, Fresh
    <3>4. lib'.live /\ lib' \in [live : BOOLEAN, life : 0 .. MaxLives, refused : BOOLEAN]
      <4>1. CASE lib' = lib /\ refcount > 0
        BY <1>1, <1>3, <4>1 DEF Counted, GimTyped
      <4>2. CASE amdsmi_init
        <5>1. PICK life \in {lib.life + 1, lib.life} :
                  life <= MaxLives /\ lib' = [lib EXCEPT !.live = TRUE, !.life = life]
          BY <4>2 DEF amdsmi_init
        <5>2. /\ lib \in [live : BOOLEAN, life : 0 .. MaxLives, refused : BOOLEAN]
              /\ life \in 0 .. MaxLives
          BY <1>1, <5>1, GimAssumption DEF GimTyped
        <5> QED
          BY <5>1, <5>2
      <4> QED
        BY <2>3, <4>1, <4>2
    <3>5. lib' = lib \/ \A u \in GimThreads : ~HoldsSession(threads[u])
      BY <1>1, <1>7, <2>3, SessionsCount
    <3>6. ThreadsOk'
      BY <1>1, <1>2, <1>3, <2>1, <2>3, <3>1, <3>2, <3>3, <3>5, ThreadsMove DEF InMutex
    <3>7. OpenSessions' = OpenSessions
      <4>1. OpenSessions' = OpenSessions + Opens(q) - Opens(p)
        BY <1>1, <2>3, <3>1, <3>3, <3>6, SessionsMove
      <4> QED
        BY <1>7, <2>1, <3>2, <4>1 DEF Opens, HoldsSession
    <3>8. threads'[t] = q /\ \A u \in GimThreads \ {t} : threads'[u] = threads[u]
      BY <1>1, <2>3, <3>1, <3>2, ThreadMovesTo
    <3>9. Counted'
      BY <1>7, <2>1, <2>2, <3>2, <3>4, <3>7, <3>8 DEF Counted, InMutex
    <3>10. Sampled'
      BY <1>1, <1>2, <2>3, <3>1, <3>2, <3>3, SamplesStay
    <3> QED
      BY <1>1, <1>2, <1>5, <1>6, <2>1, <2>3, <3>4, <3>6, <3>9, <3>10 DEF GimInv, GimTyped, watchVars
  <2>4. CASE Go(t, Refused(p)) /\ init_mutex' = NoThread /\ UNCHANGED lib
    <3>1. PICK q : q = Refused(p)
      OBVIOUS
    <3>2. /\ ThreadOk(t, q) /\ Opens(q) = Opens(p)
          /\ q.pc \notin InMutex \union {"call"}
          /\ t = "watcher" => q.job = p.job
      BY <1>3, <2>1, <3>1, RefusedWell
    <3>3. ThreadsOk'
      BY <1>1, <1>2, <1>3, <2>1, <2>4, <3>1, <3>2, ThreadsMove DEF InMutex, Fresh
    <3>4. Counted'
      BY <1>1, <1>2, <2>1, <2>4, <3>1, <3>2, <3>3, CountStays DEF InMutex
    <3>5. Sampled'
      BY <1>1, <1>2, <2>4, <3>1, <3>2, SamplesStay
    <3> QED
      BY <1>1, <1>2, <1>5, <1>6, <2>1, <2>4, <3>3, <3>4, <3>5 DEF GimInv, GimTyped, watchVars
  <2>5. CASE refcount > 0 /\ Go(t, [p EXCEPT !.pc = "count"]) /\ UNCHANGED <<lib, init_mutex>>
    <3>1. init_mutex' = init_mutex /\ lib' = lib
      BY <2>5
    <3> QED
      BY <2>3, <2>5, <3>1
  <2>6. CASE refcount = 0 /\ amdsmi_init /\ Go(t, [p EXCEPT !.pc = "count"]) /\ UNCHANGED init_mutex
    BY <2>3, <2>6
  <2>7. CASE refcount = 0 /\ Go(t, Refused(p)) /\ init_mutex' = NoThread /\ UNCHANGED lib
    BY <2>4, <2>7
  <2> QED
    BY <1>9, <2>5, <2>6, <2>7 DEF SessionInit
<1>10. ASSUME SessionCount(t)
       PROVE  GimInv'
  <2>1. PICK q : q = Opened(p)
    OBVIOUS
  <2>2. /\ Go(t, q) /\ p.pc = "count" /\ init_mutex = t /\ init_mutex' = NoThread
        /\ UNCHANGED lib /\ refcount' = refcount + 1
    BY <1>3, <1>10, <2>1 DEF SessionCount, InMutex
  <2>3. /\ ThreadOk(t, q) /\ Opens(q) = Opens(p) + 1
        /\ q.pc \notin InMutex \union {"call"}
        /\ t = "watcher" => q.job = p.job
    BY <1>3, <2>1, <2>2, OpensWell
  <2>4. ThreadsOk'
    BY <1>1, <1>2, <1>3, <2>2, <2>3, ThreadsMove DEF InMutex, Fresh
  <2>5. OpenSessions' = OpenSessions + 1
    <3>1. OpenSessions' = OpenSessions + Opens(q) - Opens(p)
      BY <1>1, <2>2, <2>3, <2>4, SessionsMove
    <3> QED
      BY <1>7, <2>3, <3>1 DEF Opens
  <2>6. threads'[t] = q /\ \A u \in GimThreads \ {t} : threads'[u] = threads[u]
    BY <1>1, <2>2, <2>3, ThreadMovesTo DEF ThreadOk
  <2>7. lib.live /\ \A u \in GimThreads : threads'[u].pc \notin {"count", "down"}
    BY <1>1, <1>3, <1>4, <2>2, <2>3, <2>6 DEF Counted, InMutex
  <2>8. Counted'
    BY <1>7, <2>2, <2>5, <2>7 DEF Counted
  <2>9. Sampled'
    BY <1>1, <1>2, <2>2, <2>3, SamplesStay
  <2> QED
    BY <1>1, <1>2, <1>5, <1>6, <2>2, <2>4, <2>8, <2>9 DEF GimInv, GimTyped, watchVars
<1>11. ASSUME SessionDrop(t)
       PROVE  GimInv'
  <2>1. /\ p.pc = "unlock" /\ init_mutex = NoThread
        /\ UNCHANGED lib /\ refcount' = refcount - 1
    BY <1>11 DEF SessionDrop
  <2>2. HoldsSession(p) /\ Opens(p) = (IF p.job = "discover" THEN 2 ELSE 1)
    BY <1>3, <2>1 DEF Opens, HoldsSession, SessionJobs
  <2>3. refcount > 0 /\ lib.live /\ \A u \in GimThreads : threads[u].pc \notin InMutex
    BY <1>1, <1>3, <1>7, <2>1, <2>2 DEF Counted, ThreadsOk
  <2>4. PICK q : /\ Go(t, q) /\ ThreadOk(t, q) /\ Opens(q) = Opens(p) - 1
                 /\ t = "watcher" => q.job = p.job
                 /\ q.pc # "call"
                 /\ \/ refcount = 1 /\ q.pc = "down" /\ init_mutex' = t
                    \/ refcount # 1 /\ q.pc \notin InMutex /\ init_mutex' = NoThread
    <3>1. CASE refcount = 1
      <4>1. PICK q : q = [p EXCEPT !.pc = "down"]
        OBVIOUS
      <4>2. q \in ThreadRecords /\ q.pc = "down" /\ q.job = p.job /\ q.peer = p.peer
        BY <1>3, <4>1 DEF ThreadOk, ThreadRecords, Pcs
      <4>3. p.job # "discover"
        BY <1>7, <2>2, <3>1
      <4>4. ThreadOk(t, q)
        BY <1>3, <2>1, <4>2, <4>3 DEF ThreadOk, PcsOf, SessionJobs
      <4>5. Opens(q) = 0 /\ Opens(p) = 1
        BY <2>2, <4>2, <4>3 DEF Opens, HoldsSession
      <4> QED
        <5>1. Go(t, q) /\ init_mutex' = t
          BY <1>11, <3>1, <4>1 DEF SessionDrop
        <5>2. Opens(q) = Opens(p) - 1
          BY <4>5
        <5> QED
          BY <3>1, <4>2, <4>4, <5>1, <5>2
    <3>2. CASE refcount # 1
      <4>1. PICK q : q = Closed(p)
        OBVIOUS
      <4>2. /\ ThreadOk(t, q)
            /\ Opens(q) = IF p.job = "discover" THEN 1 ELSE 0
            /\ q.pc # "call"
            /\ q.pc \notin InMutex
            /\ t = "watcher" => q.job = p.job
        BY <1>1, <1>3, <4>1, ClosesWell
      <4> QED
        BY <1>11, <2>1, <2>2, <3>2, <4>1, <4>2 DEF SessionDrop
    <3> QED
      BY <3>1, <3>2
  <2>5. ThreadsOk'
    <3>1. Fresh(q)'
      BY <2>4 DEF Fresh
    <3>2. q.pc \in InMutex => init_mutex \in {NoThread, t}
      BY <2>1
    <3>3. init_mutex' = IF q.pc \in InMutex THEN t ELSE IF p.pc \in InMutex THEN NoThread ELSE init_mutex
      BY <2>1, <2>4 DEF InMutex
    <3>4. lib' = lib /\ lazy_init' = lazy_init
      BY <1>2, <2>1
    <3> QED
      BY <1>1, <1>3, <2>4, <3>1, <3>2, <3>3, <3>4, ThreadsMove
  <2>6. OpenSessions' = OpenSessions - 1
    <3>1. OpenSessions' = OpenSessions + Opens(q) - Opens(p)
      BY <1>1, <2>4, <2>5, SessionsMove
    <3> QED
      BY <1>7, <2>2, <2>4, <3>1
  <2>7. threads'[t] = q /\ \A u \in GimThreads \ {t} : threads'[u] = threads[u]
    BY <1>1, <2>4, ThreadMovesTo DEF ThreadOk
  <2>8. Counted'
    <3>1. refcount' \in Nat /\ refcount' = OpenSessions'
      BY <1>1, <1>7, <2>1, <2>3, <2>6
    <3>2. \A u \in GimThreads : threads'[u].pc \in {"count", "down"} => u = t /\ q.pc = "down" /\ refcount' = 0
      BY <1>1, <2>1, <2>3, <2>4, <2>7 DEF InMutex
    <3>3. refcount' > 0 \/ threads'[t].pc = "down"
      BY <1>1, <2>1, <2>3, <2>4, <2>7
    <3> QED
      BY <2>1, <2>3, <3>1, <3>2, <3>3 DEF Counted
  <2>9. Sampled'
    BY <1>1, <1>2, <2>4, SamplesStay
  <2>10. refcount' \in Nat /\ init_mutex' \in GimThreads \union {NoThread}
    BY <1>1, <2>1, <2>3, <2>4
  <2> QED
    BY <1>1, <1>2, <1>5, <1>6, <2>1, <2>5, <2>8, <2>9, <2>10 DEF GimInv, GimTyped, watchVars
<1>12. ASSUME SessionDown(t)
       PROVE  GimInv'
  <2>1. PICK q : q = Closed(p)
    OBVIOUS
  <2>2. /\ Go(t, q) /\ p.pc = "down" /\ init_mutex = t /\ init_mutex' = NoThread
        /\ UNCHANGED refcount
    BY <1>3, <1>12, <2>1 DEF SessionDown, InMutex
  <2>3. p.job # "discover"
    BY <1>3, <2>2 DEF ThreadOk, PcsOf
  <2>4. /\ ThreadOk(t, q) /\ Opens(q) = 0 /\ Opens(p) = 0
        /\ q.pc \notin InMutex \union {"call"}
        /\ t = "watcher" => q.job = p.job
    <3>1. Opens(p) = 0
      BY <2>2, <2>3 DEF Opens, HoldsSession
    <3> QED
      BY <1>1, <1>3, <2>1, <2>3, <3>1, ClosesWell
  <2>5. /\ lib' \in [live : BOOLEAN, life : 0 .. MaxLives, refused : BOOLEAN]
        /\ lib'.life = lib.life
        /\ lib'.live => lib'.refused
    BY <1>1, <1>12 DEF SessionDown, amdsmi_shut_down, GimTyped
  <2>6. ThreadsOk'
    <3>1. Fresh(q)'
      BY <2>4 DEF Fresh
    <3> QED
      BY <1>1, <1>2, <1>3, <2>2, <2>4, <2>5, <3>1, ThreadsMove DEF InMutex
  <2>7. OpenSessions' = OpenSessions
    <3>1. OpenSessions' = OpenSessions + Opens(q) - Opens(p)
      BY <1>1, <2>2, <2>4, <2>6, SessionsMove
    <3> QED
      BY <1>7, <2>4, <3>1
  <2>8. threads'[t] = q /\ \A u \in GimThreads \ {t} : threads'[u] = threads[u]
    BY <1>1, <2>2, <2>4, ThreadMovesTo DEF ThreadOk
  <2>9. \A u \in GimThreads : threads'[u].pc \notin {"count", "down"}
    BY <1>4, <2>2, <2>4, <2>8 DEF InMutex
  <2>10. refcount = 0
    BY <1>1, <1>3, <2>2 DEF Counted
  <2>11. Counted'
    BY <1>7, <2>2, <2>5, <2>7, <2>9, <2>10 DEF Counted
  <2>12. Sampled'
    BY <1>1, <1>2, <2>2, <2>4, SamplesStay
  <2> QED
    BY <1>1, <1>2, <1>5, <1>6, <2>2, <2>5, <2>6, <2>11, <2>12 DEF GimInv, GimTyped, watchVars
<1> QED
  BY <1>8, <1>9, <1>10, <1>11, <1>12 DEF Session

\* A step of t that keeps the library, its count and the samples.
LEMMA QuietStep ==
  ASSUME GimInv, NEW t \in GimThreads, NEW q, Go(t, q), ThreadOk(t, q), Fresh(q),
         q.pc \notin InMutex, threads[t].pc \notin InMutex,
         UNCHANGED <<lazy_init, lib, init_mutex, refcount, handles>>, UNCHANGED watchVars,
         spawned' \in BOOLEAN,
         t # "main" => Serving \/ q.job = "none", t = "main" => ~Serving,
         lazy_init => Opens(q) = Opens(threads[t]),
         t = "watcher" => q.job = threads[t].job,
         ~lazy_init /\ t = "main" => Fits(threads[t], q)
  PROVE  GimInv'
<1>1. /\ ThreadsOk /\ Counted /\ Persistent /\ Sampled /\ GimTyped
      /\ lazy_init \in BOOLEAN /\ refcount \in Nat
  BY DEF GimInv, GimTyped
<1>2. ThreadsOk'
  <2>1. Fresh(q)'
    BY DEF Fresh
  <2> QED
    BY <1>1, <2>1, ThreadsMove
<1>3. Counted'
  BY <1>1, <1>2, CountStays DEF InMutex
<1>4. Persistent'
  BY <1>1, HandlesStay
<1>5. Sampled'
  BY <1>1, SamplesStay
<1>6. GimTyped'
  BY <1>1 DEF GimTyped, watchVars
<1> QED
  BY <1>2, <1>3, <1>4, <1>5, <1>6 DEF GimInv

\* The steps inside a session, and the calls without one.
LEMMA CallSteps ==
  ASSUME GimInv, NEW t \in GimThreads,
         Discover(t) \/ Resolve(t) \/ TopoPeer(t) \/ Call(t)
  PROVE  GimInv'
<1> DEFINE p == threads[t]
<1>1. /\ ThreadsOk /\ Counted /\ Persistent /\ Sampled /\ GimTyped
      /\ lazy_init \in BOOLEAN /\ refcount \in Nat
      /\ lib.life \in 0 .. MaxLives /\ NoHandle \in 0 .. MaxLives
      /\ handles \in [GimGpus -> 0 .. MaxLives]
  BY GimAssumption DEF GimInv, GimTyped, NoHandle
<1>2. /\ p.pc \in {"discover", "resolve", "call"}
      /\ UNCHANGED <<lazy_init, lib, init_mutex, refcount, handles>> /\ UNCHANGED watchVars
  BY DEF Discover, Resolve, TopoPeer, Call
<1>3. /\ ThreadOk(t, p) /\ Fresh(p) /\ p.pc \notin InMutex /\ p \in ThreadRecords
      /\ p.job # "none" /\ (t # "main" => Serving) /\ (t = "main" => ~Serving)
      /\ t = "watcher" => p.job = "tick"
  BY <1>1, <1>2, ThreadFacts DEF ThreadOk, InMutex
<1>4. spawned' \in BOOLEAN
  BY <1>1 DEF GimInv, GimTyped, Discover, Resolve, TopoPeer, Call
<1>5. ASSUME Discover(t)
      PROVE  GimInv'
  <2>1. PICK found \in {NoHandle, lib.life} :
            /\ found # NoHandle => lib.live /\ found = lib.life
            /\ Go(t, End([p EXCEPT !.found = found]))
    BY <1>5 DEF Discover
  <2>2. PICK s : s = [p EXCEPT !.found = found]
    OBVIOUS
  <2>3. PICK q : q = End(s)
    OBVIOUS
  <2>4. /\ s \in ThreadRecords /\ s.pc = "discover" /\ s.found = found
        /\ s.job = p.job /\ s.peer = p.peer /\ s.todo = p.todo
    BY <1>1, <1>3, <1>5, <2>1, <2>2 DEF Discover, ThreadRecords
  <2>5. ThreadOk(t, s) /\ HoldsSession(s) /\ Opens(s) = Opens(p) /\ t = "main" /\ s.job \in {"discover", "create"}
    <3>1. p.pc = "discover"
      BY <1>5 DEF Discover
    <3>2. p.job \in {"discover", "create"}
      BY <1>3, <3>1 DEF ThreadOk, PcsOf
    <3>3. t = "main"
      BY <1>3, <3>2 DEF ThreadOk, JobsOf
    <3> QED
      BY <1>3, <2>4, <3>1, <3>2, <3>3 DEF ThreadOk, HoldsSession, Opens
  <2>6. /\ ThreadOk(t, q)
        /\ lazy_init => Opens(q) = Opens(s)
        /\ q.pc \notin InMutex /\ q.pc # "call"
        /\ ~lazy_init => KeepsOn(s, q)
    BY <1>1, <2>3, <2>5, EndsWell
  <2>7. ~lazy_init => Fits(p, q)
    BY <2>1, <2>4, <2>5, <2>6 DEF KeepsOn, Fits
  <2> QED
    BY <1>1, <1>2, <1>3, <1>4, <2>1, <2>2, <2>3, <2>5, <2>6, <2>7, QuietStep DEF Fresh
<1>6. ASSUME Go(t, End(p)), HoldsSession(p), p.pc # "discover"
      PROVE  GimInv'
  <2>1. PICK q : q = End(p)
    OBVIOUS
  <2>2. /\ ThreadOk(t, q)
        /\ lazy_init => Opens(q) = Opens(p)
        /\ q.pc \notin InMutex
        /\ t = "watcher" => q.job = p.job
        /\ ~lazy_init => KeepsOn(p, q)
        /\ q.pc = "call" => ~lazy_init /\ q.handle = p.found /\ q.peer = NoHandle /\ p.job = "immutable"
    BY <1>1, <1>3, <1>6, <2>1, EndsWell
  <2>3. p.job \notin {"create", "serve"}
    BY <1>2, <1>3, <1>6 DEF ThreadOk, PcsOf
  <2>4. ~lazy_init => Fits(p, q)
    BY <2>2, <2>3 DEF KeepsOn, Fits
  <2>5. Fresh(q)
    <3>1. ASSUME q.pc = "call"
          PROVE  q.handle = lib.life /\ q.peer = NoHandle
      <4>1. t = "main"
        BY <1>3, <2>2, <3>1 DEF ThreadOk, JobsOf
      <4> QED
        BY <1>1, <2>2, <3>1, <4>1 DEF Persistent
    <3> QED
      BY <3>1 DEF Fresh
  <2> QED
    BY <1>1, <1>2, <1>3, <1>4, <1>6, <2>1, <2>2, <2>4, <2>5, QuietStep
<1>7. ASSUME Resolve(t)
      PROVE  GimInv'
  <2>1. p.pc = "resolve" /\ p.job \in CallJobs /\ lazy_init
    BY <1>3, <1>7 DEF Resolve, ThreadOk, PcsOf, CallJobs
  <2>2. CASE Go(t, [p EXCEPT !.pc = "call", !.handle = lib.life])
    <3>1. PICK q : q = [p EXCEPT !.pc = "call", !.handle = lib.life]
      OBVIOUS
    <3>2. /\ q \in ThreadRecords /\ q.pc = "call" /\ q.job = p.job /\ q.peer = p.peer
          /\ q.handle = lib.life
      BY <1>1, <1>3, <3>1 DEF ThreadRecords, Pcs
    <3>3. q.peer = NoHandle
      BY <1>3, <2>1, <3>2 DEF ThreadOk
    <3>4. ThreadOk(t, q)
      BY <1>3, <2>1, <3>2, <3>3 DEF ThreadOk, PcsOf, CallJobs
    <3>5. Opens(q) = Opens(p) /\ Fresh(q)
      BY <2>1, <3>2, <3>3 DEF Opens, HoldsSession, CallJobs, Fresh
    <3> QED
      BY <1>1, <1>2, <1>3, <1>4, <2>1, <2>2, <3>1, <3>2, <3>4, <3>5, QuietStep DEF InMutex
  <2>3. CASE Go(t, End(p))
    BY <1>6, <2>1, <2>3 DEF HoldsSession, CallJobs
  <2> QED
    BY <1>7, <2>2, <2>3 DEF Resolve
<1>8. ASSUME TopoPeer(t)
      PROVE  GimInv'
  <2>1. PICK h : /\ Go(t, [p EXCEPT !.peer = h])
                 /\ h = lib.life \/ (~lazy_init /\ \E g \in GimGpus : h = handles[g])
    BY <1>8 DEF TopoPeer
  <2>2. p.job = "topology" /\ p.pc = "call" /\ t # "main" /\ t # "watcher" /\ Serving
    BY <1>3, <1>8 DEF TopoPeer, ThreadOk, JobsOf
  <2>3. h = lib.life
    BY <1>1, <2>1, <2>2 DEF Persistent, Serving
  <2>4. PICK q : q = [p EXCEPT !.peer = h]
    OBVIOUS
  <2>5. /\ q \in ThreadRecords /\ q.pc = "call" /\ q.job = "topology" /\ q.peer = lib.life
        /\ q.handle = p.handle
    BY <1>1, <1>3, <2>2, <2>3, <2>4 DEF ThreadRecords
  <2>6. ThreadOk(t, q)
    BY <1>3, <2>2, <2>5 DEF ThreadOk
  <2>7. Opens(q) = Opens(p) /\ Fresh(q)
    BY <1>3, <2>2, <2>5 DEF Opens, HoldsSession, Fresh
  <2> QED
    BY <1>1, <1>2, <1>3, <1>4, <2>1, <2>2, <2>4, <2>5, <2>6, <2>7, QuietStep DEF InMutex
<1>9. ASSUME Call(t)
      PROVE  GimInv'
  <2>1. p.pc = "call"
    BY <1>9 DEF Call
  <2>2. CASE p.job = "badpage"
    <3>1. PICK q : q = Idle
      OBVIOUS
    <3>2. Go(t, q)
      BY <1>9, <2>2, <3>1 DEF Call
    <3>3. t # "main" /\ t # "watcher"
      BY <1>3, <2>2 DEF ThreadOk, JobsOf
    <3>4. q \in ThreadRecords /\ q.job = "none" /\ q.pc = "idle" /\ q.peer = NoHandle
      BY <1>1, <3>1 DEF Idle, ThreadRecords, Jobs, Pcs
    <3>5. ThreadOk(t, q) /\ Opens(q) = 0 /\ Opens(p) = 0 /\ Fresh(q)
      BY <2>2, <3>1, <3>3, <3>4 DEF ThreadOk, JobsOf, PcsOf, InMutex, Opens, HoldsSession, Fresh
    <3> QED
      BY <1>1, <1>2, <1>3, <1>4, <3>2, <3>3, <3>4, <3>5, QuietStep DEF InMutex
  <2>3. CASE p.job # "badpage"
    BY <1>6, <1>9, <2>1, <2>3 DEF Call, HoldsSession
  <2> QED
    BY <2>2, <2>3
<1> QED
  BY <1>5, <1>7, <1>8, <1>9

\* The steps that start a session, or a call without one.
LEMMA StartSteps ==
  ASSUME GimInv, StartInit \/ AddGpu \/ \E r \in GimRequests : StartRequest(r) \/ StartBadPages(r)
  PROVE  GimInv'
<1>1. /\ ThreadsOk /\ Counted /\ Persistent /\ Sampled /\ GimTyped
      /\ lazy_init \in BOOLEAN /\ refcount \in Nat
      /\ lib.life \in 0 .. MaxLives /\ NoHandle \in 0 .. MaxLives
      /\ handles \in [GimGpus -> 0 .. MaxLives]
      /\ "main" \in GimThreads /\ \A r \in GimRequests : r \in GimThreads /\ r # "main" /\ r # "watcher"
      /\ NoThread \notin GimThreads
  BY GimAssumption DEF GimInv, GimTyped, NoHandle, GimThreads, NoThread
<1>2. UNCHANGED <<lazy_init, init_mutex, refcount, spawned>> /\ UNCHANGED watchVars /\ spawned' \in BOOLEAN
  BY <1>1 DEF StartInit, AddGpu, StartRequest, StartBadPages, GimTyped
<1>3. ThreadOk("main", threads["main"]) /\ threads["main"] \in ThreadRecords
  BY <1>1 DEF ThreadsOk, ThreadOk
<1>4. ASSUME StartInit
      PROVE  GimInv'
  <2> DEFINE p == threads["main"]
  <2>1. p.job = "init" /\ p.pc = "idle" /\ p.peer = NoHandle /\ ~Serving /\ UNCHANGED handles
    BY <1>3, <1>4 DEF StartInit, ThreadOk, Serving
  <2>2. CASE lazy_init /\ Go("main", [p EXCEPT !.pc = "lock"]) /\ UNCHANGED lib
    <3>1. PICK q : q = [p EXCEPT !.pc = "lock"]
      OBVIOUS
    <3>2. q \in ThreadRecords /\ q.pc = "lock" /\ q.job = "init" /\ q.peer = NoHandle
      BY <1>3, <2>1, <3>1 DEF ThreadRecords, Pcs
    <3>3. ThreadOk("main", q) /\ Opens(q) = Opens(p) /\ Fresh(q)
      BY <2>1, <2>2, <3>2 DEF ThreadOk, PcsOf, JobsOf, Opens, HoldsSession, Fresh
    <3> QED
      BY <1>1, <1>2, <2>1, <2>2, <3>1, <3>2, <3>3, QuietStep DEF InMutex
  <2>3. CASE ~lazy_init /\ \E job \in {"discover", "create"} :
                 Go("main", Begin([p EXCEPT !.job = job]))
    <3>1. PICK job \in {"discover", "create"} : Go("main", Begin([p EXCEPT !.job = job]))
      BY <2>3
    <3>2. PICK s : s = [p EXCEPT !.job = job]
      OBVIOUS
    <3>3. PICK q : q = Begin(s)
      OBVIOUS
    <3>4. s \in ThreadRecords /\ s.job = job /\ s.peer = NoHandle
      BY <1>3, <2>1, <3>2 DEF ThreadRecords, Jobs
    <3>5. ThreadOk("main", q) /\ q.job = job /\ q.pc \in {"discover", "walk", "call"} /\ q.pc # "call"
      BY <1>1, <2>3, <3>3, <3>4, BeginsWell DEF JobsOf, SessionJobs, CallJobs
    <3>6. Go("main", q)
      BY <3>1, <3>2, <3>3
    <3>7. \A u \in GimThreads : ~HoldsSession(threads[u])
      BY <1>1, <2>1 DEF ThreadsOk, Serving, HoldsSession, ThreadOk, Idle
    <3>8. ThreadsOk'
      BY <1>1, <1>2, <2>1, <3>5, <3>6, <3>7, ThreadsMove DEF InMutex, Fresh
    <3>9. Counted'
      BY <1>2, <2>3 DEF Counted
    <3>10. threads'["main"].job = job
      BY <1>1, <3>5, <3>6, ThreadMovesTo DEF ThreadOk
    <3>11. Persistent'
      BY <3>10 DEF Persistent
    <3>12. Sampled'
      BY <1>1, <1>2, <3>5, <3>6, SamplesStay
    <3>13. lib' \in [live : BOOLEAN, life : 0 .. MaxLives, refused : BOOLEAN]
      <4>1. CASE UNCHANGED lib
        BY <1>1, <4>1 DEF GimTyped
      <4>2. CASE amdsmi_init
        <5>1. PICK life \in {lib.life + 1, lib.life} :
                  life <= MaxLives /\ lib' = [lib EXCEPT !.live = TRUE, !.life = life]
          BY <4>2 DEF amdsmi_init
        <5>2. /\ lib \in [live : BOOLEAN, life : 0 .. MaxLives, refused : BOOLEAN]
              /\ life \in 0 .. MaxLives
          BY <1>1, <5>1, GimAssumption DEF GimTyped
        <5> QED
          BY <5>1, <5>2
      <4> QED
        BY <1>4, <4>1, <4>2 DEF StartInit
    <3> QED
      BY <1>1, <1>2, <2>1, <3>8, <3>9, <3>11, <3>12, <3>13 DEF GimInv, GimTyped, watchVars
  <2>4. Refused(p) = Begin([p EXCEPT !.job = "create"])
    BY <2>1 DEF Refused
  <2> QED
    BY <1>4, <2>2, <2>3, <2>4 DEF StartInit
<1>5. ASSUME AddGpu
      PROVE  GimInv'
  <2> DEFINE p == threads["main"]
  <2>1. p.job = "add" /\ p.pc = "idle" /\ p.peer = NoHandle /\ ~Serving /\ UNCHANGED lib
        /\ p.found \in 0 .. MaxLives
    BY <1>3, <1>5 DEF AddGpu, ThreadOk, PcsOf, Serving, ThreadRecords
  <2>2. CASE \E g \in p.todo :
                 /\ handles' = [handles EXCEPT ![g] = p.found]
                 /\ Go("main", Begin([p EXCEPT !.job = "immutable", !.todo = @ \ {g},
                                               !.handle = p.found]))
    <3>1. PICK g \in p.todo :
              /\ handles' = [handles EXCEPT ![g] = p.found]
              /\ Go("main", Begin([p EXCEPT !.job = "immutable", !.todo = @ \ {g},
                                            !.handle = p.found]))
      BY <2>2
    <3>2. PICK s : s = [p EXCEPT !.job = "immutable", !.todo = @ \ {g}, !.handle = p.found]
      OBVIOUS
    <3>3. PICK q : q = Begin(s)
      OBVIOUS
    <3>4. /\ s \in ThreadRecords /\ s.job = "immutable" /\ s.peer = NoHandle
          /\ s.found = p.found /\ s.handle = p.found /\ s.todo = p.todo \ {g}
      BY <1>3, <2>1, <3>2 DEF ThreadRecords, Jobs
    <3>5. /\ ThreadOk("main", q) /\ q.job = "immutable"
          /\ q.found = p.found /\ q.handle = p.found /\ q.todo = p.todo \ {g}
          /\ q.pc \notin InMutex
          /\ q.pc = "call" => ~lazy_init
          /\ lazy_init => Opens(q) = 0
          /\ q.peer = NoHandle
      <4>1. /\ ThreadOk("main", q) /\ q.job = s.job /\ q.todo = s.todo /\ q.handle = s.handle /\ q.found = s.found
            /\ lazy_init => q.pc = "lock"
            /\ ~lazy_init => q.pc \in {"discover", "walk", "call"}
            /\ q.pc = "call" => ~lazy_init
        BY <1>1, <3>3, <3>4, BeginsWell DEF JobsOf, SessionJobs
      <4> QED
        BY <3>4, <4>1 DEF InMutex, Opens, HoldsSession, ThreadOk
    <3>6. Go("main", q) /\ Opens(p) = 0
      BY <2>1, <3>1, <3>2, <3>3 DEF Opens, HoldsSession
    <3>7. ~lazy_init => lib.live /\ p.found = lib.life
      BY <1>1, <2>1 DEF Persistent
    <3>8. ThreadsOk'
      <4>1. Fresh(q)'
        BY <2>1, <3>5, <3>7 DEF Fresh
      <4> QED
        BY <1>1, <1>2, <1>3, <2>1, <3>5, <3>6, <4>1, ThreadsMove DEF InMutex
    <3>9. Counted'
      BY <1>1, <1>2, <2>1, <3>5, <3>6, <3>8, CountStays DEF InMutex
    <3>10. threads'["main"] = q
      BY <1>1, <3>5, <3>6, ThreadMovesTo DEF ThreadOk
    <3>11. Persistent'
      BY <1>1, <1>2, <2>1, <3>1, <3>5, <3>7, <3>10 DEF Persistent
    <3>12. Sampled'
      BY <1>1, <1>2, <3>5, <3>6, SamplesStay
    <3>13. handles' \in [GimGpus -> 0 .. MaxLives]
      BY <1>1, <2>1, <3>1
    <3> QED
      BY <1>1, <1>2, <2>1, <3>8, <3>9, <3>11, <3>12, <3>13 DEF GimInv, GimTyped, watchVars
  <2>3. CASE p.todo = {} /\ Go("main", [p EXCEPT !.job = "serve"]) /\ UNCHANGED handles
    <3>1. PICK q : q = [p EXCEPT !.job = "serve"]
      OBVIOUS
    <3>2. /\ q \in ThreadRecords /\ q.pc = "idle" /\ q.job = "serve" /\ q.peer = NoHandle
          /\ q.todo = {} /\ q.found = p.found
      BY <1>3, <2>1, <2>3, <3>1 DEF ThreadRecords, Jobs
    <3>3. ThreadOk("main", q) /\ Opens(q) = Opens(p)
      BY <2>1, <3>2 DEF ThreadOk, PcsOf, JobsOf, InMutex, Opens, HoldsSession
    <3>4. ThreadsOk'
      <4>1. Fresh(q)'
        BY <3>2 DEF Fresh
      <4> QED
        BY <1>1, <1>2, <2>1, <2>3, <3>1, <3>2, <3>3, <4>1, ThreadsMove DEF InMutex
    <3>5. Counted'
      BY <1>1, <1>2, <2>1, <2>3, <3>1, <3>2, <3>3, <3>4, CountStays
    <3>6. threads'["main"] = q
      BY <1>1, <2>3, <3>1, <3>2, ThreadMovesTo
    <3>7. Persistent'
      BY <1>1, <1>2, <2>1, <2>3, <3>2, <3>6 DEF Persistent
    <3>8. Sampled'
      BY <1>1, <1>2, <2>3, <3>1, <3>3, SamplesStay
    <3> QED
      BY <1>1, <1>2, <2>1, <2>3, <3>4, <3>5, <3>7, <3>8 DEF GimInv, GimTyped, watchVars
  <2> QED
    BY <1>5, <2>2, <2>3 DEF AddGpu
<1>6. ASSUME NEW r \in GimRequests, StartRequest(r)
      PROVE  GimInv'
  <2>1. PICK job \in {"request", "topology"}, g \in GimGpus :
            Go(r, Begin([Idle EXCEPT !.job = job, !.handle = handles[g]]))
    BY <1>6 DEF StartRequest
  <2>2. Serving /\ threads[r] = Idle /\ UNCHANGED <<lib, handles>>
    BY <1>6 DEF StartRequest
  <2>3. PICK s : s = [Idle EXCEPT !.job = job, !.handle = handles[g]]
    OBVIOUS
  <2>4. PICK q : q = Begin(s)
    OBVIOUS
  <2>5. s \in ThreadRecords /\ s.job = job /\ s.peer = NoHandle /\ s.handle = handles[g]
    BY <1>1, <2>3 DEF Idle, ThreadRecords, Jobs, Pcs
  <2>6. /\ ThreadOk(r, q) /\ q.job = job /\ q.handle = handles[g]
        /\ lazy_init => q.pc = "lock"
        /\ ~lazy_init => q.pc \in {"discover", "walk", "call"}
        /\ q.pc = "call" => ~lazy_init
    BY <1>1, <2>4, <2>5, BeginsWell DEF JobsOf, SessionJobs
  <2>7. q.peer = NoHandle
    BY <2>3, <2>4 DEF Begin, Opened, Idle
  <2>8. ~lazy_init => handles[g] = lib.life
    BY <1>1, <2>2 DEF Persistent, Serving
  <2>9. Fresh(q)
    BY <2>6, <2>7, <2>8 DEF Fresh
  <2>10. lazy_init => Opens(q) = Opens(threads[r])
    BY <2>2, <2>6 DEF Opens, HoldsSession, Idle
  <2> QED
    BY <1>1, <1>2, <1>6, <2>1, <2>2, <2>3, <2>4, <2>6, <2>9, <2>10, QuietStep DEF InMutex, Idle
<1>7. ASSUME NEW r \in GimRequests, StartBadPages(r)
      PROVE  GimInv'
  <2>1. PICK g \in GimGpus : Go(r, [Idle EXCEPT !.job = "badpage", !.pc = "call", !.handle = handles[g]])
    BY <1>7 DEF StartBadPages
  <2>2. Serving /\ threads[r] = Idle /\ UNCHANGED <<lib, handles>>
    BY <1>7 DEF StartBadPages
  <2>3. PICK q : q = [Idle EXCEPT !.job = "badpage", !.pc = "call", !.handle = handles[g]]
    OBVIOUS
  <2>4. q \in ThreadRecords /\ q.job = "badpage" /\ q.pc = "call" /\ q.peer = NoHandle
    BY <1>1, <2>3 DEF Idle, ThreadRecords, Jobs, Pcs
  <2>5. ThreadOk(r, q) /\ Fresh(q) /\ Opens(q) = Opens(threads[r])
    BY <1>1, <2>2, <2>4 DEF ThreadOk, JobsOf, PcsOf, InMutex, Fresh, HoldsSession, Opens, Idle
  <2> QED
    <3>1. Go(r, q)
      BY <2>1, <2>3
    <3>2. threads[r].pc = "idle"
      BY <2>2 DEF Idle
    <3>3. r \in GimThreads /\ r # "main" /\ r # "watcher"
      BY <1>1
    <3> QED
      BY <1>2, <2>2, <2>4, <2>5, <3>1, <3>2, <3>3, QuietStep DEF InMutex
<1> QED
  BY <1>4, <1>5, <1>6, <1>7

\* The steps of the watcher outside its session.
LEMMA WatchSteps ==
  ASSUME GimInv, StartTick \/ EndWalk \/ PostSample \/ \E g \in GimGpus : WalkGpu(g)
  PROVE  GimInv'
<1> DEFINE p == threads["watcher"]
           Sampling(g, faulty, v) ==
               /\ slow_cache' = [slow_cache EXCEPT ![g] = v]
               /\ sample' = [sample EXCEPT !.db[g] = v, !.reached = @ \union {g}]
               /\ missed' = IF ~sample.priming THEN missed
                            ELSE [block |-> IF faulty THEN missed.block ELSE missed.block \ {g},
                                  total |-> missed.total \ {g}]
<1>1. /\ ThreadsOk /\ Counted /\ Persistent /\ Sampled /\ GimTyped
      /\ lazy_init \in BOOLEAN /\ refcount \in Nat
      /\ NoHandle \in 0 .. MaxLives /\ "watcher" \in GimThreads
      /\ slow_cache \in [GimGpus -> Readings]
      /\ sample \in [db : [GimGpus -> Readings], refresh : BOOLEAN,
                     priming : BOOLEAN, reached : SUBSET GimGpus]
      /\ slow_primed \in BOOLEAN
      /\ missed \in [block : SUBSET GimGpus, total : SUBSET GimGpus]
  BY GimAssumption DEF GimInv, GimTyped, NoHandle, GimThreads
<1>2. UNCHANGED <<lazy_init, lib, init_mutex, refcount, handles, spawned>>
  BY DEF StartTick, EndWalk, PostSample, WalkGpu, watchVars
<1>3. ThreadOk("watcher", p) /\ p \in ThreadRecords
  BY <1>1 DEF ThreadsOk, ThreadOk
<1>4. ASSUME NEW q, Go("watcher", q), ThreadOk("watcher", q), q.pc \notin InMutex, q.pc # "call",
             p.pc \notin InMutex, Serving \/ q.job = "none",
             lazy_init => Opens(q) = Opens(p)
      PROVE  ThreadsOk' /\ Counted' /\ Persistent' /\ threads'["watcher"] = q
  <2>1. ThreadsOk'
    <3>1. Fresh(q)'
      BY <1>4 DEF Fresh
    <3> QED
      BY <1>1, <1>2, <1>4, <3>1, ThreadsMove
  <2>2. Counted'
    BY <1>1, <1>2, <1>4, <2>1, CountStays DEF InMutex
  <2>3. Persistent'
    BY <1>1, <1>2, <1>4, HandlesStay
  <2>4. threads'["watcher"] = q
    BY <1>1, <1>4, ThreadMovesTo DEF ThreadOk
  <2> QED
    BY <2>1, <2>2, <2>3, <2>4
<1>5. NoSample \in [db : [GimGpus -> Readings], refresh : BOOLEAN,
                    priming : BOOLEAN, reached : SUBSET GimGpus]
  BY DEF NoSample, Zeros, Readings
<1>6. ASSUME StartTick
      PROVE  GimInv'
  <2>1. PICK s : s = [Idle EXCEPT !.job = "tick", !.todo = GimGpus]
    OBVIOUS
  <2>2. PICK q : q = Begin(s)
    OBVIOUS
  <2>3. s \in ThreadRecords /\ s.job = "tick" /\ s.peer = NoHandle
    BY <1>1, <2>1 DEF Idle, ThreadRecords, Jobs, Pcs
  <2>4. /\ ThreadOk("watcher", q) /\ q.job = "tick"
        /\ lazy_init => q.pc = "lock"
        /\ ~lazy_init => q.pc \in {"discover", "walk", "call"}
        /\ q.pc # "call"
    BY <1>1, <2>2, <2>3, BeginsWell DEF JobsOf, SessionJobs, CallJobs
  <2>5. Go("watcher", q) /\ Serving /\ p = Idle /\ UNCHANGED <<slow_cache, missed>>
        /\ slow_primed' = TRUE
    BY <1>6, <2>1, <2>2 DEF StartTick
  <2>6. lazy_init => Opens(q) = Opens(p)
    BY <2>4, <2>5 DEF Opens, HoldsSession, Idle
  <2>7. ThreadsOk' /\ Counted' /\ Persistent' /\ threads'["watcher"] = q
    BY <1>4, <2>4, <2>5, <2>6 DEF InMutex, Idle
  <2>8. PICK slow_due \in BOOLEAN :
            sample' = [NoSample EXCEPT !.refresh = slow_due \/ ~slow_primed, !.priming = ~slow_primed]
    BY <1>6 DEF StartTick
  <2>9. /\ sample'.priming = ~slow_primed /\ sample'.reached = {}
        /\ ~slow_primed => sample'.refresh
        /\ sample' \in [db : [GimGpus -> Readings], refresh : BOOLEAN,
                        priming : BOOLEAN, reached : SUBSET GimGpus]
    BY <1>1, <1>5, <2>8 DEF NoSample
  <2>10. Sampled'
    BY <1>1, <2>5, <2>9 DEF Sampled, OnlyMissedIsZero
  <2> QED
    BY <1>1, <1>2, <2>5, <2>7, <2>9, <2>10 DEF GimInv, GimTyped
<1>7. ASSUME NEW g \in GimGpus, WalkGpu(g)
      PROVE  GimInv'
  <2>1. PICK q : q = [p EXCEPT !.todo = @ \ {g}]
    OBVIOUS
  <2>2. p.pc = "walk" /\ Go("watcher", q) /\ UNCHANGED slow_primed
    BY <1>7, <2>1 DEF WalkGpu
  <2>3. q \in ThreadRecords /\ q.pc = "walk" /\ q.job = p.job /\ q.peer = p.peer
    BY <1>3, <2>1, <2>2 DEF ThreadRecords
  <2>4. p.job = "tick" /\ Serving
    BY <1>1, <2>2, ThreadFacts
  <2>5. ThreadOk("watcher", q) /\ Opens(q) = Opens(p)
    BY <1>3, <2>2, <2>3, <2>4 DEF ThreadOk, Opens, HoldsSession
  <2>6. ThreadsOk' /\ Counted' /\ Persistent' /\ threads'["watcher"] = q
    BY <1>4, <2>2, <2>3, <2>4, <2>5 DEF InMutex
  <2>7. CASE UNCHANGED <<slow_cache, sample, missed>>
    <3>1. Sampled'
      BY <1>1, <2>7 DEF Sampled, OnlyMissedIsZero
    <3> QED
      BY <1>1, <1>2, <2>2, <2>6, <2>7, <3>1 DEF GimInv, GimTyped
  <2>8. CASE \E faulty \in BOOLEAN : \E v \in SlowFields(g, faulty) : Sampling(g, faulty, v)
    <3>1. PICK faulty \in BOOLEAN : \E v \in SlowFields(g, faulty) : Sampling(g, faulty, v)
      BY <2>8
    <3>2. PICK v \in SlowFields(g, faulty) : Sampling(g, faulty, v)
      BY <3>1
    <3>3. /\ v \in Readings
          /\ v.block = "zero" => slow_cache[g].block = "zero"
          /\ v.total = "zero" => slow_cache[g].total = "zero"
          /\ sample.refresh => v.total # "zero"
          /\ sample.refresh /\ ~faulty => v.block # "zero"
      BY <1>1, <3>2 DEF SlowFields, Readings
    <3>4. /\ sample'.priming = sample.priming /\ sample'.refresh = sample.refresh
          /\ sample'.reached = sample.reached \union {g}
          /\ sample'.db[g] = v
          /\ \A h \in GimGpus \ {g} : sample'.db[h] = sample.db[h]
          /\ sample' \in [db : [GimGpus -> Readings], refresh : BOOLEAN,
                          priming : BOOLEAN, reached : SUBSET GimGpus]
      BY <1>1, <3>2, <3>3 DEF Sampling
    <3>5. /\ slow_cache' \in [GimGpus -> Readings]
          /\ slow_cache'[g] = v /\ \A h \in GimGpus \ {g} : slow_cache'[h] = slow_cache[h]
      BY <1>1, <3>2, <3>3 DEF Sampling
    <3>6. /\ missed' \in [block : SUBSET GimGpus, total : SUBSET GimGpus]
          /\ \A h \in GimGpus \ {g} :
                /\ h \in missed.block => h \in missed'.block
                /\ h \in missed.total => h \in missed'.total
          /\ faulty \/ ~sample.priming => (g \in missed.block => g \in missed'.block)
          /\ ~sample.priming => (g \in missed.total => g \in missed'.total)
      BY <1>1, <3>2 DEF Sampling
    <3>7. /\ sample.priming => sample.refresh
          /\ sample.reached \subseteq GimGpus
          /\ \A h \in sample.reached : OnlyMissedIsZero(h, sample.db[h])
          /\ \A h \in GimGpus : OnlyMissedIsZero(h, slow_cache[h])
      BY <1>1 DEF Sampled
    <3>8. OnlyMissedIsZero(g, v)'
      BY <3>3, <3>6, <3>7 DEF OnlyMissedIsZero
    <3>9. ASSUME NEW h \in GimGpus \ {g}, NEW w, OnlyMissedIsZero(h, w)
          PROVE  OnlyMissedIsZero(h, w)'
      BY <3>6, <3>9 DEF OnlyMissedIsZero
    <3>10. Sampled'
      <4>1. ASSUME NEW h \in sample'.reached
            PROVE  OnlyMissedIsZero(h, sample.db[h])'
        <5>1. CASE h = g
          BY <3>4, <3>8, <5>1
        <5>2. CASE h # g
          BY <3>4, <3>7, <3>9, <4>1, <5>2
        <5> QED
          BY <5>1, <5>2
      <4>2. ASSUME NEW h \in GimGpus
            PROVE  OnlyMissedIsZero(h, slow_cache[h])'
        <5>1. CASE h = g
          BY <3>5, <3>8, <5>1
        <5>2. CASE h # g
          BY <3>5, <3>7, <3>9, <4>2, <5>2
        <5> QED
          BY <5>1, <5>2
      <4> QED
        BY <3>4, <3>7, <4>1, <4>2 DEF Sampled
    <3> QED
      BY <1>1, <1>2, <2>2, <2>6, <3>4, <3>5, <3>6, <3>10 DEF GimInv, GimTyped
  <2> QED
    BY <1>7, <2>7, <2>8 DEF WalkGpu, Sampling
<1>8. ASSUME EndWalk
      PROVE  GimInv'
  <2>1. PICK q : q = End(p)
    OBVIOUS
  <2>2. p.pc = "walk" /\ Go("watcher", q) /\ UNCHANGED watchVars
    BY <1>8, <2>1 DEF EndWalk
  <2>3. p.job = "tick" /\ Serving
    BY <1>1, <2>2, ThreadFacts
  <2>4. /\ ThreadOk("watcher", q) /\ q.pc \notin InMutex /\ q.pc # "call" /\ q.job = "tick"
        /\ lazy_init => Opens(q) = Opens(p)
    BY <1>1, <1>3, <2>1, <2>2, <2>3, EndsWell DEF HoldsSession
  <2>5. ThreadsOk' /\ Counted' /\ Persistent' /\ threads'["watcher"] = q
    BY <1>4, <2>2, <2>3, <2>4 DEF InMutex
  <2>6. Sampled'
    BY <1>1, <2>2, <2>3, <2>4, SamplesStay
  <2> QED
    BY <1>1, <1>2, <2>2, <2>5, <2>6 DEF GimInv, GimTyped, watchVars
<1>9. ASSUME PostSample
      PROVE  GimInv'
  <2>1. PICK q : q = Idle
    OBVIOUS
  <2>2. p.pc = "post" /\ Go("watcher", q) /\ UNCHANGED <<slow_primed, slow_cache, missed>>
        /\ sample' = NoSample
    BY <1>9, <2>1 DEF PostSample
  <2>3. q \in ThreadRecords /\ q.job = "none" /\ q.pc = "idle" /\ q.peer = NoHandle
    BY <1>1, <2>1 DEF Idle, ThreadRecords, Jobs, Pcs
  <2>4. p.job = "tick"
    BY <1>1, <2>2, ThreadFacts
  <2>5. ThreadOk("watcher", q) /\ Opens(q) = 0 /\ Opens(p) = 0
    BY <2>1, <2>2, <2>3, <2>4 DEF ThreadOk, JobsOf, PcsOf, InMutex, Opens, HoldsSession
  <2>6. ThreadsOk' /\ Counted' /\ Persistent' /\ threads'["watcher"] = q
    BY <1>4, <2>2, <2>3, <2>5 DEF InMutex
  <2>7. Sampled'
    BY <1>1, <2>2 DEF Sampled, NoSample, OnlyMissedIsZero
  <2> QED
    BY <1>1, <1>2, <1>5, <2>2, <2>6, <2>7 DEF GimInv, GimTyped
<1> QED
  BY <1>6, <1>7, <1>8, <1>9

LEMMA GimStep ==
  ASSUME GimInv, [GimNext]_gimVars
  PROVE  GimInv'
<1>1. CASE UNCHANGED gimVars
  <2>1. /\ UNCHANGED <<lazy_init, lib, init_mutex, refcount, handles, spawned, threads>>
        /\ UNCHANGED <<slow_primed, slow_cache, sample, missed>>
    BY <1>1 DEF gimVars, watchVars
  <2>2. GimTyped' /\ Persistent' /\ Sampled'
    BY <2>1 DEF GimInv, GimTyped, Persistent, Sampled, OnlyMissedIsZero
  <2>3. OpenSessions' = OpenSessions
    BY <2>1 DEF OpenSessions, InSession
  <2>4. Counted'
    BY <2>1, <2>3 DEF GimInv, Counted
  <2>5. ThreadsOk'
    BY <2>1 DEF GimInv, ThreadsOk, ThreadOk, Fresh, Serving
  <2> QED
    BY <2>2, <2>4, <2>5 DEF GimInv
<1>2. CASE GimNext
  BY <1>2, StartSteps, SessionSteps, CallSteps, WatchSteps DEF GimNext
<1> QED
  BY <1>1, <1>2

LEMMA GimStarts ==
  ASSUME GimInit
  PROVE  GimInv
<1>1. NoHandle \in 0 .. MaxLives /\ NoThread \notin GimThreads /\ "main" \in GimThreads /\ "watcher" \in GimThreads
  BY GimAssumption DEF NoHandle, NoThread, GimThreads
<1>2. /\ threads["main"] = [Idle EXCEPT !.job = "init"]
      /\ \A t \in GimThreads \ {"main"} : threads[t] = Idle
  BY <1>1 DEF GimInit
<1>3. Idle \in ThreadRecords /\ threads["main"] \in ThreadRecords
  BY <1>1, <1>2 DEF Idle, ThreadRecords, Jobs, Pcs
<1>4. threads \in [GimThreads -> ThreadRecords]
  BY <1>3 DEF GimInit
<1>5. /\ threads["main"].job = "init"
      /\ \A t \in GimThreads : threads[t].pc = "idle" /\ threads[t].peer = NoHandle
      /\ \A t \in GimThreads \ {"main"} : threads[t].job = "none"
  BY <1>2 DEF Idle
<1>6. ThreadsOk
  BY <1>1, <1>2, <1>3, <1>4, <1>5
     DEF GimInit, ThreadsOk, ThreadOk, Fresh, HoldsSession, JobsOf, PcsOf, InMutex
<1>7. \A t \in GimThreads : ~InSession(t)
  BY <1>5 DEF InSession
<1>8. OpenSessions = 0
  <2>1. {t \in GimThreads : InSession(t)} = {}
    BY <1>7
  <2> QED
    BY <1>5, <2>1, FS_EmptySet DEF OpenSessions
<1>9. Counted
  BY <1>5, <1>8 DEF GimInit, Counted
<1>10. Persistent
  BY <1>5 DEF Persistent
<1>11. Sampled
  BY <1>1, <1>5 DEF GimInit, Sampled, NoSample, Zeros, OnlyMissedIsZero
<1>12. GimTyped
  <2>1. lib \in [live : BOOLEAN, life : 0 .. MaxLives, refused : BOOLEAN]
    BY <1>1 DEF GimInit, NoHandle
  <2>2. NoSample \in [db : [GimGpus -> Readings], refresh : BOOLEAN,
                      priming : BOOLEAN, reached : SUBSET GimGpus]
    BY DEF NoSample, Zeros, Readings
  <2> QED
    BY <1>1, <2>1, <2>2 DEF GimInit, GimTyped, Zeros, Readings
<1> QED
  BY <1>6, <1>9, <1>10, <1>11, <1>12 DEF GimInv

\* The sessions, the library and the samples of the watcher.
THEOREM GimInvariant == GimSpec => []GimInv
<1>1. GimInit => GimInv
  BY GimStarts
<1>2. GimInv /\ [GimNext]_gimVars => GimInv'
  BY GimStep
<1> QED
  BY <1>1, <1>2, PTL DEF GimSpec

\* The state of the gim back end has the types its declarations say.
THEOREM GimTypeCorrect == GimSpec => []GimTypeOK
<1>1. GimInv => GimTypeOK
  BY DEF GimInv, GimTyped, ThreadsOk, ThreadRecords, GimTypeOK
<1> QED
  BY <1>1, GimInvariant, PTL

\* What AGA_SMI_SESSION_GUARD promises (smi_session.cc), for any threads,
\* GPUs and failing calls.
THEOREM SessionsAreSound == GimSpec => []SessionsSound
<1>1. ASSUME GimInv
      PROVE  SessionsSound
  <2>1. /\ ThreadsOk /\ Counted /\ Persistent /\ lazy_init \in BOOLEAN /\ refcount \in Nat
        /\ NoThread \notin GimThreads
    BY <1>1, GimAssumption DEF GimInv, GimTyped, GimThreads, NoThread
  <2>2. RefcountTellsLibrary
    <3>1. ASSUME init_mutex = NoThread
          PROVE  \A t \in GimThreads : threads[t].pc \notin {"count", "down"}
      BY <2>1, <3>1 DEF ThreadsOk, InMutex
    <3> QED
      BY <2>1, <3>1 DEF RefcountTellsLibrary, Counted
  <2>3. ASSUME NEW t \in GimThreads, InSession(t), threads[t].pc = "call"
        PROVE  lib.live /\ threads[t].handle = lib.life /\ threads[t].peer \in {NoHandle, lib.life}
    <3>1. HoldsSession(threads[t]) /\ Fresh(threads[t]) /\ ThreadOk(t, threads[t])
      BY <2>1, <2>3 DEF HoldsSession, InSession, ThreadsOk
    <3>2. ASSUME lazy_init
          PROVE  lib.live
      <4>1. OpenSessions \in Nat /\ OpenSessions # 0
        BY <2>1, <3>1, SessionsCount
      <4> QED
        BY <2>1, <3>2, <4>1 DEF Counted
    <3>3. ASSUME ~lazy_init
          PROVE  lib.live
      <4>1. threads["main"].job \in {"add", "immutable", "spec", "serve"}
        <5>1. CASE t = "main"
          BY <2>3, <3>1, <5>1 DEF ThreadOk, JobsOf, PcsOf
        <5>2. CASE t # "main"
          BY <2>1, <2>3, <5>2, ThreadFacts DEF Serving
        <5> QED
          BY <5>1, <5>2
      <4> QED
        BY <2>1, <3>3, <4>1 DEF Persistent
    <3> QED
      BY <2>3, <3>1, <3>2, <3>3 DEF Fresh
  <2>4. NeverWaitsForItself
    BY <2>1 DEF NeverWaitsForItself, ThreadsOk, InMutex
  <2> QED
    BY <2>2, <2>3, <2>4 DEF SessionsSound, GuardedCallsFresh
<1> QED
  BY <1>1, GimInvariant, PTL

\* The first slow sample is forced (watch_timer_cb_), so that only what the first
\* tick missed is posted as zero: the counters of a GPU it did not reach, and
\* those of a block whose call failed, which keep the zero they start with.
THEOREM CountersAreReported == GimSpec => []CountersReported
<1>1. GimInv => CountersReported
  BY DEF GimInv, Sampled, CountersReported
<1> QED
  BY <1>1, GimInvariant, PTL

(***************************************************************************)
(* GpuRecords.  At every moment what has been written, the batch that is   *)
(* being filled and the records not yet handed to the callback make up     *)
(* what was counted (StreamInv).  The entries of the error records are     *)
(* those the library handed out, as far as they are decoded, and the       *)
(* headers of the round are the next ones, unless the array is full        *)
(* (CperInv).                                                              *)
(***************************************************************************)

Streams == [pc: {"count", "records", "send", "done"}, left: Seq(PageGpus), found: 0 .. MaxPages,
            want: Seq(PageRecords), todo: Seq(PageRecords), count: 0 .. CountWidth - 1,
            batch: Seq(PageRecords), written: Seq(PageRecords), empties: {0, 1}]

\* What was counted is written, in the batch, or still to be sent.
StreamInv ==
    /\ pages \in [PageGpus -> 0 .. MaxPages]
    /\ stream = NoStream \/ stream \in Streams
    /\ stream.pc # "idle" =>
         /\ Len(stream.batch) < BatchSize
         /\ (stream.written \o stream.batch) \o stream.todo = stream.want
         /\ stream.pc # "send" => stream.todo = <<>>
         /\ stream.pc \in {"records", "send"} => stream.left # <<>>
         /\ stream.pc = "done" => stream.batch = <<>>

Cpers == [pc: {"round", "decode", "done"}, total: Nat, cursor: Nat, room: Nat, more: BOOLEAN,
          buffer: Seq(Nat), hdrs: Seq(Nat), at: Nat, prev: Nat, entries: Seq(Nat), decoded: Seq(Nat)]

\* The headers of the round go on where the entries end, up to the cursor.
CperInv ==
    /\ cper = NoCper \/ cper \in Cpers
    /\ cper.pc # "idle" =>
         /\ Len(cper.entries) <= CperMax /\ cper.cursor <= cper.total
         /\ ~cper.more => cper.cursor = cper.total
         /\ \A i \in 1 .. Len(cper.entries) : cper.entries[i] = i
         /\ \/ /\ Len(cper.entries) + Len(cper.hdrs) = cper.cursor
               /\ \A i \in 1 .. Len(cper.hdrs) : cper.hdrs[i] = Len(cper.entries) + i
            \/ Len(cper.entries) = CperMax
         /\ cper.pc \in {"round", "done"} => cper.hdrs = <<>> \/ Len(cper.entries) = CperMax
         /\ cper.pc = "done" => ~cper.more

RecordsInv == StreamInv /\ CperInv

\* A record moves from those still to be sent into the batch or the stream.
LEMMA ToProtoCarries ==
  ASSUME NEW s \in Streams, s.todo # <<>>, Len(s.batch) < BatchSize
  PROVE  LET r == ToProto([s EXCEPT !.todo = Tail(@)], Head(s.todo)) IN
         /\ r \in Streams /\ r.pc = s.pc /\ r.left = s.left /\ r.want = s.want
         /\ Len(r.batch) < BatchSize
         /\ (r.written \o r.batch) \o r.todo = (s.written \o s.batch) \o s.todo
<1> DEFINE h == Head(s.todo)
           t == Tail(s.todo)
           b == Append(s.batch, h)
           c == (s.count + 1) % CountWidth
           u == [s EXCEPT !.todo = t]
           r == ToProto(u, h)
<1>1. /\ s.todo \in Seq(PageRecords) /\ s.batch \in Seq(PageRecords) /\ s.written \in Seq(PageRecords)
      /\ s.count \in 0 .. CountWidth - 1
  BY DEF Streams
<1>2. h \in PageRecords /\ t \in Seq(PageRecords) /\ s.todo = <<h>> \o t
  BY <1>1
<1>3. /\ b \in Seq(PageRecords) /\ Len(b) = Len(s.batch) + 1 /\ b = s.batch \o <<h>>
  BY <1>1, <1>2
<1>4. c \in 0 .. CountWidth - 1
  BY <1>1, RecordsAssumption
<1>5. /\ u \in Streams /\ u.batch = s.batch /\ u.written = s.written /\ u.count = s.count
      /\ u.pc = s.pc /\ u.left = s.left /\ u.want = s.want /\ u.todo = t
  BY <1>2 DEF Streams
<1>6. (s.written \o s.batch) \o s.todo = (s.written \o b) \o t
  <2> HIDE DEF h, t, b
  <2>0. \A x, y, z \in Seq(PageRecords) : (x \o y) \o z = x \o (y \o z)
    BY ConcatAssociative
  <2>1. <<h>> \in Seq(PageRecords) /\ s.written \o s.batch \in Seq(PageRecords)
    BY <1>1, <1>2
  <2>2. (s.written \o s.batch) \o (<<h>> \o t) = ((s.written \o s.batch) \o <<h>>) \o t
    BY <1>2, <2>0, <2>1
  <2>3. (s.written \o s.batch) \o <<h>> = s.written \o (s.batch \o <<h>>)
    BY <1>1, <2>0, <2>1
  <2> QED
    BY <1>2, <1>3, <2>2, <2>3
<1> HIDE DEF h, t, c
<1>7. r = IF Len(b) = BatchSize
          THEN [u EXCEPT !.batch = <<>>, !.written = s.written \o b, !.count = c]
          ELSE [u EXCEPT !.batch = b, !.count = c]
  BY <1>5 DEF ToProto, c
<1> HIDE DEF b, u, r
<1>8. CASE Len(b) = BatchSize
  <2>1. r = [u EXCEPT !.batch = <<>>, !.written = s.written \o b, !.count = c]
    BY <1>7, <1>8
  <2>2. s.written \o b \in Seq(PageRecords) /\ <<>> \in Seq(PageRecords)
    BY <1>1, <1>3
  <2>3. /\ r \in Streams /\ r.pc = s.pc /\ r.left = s.left /\ r.want = s.want
        /\ r.batch = <<>> /\ r.written = s.written \o b /\ r.todo = t
    BY <1>4, <1>5, <2>1, <2>2 DEF Streams
  <2>4. (s.written \o b) \o <<>> = s.written \o b
    BY <2>2
  <2>5. Len(r.batch) < BatchSize
    BY <2>3, RecordsAssumption
  <2> QED
    BY <1>6, <2>3, <2>4, <2>5 DEF r, u, h, t
<1>9. CASE Len(b) # BatchSize
  <2>1. r = [u EXCEPT !.batch = b, !.count = c]
    BY <1>7, <1>9
  <2>2. /\ r \in Streams /\ r.pc = s.pc /\ r.left = s.left /\ r.want = s.want
        /\ r.batch = b /\ r.written = s.written /\ r.todo = t
    BY <1>3, <1>4, <1>5, <2>1 DEF Streams
  <2>3. Len(b) < BatchSize
    BY <1>1, <1>3, <1>9, RecordsAssumption
  <2> QED
    BY <1>6, <2>2, <2>3 DEF r, u, h, t
<1> QED
  BY <1>8, <1>9

LEMMA StreamStarts == RecordsInit => StreamInv /\ CperInv
BY RecordsAssumption DEF RecordsInit, StreamInv, CperInv, NoStream, NoCper

LEMMA RecordsNull ==
  ASSUME RecordsInv, UNCHANGED recordsVars
  PROVE  RecordsInv'
BY DEF RecordsInv, StreamInv, CperInv, recordsVars

\* Each step of the stream keeps its invariant.
LEMMA StreamStep ==
  ASSUME StreamInv,
         \/ \E ids \in PageIds : BadPageGet(ids)
         \/ BadPageCount \/ BadPageRecords \/ BadPageSend \/ BadPageFlush \/ BadPageDone
  PROVE  StreamInv'
<1>1. /\ UNCHANGED pages /\ pages \in [PageGpus -> 0 .. MaxPages]
      /\ stream = NoStream \/ stream \in Streams
      /\ MaxPages \in Nat
  BY RecordsAssumption DEF StreamInv, BadPageGet, BadPageCount, BadPageRecords, BadPageSend,
     BadPageFlush, BadPageDone
<1>2. stream.pc # "idle" =>
         /\ stream \in Streams
         /\ Len(stream.batch) < BatchSize
         /\ (stream.written \o stream.batch) \o stream.todo = stream.want
         /\ stream.pc # "send" => stream.todo = <<>>
         /\ stream.pc \in {"records", "send"} => stream.left # <<>>
         /\ stream.pc = "done" => stream.batch = <<>>
  <2>1. stream.pc # "idle" => stream \in Streams
    BY <1>1 DEF NoStream
  <2> QED
    BY <2>1 DEF StreamInv
<1>3. ASSUME NEW ids \in PageIds, BadPageGet(ids)
      PROVE  StreamInv'
  <2>1. PICK garbage \in 0 .. CountWidth - 1 :
          stream' = [pc |-> "count", left |-> ids, found |-> 0, want |-> <<>>, todo |-> <<>>,
                     count |-> garbage, batch |-> <<>>, written |-> <<>>, empties |-> 0]
    BY <1>3 DEF BadPageGet
  <2>2. ids \in Seq(PageGpus) /\ 0 \in 0 .. MaxPages /\ <<>> \in Seq(PageRecords)
    BY <1>1, RecordsAssumption DEF PageIds
  <2>3. stream' \in Streams
    BY <2>1, <2>2 DEF Streams
  <2>4. Len(<<>>) < BatchSize /\ (<<>> \o <<>>) \o <<>> = <<>>
    BY RecordsAssumption
  <2> QED
    BY <1>1, <2>1, <2>3, <2>4 DEF StreamInv
<1>4. CASE BadPageCount
  <2>1. /\ stream \in Streams /\ stream.pc = "count" /\ stream.left # <<>>
        /\ stream.left \in Seq(PageGpus)
    BY <1>2, <1>4 DEF BadPageCount, Streams
  <2>2. Tail(stream.left) \in Seq(PageGpus) /\ Head(stream.left) \in PageGpus
    BY <2>1
  <2>3. CASE stream' = [stream EXCEPT !.left = Tail(@)]
    <3>1. /\ stream' \in Streams /\ stream'.pc = "count" /\ stream'.batch = stream.batch
          /\ stream'.written = stream.written /\ stream'.todo = stream.todo
          /\ stream'.want = stream.want
      BY <2>1, <2>2, <2>3 DEF Streams
    <3> QED
      BY <1>1, <1>2, <2>1, <3>1 DEF StreamInv
  <2>4. CASE stream' = [stream EXCEPT !.pc = "records", !.found = pages[Head(stream.left)]]
    <3>1. /\ stream' \in Streams /\ stream'.pc = "records" /\ stream'.batch = stream.batch
          /\ stream'.written = stream.written /\ stream'.todo = stream.todo
          /\ stream'.want = stream.want /\ stream'.left = stream.left
      BY <1>1, <2>1, <2>2, <2>4 DEF Streams
    <3> QED
      BY <1>1, <1>2, <2>1, <3>1 DEF StreamInv
  <2> QED
    BY <1>4, <2>3, <2>4 DEF BadPageCount
<1>5. CASE BadPageRecords
  <2>1. /\ stream \in Streams /\ stream.pc = "records" /\ stream.left # <<>>
        /\ stream.left \in Seq(PageGpus) /\ stream.found \in 0 .. MaxPages /\ stream.todo = <<>>
        /\ stream.want \in Seq(PageRecords)
        /\ stream.written \in Seq(PageRecords) /\ stream.batch \in Seq(PageRecords)
    BY <1>2, <1>5 DEF BadPageRecords, Streams
  <2>2. Head(stream.left) \in PageGpus
    BY <2>1
  <2>3. PICK rs \in Seq(PageRecords) :
          stream' = [stream EXCEPT !.pc = "send", !.todo = rs, !.want = stream.want \o rs]
    <3>1. PICK ok \in BOOLEAN :
            stream' = [stream EXCEPT !.pc = "send",
                         !.todo = [i \in 1 .. stream.found |-> <<Head(stream.left), IF ok THEN i ELSE 0>>],
                         !.want = @ \o [i \in 1 .. stream.found |-> <<Head(stream.left), IF ok THEN i ELSE 0>>]]
      BY <1>5 DEF BadPageRecords
    <3>2. PICK rs : rs = [i \in 1 .. stream.found |-> <<Head(stream.left), IF ok THEN i ELSE 0>>]
      OBVIOUS
    <3>3. rs \in Seq(PageRecords)
      <4>1. stream.found \in Nat
        BY <1>1, <2>1
      <4>2. \A i \in 1 .. stream.found : <<Head(stream.left), IF ok THEN i ELSE 0>> \in PageRecords
        BY <1>1, <2>1, <2>2 DEF PageRecords
      <4> QED
        BY <3>2, <4>1, <4>2
    <3>4. stream' = [stream EXCEPT !.pc = "send", !.todo = rs, !.want = stream.want \o rs]
      BY <3>1, <3>2
    <3> QED
      BY <3>3, <3>4
  <2>4. /\ stream' \in Streams /\ stream'.pc = "send" /\ stream'.batch = stream.batch
        /\ stream'.written = stream.written /\ stream'.todo = rs
        /\ stream'.want = stream.want \o rs /\ stream'.left = stream.left
    <3>1. stream.want \o rs \in Seq(PageRecords)
      BY <2>1
    <3> QED
      BY <2>1, <2>3, <3>1 DEF Streams
  <2>5. stream.want = stream.written \o stream.batch
    <3>1. (stream.written \o stream.batch) \o <<>> = stream.written \o stream.batch
      BY <2>1
    <3> QED
      BY <1>2, <2>1, <3>1
  <2> QED
    BY <1>1, <1>2, <2>1, <2>4, <2>5 DEF StreamInv
<1>6. CASE BadPageSend
  <2>1. stream \in Streams /\ stream.pc = "send" /\ stream.left # <<>> /\ stream.left \in Seq(PageGpus)
    BY <1>2, <1>6 DEF BadPageSend, Streams
  <2>2. CASE stream.todo = <<>>
    <3>1. Tail(stream.left) \in Seq(PageGpus)
      BY <2>1
    <3>2. stream' = [stream EXCEPT !.pc = "count", !.left = Tail(stream.left)]
      BY <1>6, <2>2 DEF BadPageSend
    <3>3. /\ stream' \in Streams /\ stream'.pc = "count" /\ stream'.batch = stream.batch
          /\ stream'.written = stream.written /\ stream'.todo = stream.todo
          /\ stream'.want = stream.want
      BY <2>1, <3>1, <3>2 DEF Streams
    <3> QED
      BY <1>1, <1>2, <2>1, <2>2, <3>3 DEF StreamInv
  <2>3. CASE stream.todo # <<>>
    <3>1. stream' = ToProto([stream EXCEPT !.todo = Tail(@)], Head(stream.todo))
      BY <1>6, <2>3 DEF BadPageSend
    <3>2. /\ stream' \in Streams /\ stream'.pc = "send" /\ stream'.left = stream.left
          /\ stream'.want = stream.want
          /\ Len(stream'.batch) < BatchSize
          /\ (stream'.written \o stream'.batch) \o stream'.todo =
               (stream.written \o stream.batch) \o stream.todo
      BY <1>2, <2>1, <2>3, <3>1, ToProtoCarries
    <3> QED
      BY <1>1, <1>2, <2>1, <3>2 DEF StreamInv
  <2> QED
    BY <2>2, <2>3
<1>7. CASE BadPageFlush
  <2>1. /\ stream \in Streams /\ stream.pc = "count" /\ stream.todo = <<>>
        /\ stream.written \in Seq(PageRecords) /\ stream.batch \in Seq(PageRecords)
    BY <1>2, <1>7 DEF BadPageFlush, Streams
  <2>2. PICK n \in {0, 1} : stream' = [stream EXCEPT !.pc = "done", !.written = @ \o stream.batch,
                                         !.batch = <<>>, !.empties = n]
    BY <1>7 DEF BadPageFlush
  <2>3. stream.written \o stream.batch \in Seq(PageRecords) /\ <<>> \in Seq(PageRecords)
    BY <2>1
  <2>4. /\ stream' \in Streams /\ stream'.pc = "done" /\ stream'.batch = <<>>
        /\ stream'.written = stream.written \o stream.batch /\ stream'.todo = <<>>
        /\ stream'.want = stream.want
    BY <2>1, <2>2, <2>3 DEF Streams
  <2>5. /\ (stream.written \o stream.batch) \o <<>> = stream.written \o stream.batch
        /\ Len(<<>>) < BatchSize
    BY <2>3, RecordsAssumption
  <2> QED
    BY <1>1, <1>2, <2>1, <2>4, <2>5 DEF StreamInv
<1>8. CASE BadPageDone
  BY <1>1, <1>8 DEF BadPageDone, StreamInv, NoStream
<1> QED
  BY <1>3, <1>4, <1>5, <1>6, <1>7, <1>8

\* The library hands out the records from the cursor on, as many as fit.
LEMMA FetchFits ==
  ASSUME NEW left \in Nat, NEW room \in Nat
  PROVE  LET k == CHOOSE m \in 0 .. left :
                    /\ m <= CperRound /\ m <= room
                    /\ \A j \in 0 .. left : j <= CperRound /\ j <= room => j <= m
         IN  k \in Nat /\ k <= left /\ k <= room
<1> DEFINE fits(m) == /\ m <= CperRound /\ m <= room
                      /\ \A j \in 0 .. left : j <= CperRound /\ j <= room => j <= m
<1>1. \E m \in 0 .. left : fits(m)
  <2>1. CperRound \in Nat
    BY RecordsAssumption
  <2>2. CASE left <= CperRound /\ left <= room
    BY <2>1, <2>2
  <2>3. CASE CperRound <= left /\ CperRound <= room
    BY <2>1, <2>3
  <2>4. CASE room <= left /\ room <= CperRound
    BY <2>1, <2>4
  <2> QED
    BY <2>1, <2>2, <2>3, <2>4
<1> QED
  BY <1>1

\* And so does each step of the read of error records.
LEMMA CperStep ==
  ASSUME CperInv,
         \/ \E n \in 0 .. CperRecords : CperGet(n)
         \/ CperFetch \/ CperDecode \/ CperRoundDone \/ CperDone
  PROVE  CperInv'
<1>1. /\ cper.pc # "idle" => cper \in Cpers
      /\ CperMax \in Nat /\ CperRecords \in Nat
  BY RecordsAssumption DEF CperInv, NoCper
<1>2. ASSUME NEW n \in 0 .. CperRecords, CperGet(n)
      PROVE  CperInv'
  <2>1. cper' = [pc |-> "round", total |-> n, cursor |-> 0, buffer |-> <<>>, room |-> CperMax,
                 hdrs |-> <<>>, more |-> TRUE, at |-> 0, prev |-> 0, entries |-> <<>>, decoded |-> <<>>]
    BY <1>2 DEF CperGet
  <2>2. n \in Nat /\ <<>> \in Seq(Nat) /\ Len(<<>>) = 0 /\ 0 <= n /\ 0 <= CperMax /\ 0 + 0 = 0
    BY <1>1
  <2>3. cper' \in Cpers
    BY <1>1, <2>1, <2>2 DEF Cpers
  <2> QED
    BY <2>1, <2>2, <2>3 DEF CperInv
<1>3. CASE CperFetch
  <2>1. /\ cper \in Cpers /\ cper.pc = "round" /\ cper.more
        /\ cper.total \in Nat /\ cper.cursor \in Nat /\ cper.cursor <= cper.total
        /\ cper.room \in Nat /\ cper.buffer \in Seq(Nat) /\ cper.entries \in Seq(Nat)
        /\ Len(cper.entries) <= CperMax
        /\ Len(cper.entries) = cper.cursor \/ Len(cper.entries) = CperMax
        /\ \A i \in 1 .. Len(cper.entries) : cper.entries[i] = i
    BY <1>1, <1>3 DEF CperFetch, CperInv, Cpers
  <2> DEFINE left == cper.total - cper.cursor
  <2>2. PICK k : k = CHOOSE m \in 0 .. left :
                       /\ m <= CperRound /\ m <= cper.room
                       /\ \A j \in 0 .. left : j <= CperRound /\ j <= cper.room => j <= m
    OBVIOUS
  <2>3. left \in Nat
    BY <2>1
  <2> HIDE DEF left
  <2>4. k \in Nat /\ k <= left /\ k <= cper.room
    BY <2>1, <2>2, <2>3, FetchFits
  <2>5. PICK hdrs : hdrs = [i \in 1 .. k |-> cper.cursor + i]
    OBVIOUS
  <2>6. hdrs \in Seq(Nat) /\ Len(hdrs) = k /\ \A i \in 1 .. k : hdrs[i] = cper.cursor + i
    <3>1. \A i \in 1 .. k : cper.cursor + i \in Nat
      BY <2>1
    <3> QED
      BY <2>4, <2>5, <3>1
  <2>7. CASE cper' = NoCper
    BY <2>7 DEF CperInv, NoCper
  <2>8. CASE cper' = [cper EXCEPT !.pc = "decode", !.hdrs = hdrs, !.room = k, !.cursor = cper.cursor + k,
                         !.buffer = hdrs \o SubSeq(cper.buffer, k + 1, Len(cper.buffer)),
                         !.more = cper.cursor + k < cper.total]
    <3> DEFINE buffer == hdrs \o SubSeq(cper.buffer, k + 1, Len(cper.buffer))
               cursor == cper.cursor + k
               more   == cursor < cper.total
    <3>1. /\ buffer \in Seq(Nat) /\ cursor \in Nat /\ more \in BOOLEAN
          /\ cursor <= cper.total
          /\ ~more => cursor = cper.total
          /\ cursor = cper.cursor + k
      <4>1. SubSeq(cper.buffer, k + 1, Len(cper.buffer)) \in Seq(Nat)
        BY <2>1, <2>4
      <4>2. buffer \in Seq(Nat)
        BY <2>6, <4>1
      <4>3. k \in Nat /\ cper.cursor \in Nat /\ cper.total \in Nat /\ k <= cper.total - cper.cursor
        BY <2>1, <2>4 DEF left
      <4>4. /\ cursor \in Nat /\ more \in BOOLEAN /\ cursor <= cper.total
            /\ ~more => cursor = cper.total
        BY <4>3
      <4> QED
        BY <4>2, <4>4
    <3>2. cper' = [cper EXCEPT !.pc = "decode", !.hdrs = hdrs, !.room = k, !.cursor = cursor,
                               !.buffer = buffer, !.more = more]
      BY <2>8
    <3> HIDE DEF buffer, cursor, more
    <3>3. /\ cper' \in Cpers /\ cper'.pc = "decode" /\ cper'.hdrs = hdrs /\ cper'.cursor = cursor
          /\ cper'.more = more /\ cper'.entries = cper.entries /\ cper'.total = cper.total
      BY <2>1, <2>4, <2>6, <3>1, <3>2 DEF Cpers
    <3>4. \/ /\ Len(cper.entries) + Len(hdrs) = cursor
             /\ \A i \in 1 .. Len(hdrs) : hdrs[i] = Len(cper.entries) + i
          \/ Len(cper.entries) = CperMax
      BY <2>1, <2>4, <2>6, <3>1
    <3> QED
      BY <2>1, <3>1, <3>3, <3>4 DEF CperInv
  <2> QED
    BY <1>3, <2>2, <2>5, <2>7, <2>8 DEF CperFetch, left
<1>4. CASE CperDecode
  <2>1. /\ cper \in Cpers /\ cper.pc = "decode" /\ cper.hdrs # <<>> /\ cper.hdrs \in Seq(Nat)
        /\ cper.entries \in Seq(Nat) /\ Len(cper.entries) < CperMax
        /\ cper.cursor \in Nat /\ cper.cursor <= cper.total /\ (~cper.more => cper.cursor = cper.total)
        /\ \A i \in 1 .. Len(cper.entries) : cper.entries[i] = i
        /\ Len(cper.entries) + Len(cper.hdrs) = cper.cursor
        /\ \A i \in 1 .. Len(cper.hdrs) : cper.hdrs[i] = Len(cper.entries) + i
        /\ cper.buffer \in Seq(Nat) /\ cper.at \in Nat /\ cper.prev \in Nat /\ cper.decoded \in Seq(Nat)
    BY <1>1, <1>4 DEF CperDecode, CperInv, Cpers
  <2>2. PICK d, at : /\ at = cper.at + cper.prev
                     /\ d = IF at < Len(cper.buffer) THEN cper.buffer[at + 1] ELSE 0
    OBVIOUS
  <2>3. d \in Nat /\ at \in Nat
    <3>1. at \in Nat
      BY <2>1, <2>2
    <3>2. at < Len(cper.buffer) => at + 1 \in 1 .. Len(cper.buffer)
      BY <2>1, <3>1
    <3> QED
      BY <2>1, <2>2, <3>1, <3>2, ElementOfSeq
  <2>4. PICK e, h : e = Append(cper.entries, Head(cper.hdrs)) /\ h = Tail(cper.hdrs)
    OBVIOUS
  <2>5. /\ e \in Seq(Nat) /\ Len(e) = Len(cper.entries) + 1
        /\ \A i \in 1 .. Len(e) : e[i] = i
        /\ h \in Seq(Nat) /\ Len(h) = Len(cper.hdrs) - 1
        /\ \A i \in 1 .. Len(h) : h[i] = Len(e) + i
    <3>1. /\ Len(cper.hdrs) \in Nat \ {0} /\ Head(cper.hdrs) = Len(cper.entries) + 1
          /\ Len(cper.entries) \in Nat
      BY <2>1
    <3>2. /\ e \in Seq(Nat) /\ Len(e) = Len(cper.entries) + 1
          /\ \A i \in 1 .. Len(cper.entries) : e[i] = cper.entries[i]
          /\ e[Len(cper.entries) + 1] = Head(cper.hdrs)
      <4>1. Head(cper.hdrs) \in Nat
        BY <3>1
      <4>2. \A q \in Seq(Nat), x \in Nat :
              /\ Append(q, x) \in Seq(Nat) /\ Len(Append(q, x)) = Len(q) + 1
              /\ \A i \in 1 .. Len(q) : Append(q, x)[i] = q[i]
              /\ Append(q, x)[Len(q) + 1] = x
        BY AppendProperties
      <4> QED
        BY <2>1, <2>4, <4>1, <4>2
    <3>3. ASSUME NEW i \in 1 .. Len(e)
          PROVE  e[i] = i
      <4>1. CASE i \in 1 .. Len(cper.entries)
        BY <2>1, <3>2, <4>1
      <4>2. CASE i = Len(cper.entries) + 1
        BY <3>1, <3>2, <4>2
      <4> QED
        BY <3>1, <3>2, <4>1, <4>2
    <3>4. /\ h \in Seq(Nat) /\ Len(h) = Len(cper.hdrs) - 1
          /\ \A i \in 1 .. Len(h) : h[i] = cper.hdrs[i + 1]
      BY <2>1, <2>4, HeadTailProperties
    <3>5. ASSUME NEW i \in 1 .. Len(h)
          PROVE  h[i] = Len(e) + i
      <4>1. i + 1 \in 1 .. Len(cper.hdrs)
        BY <3>1, <3>4
      <4> QED
        BY <2>1, <3>1, <3>2, <3>4, <4>1
    <3> QED
      BY <3>2, <3>3, <3>4, <3>5
  <2>6. cper' = [cper EXCEPT !.hdrs = h, !.entries = e, !.at = at, !.prev = 1,
                   !.decoded = Append(cper.decoded, d)]
    BY <1>4, <2>2, <2>4 DEF CperDecode
  <2>7. /\ cper' \in Cpers /\ cper'.pc = "decode" /\ cper'.hdrs = h /\ cper'.cursor = cper.cursor
        /\ cper'.more = cper.more /\ cper'.entries = e /\ cper'.total = cper.total
    <3>1. Append(cper.decoded, d) \in Seq(Nat)
      BY <2>1, <2>3
    <3> QED
      BY <2>1, <2>3, <2>5, <2>6, <3>1 DEF Cpers
  <2>8. Len(e) <= CperMax /\ Len(e) + Len(h) = cper.cursor
    <3>1. Len(cper.entries) \in Nat /\ Len(cper.hdrs) \in Nat
      BY <2>1
    <3> DEFINE m == Len(cper.entries)
               n == Len(cper.hdrs)
    <3>2. m < CperMax /\ m + n = cper.cursor /\ Len(e) = m + 1 /\ Len(h) = n - 1
      BY <2>1, <2>5
    <3> HIDE DEF m, n
    <3>3. m \in Nat /\ n \in Nat
      BY <3>1 DEF m, n
    <3> QED
      BY <1>1, <3>2, <3>3
  <2> QED
    BY <2>1, <2>5, <2>7, <2>8 DEF CperInv
<1>5. CASE CperRoundDone
  <2>1. /\ cper \in Cpers /\ cper.pc = "decode" /\ (cper.hdrs = <<>> \/ Len(cper.entries) = CperMax)
        /\ cper.more \in BOOLEAN
    BY <1>1, <1>5 DEF CperRoundDone, Cpers
  <2>2. PICK at \in {"round", "done"} : /\ cper' = [cper EXCEPT !.pc = at]
                                        /\ at = "done" => ~cper.more
    BY <1>5 DEF CperRoundDone
  <2>3. /\ cper' \in Cpers /\ cper'.pc = at /\ cper'.hdrs = cper.hdrs /\ cper'.cursor = cper.cursor
        /\ cper'.more = cper.more /\ cper'.entries = cper.entries /\ cper'.total = cper.total
    BY <2>1, <2>2 DEF Cpers
  <2> QED
    BY <2>1, <2>2, <2>3 DEF CperInv
<1>6. CASE CperDone
  BY <1>6 DEF CperDone, CperInv, NoCper
<1> QED
  BY <1>2, <1>3, <1>4, <1>5, <1>6

LEMMA RecordsStep ==
  ASSUME RecordsInv, [RecordsNext]_recordsVars
  PROVE  RecordsInv'
<1>1. CASE UNCHANGED recordsVars
  BY <1>1, RecordsNull
<1>2. ASSUME NEW g \in PageGpus, RetirePage(g)
      PROVE  RecordsInv'
  <2>1. /\ UNCHANGED <<stream, cper>> /\ pages \in [PageGpus -> 0 .. MaxPages] /\ pages[g] < MaxPages
        /\ pages' = [pages EXCEPT ![g] = pages[g] + 1] /\ MaxPages \in Nat
    BY <1>2, RecordsAssumption DEF RetirePage, RecordsInv, StreamInv
  <2>2. pages' \in [PageGpus -> 0 .. MaxPages]
    BY <2>1
  <2> QED
    BY <2>1, <2>2 DEF RecordsInv, StreamInv, CperInv
<1>3. CASE \/ \E ids \in PageIds : BadPageGet(ids)
           \/ BadPageCount \/ BadPageRecords \/ BadPageSend \/ BadPageFlush \/ BadPageDone
  <2>1. UNCHANGED cper
    BY <1>3 DEF BadPageGet, BadPageCount, BadPageRecords, BadPageSend, BadPageFlush, BadPageDone
  <2>2. StreamInv'
    BY <1>3, StreamStep DEF RecordsInv
  <2> QED
    BY <2>1, <2>2 DEF RecordsInv, CperInv
<1>4. CASE \/ \E n \in 0 .. CperRecords : CperGet(n)
           \/ CperFetch \/ CperDecode \/ CperRoundDone \/ CperDone
  <2>1. UNCHANGED <<pages, stream>>
    BY <1>4 DEF CperGet, CperFetch, CperDecode, CperRoundDone, CperDone
  <2>2. CperInv'
    BY <1>4, CperStep DEF RecordsInv
  <2> QED
    BY <2>1, <2>2 DEF RecordsInv, StreamInv
<1> QED
  BY <1>1, <1>2, <1>3, <1>4 DEF RecordsNext

\* The invariant holds whatever pages are retired meanwhile.
THEOREM RecordsInvariant == RecordsSpec => []RecordsInv
BY StreamStarts, RecordsStep, PTL DEF RecordsSpec, RecordsInv

\* A batch never reaches its full size between two steps, and the count of the
\* context stays a uint8_t (streaming_get_ctxt_t).
THEOREM RecordsTypeCorrect == RecordsSpec => []RecordsTypeOK
<1>1. ASSUME RecordsInv
      PROVE  RecordsTypeOK
  <2>1. /\ stream.pc \in {"idle", "count", "records", "send", "done"}
        /\ stream.pc # "idle" => stream \in Streams
        /\ cper.pc \in {"idle", "round", "decode", "done"}
    BY <1>1 DEF RecordsInv, StreamInv, CperInv, NoStream, NoCper, Streams, Cpers
  <2> QED
    BY <1>1, <2>1 DEF RecordsInv, StreamInv, RecordsTypeOK, Streams
<1> QED
  BY <1>1, RecordsInvariant, PTL

\* No record is lost, doubled or out of order, for every size of the batch, of a
\* round and of the buffer, and however many GPUs and records there are
\* (aga_gpu_bad_page_api_info_to_proto, smi_gpu_get_cper_entries).
THEOREM RecordsAreComplete == RecordsSpec => []RecordsComplete
<1>1. ASSUME RecordsInv
      PROVE  RecordsComplete
  <2>1. ASSUME stream.pc = "done"
        PROVE  stream.written = stream.want
    <3>1. /\ stream \in Streams /\ stream.batch = <<>> /\ stream.todo = <<>>
          /\ (stream.written \o stream.batch) \o stream.todo = stream.want
      <4>1. stream \in Streams
        BY <1>1, <2>1 DEF RecordsInv, StreamInv, NoStream
      <4> QED
        BY <1>1, <2>1, <4>1 DEF RecordsInv, StreamInv
    <3>2. stream.written \in Seq(PageRecords)
      BY <3>1 DEF Streams
    <3>3. (stream.written \o <<>>) \o <<>> = stream.written
      BY <3>2
    <3> QED
      BY <3>1, <3>3
  <2>2. ASSUME cper.pc = "done"
        PROVE  /\ Len(cper.entries) <= CperMax
               /\ Len(cper.entries) = CperMax \/ Len(cper.entries) = cper.total
               /\ \A i \in DOMAIN cper.entries : cper.entries[i] = i
    <3>1. /\ cper \in Cpers /\ cper.entries \in Seq(Nat) /\ cper.hdrs \in Seq(Nat)
          /\ Len(cper.entries) <= CperMax /\ cper.cursor = cper.total
          /\ \A i \in 1 .. Len(cper.entries) : cper.entries[i] = i
          /\ Len(cper.entries) = CperMax \/ /\ cper.hdrs = <<>>
                                            /\ Len(cper.entries) + Len(cper.hdrs) = cper.cursor
      <4>1. cper \in Cpers
        BY <1>1, <2>2 DEF RecordsInv, CperInv, NoCper
      <4>2. cper.entries \in Seq(Nat) /\ cper.hdrs \in Seq(Nat)
        BY <4>1 DEF Cpers
      <4>3. /\ Len(cper.entries) <= CperMax /\ (cper.more = FALSE => cper.cursor = cper.total) /\ ~cper.more
            /\ \A i \in 1 .. Len(cper.entries) : cper.entries[i] = i
            /\ cper.hdrs = <<>> \/ Len(cper.entries) = CperMax
            /\ Len(cper.entries) + Len(cper.hdrs) = cper.cursor \/ Len(cper.entries) = CperMax
        BY <1>1, <2>2 DEF RecordsInv, CperInv
      <4>4. cper.more \in BOOLEAN
        BY <4>1 DEF Cpers
      <4> QED
        BY <4>1, <4>2, <4>3, <4>4
    <3>2. DOMAIN cper.entries = 1 .. Len(cper.entries) /\ Len(cper.entries) \in Nat /\ Len(<<>>) = 0
      BY <3>1
    <3>3. Len(cper.entries) = CperMax \/ Len(cper.entries) = cper.total
      <4>1. CASE cper.hdrs = <<>>
        <5>1. Len(cper.hdrs) = 0
          BY <3>2, <4>1
        <5>2. Len(cper.entries) + 0 = cper.total \/ Len(cper.entries) = CperMax
          BY <3>1, <5>1
        <5> QED
          BY <3>2, <5>2
      <4> QED
        BY <3>1, <4>1
    <3> QED
      BY <3>1, <3>2, <3>3
  <2> QED
    BY <2>1, <2>2 DEF RecordsComplete, StreamCarriesAll, CperEntriesInOrder
<1> QED
  BY <1>1, RecordsInvariant, PTL

-----------------------------------------------------------------------------
(***************************************************************************)
(* EventMonitor.  What it promises its listeners, for any number of them,  *)
(* of devices and of events.  The argument is about the order in which a   *)
(* round works: a context that is found unreachable is erased from every   *)
(* set before it is marked, it is marked before its thread may free it,    *)
(* and nothing registers while the round goes on.                          *)
(***************************************************************************)
Points == {"start", "register", "test", "wait", "waiting", "leave", "returned"}
Active == {"test", "wait", "waiting"}

\* A round handles its events first, then it erases and wakes up.
Rounds ==
    /\ batch # <<>> => to_erase = {} /\ to_signal = {}
    /\ batch = <<>> => slock = NoGpu /\ inactive = {}
    /\ slock = NoGpu => to_write = {}

\* The event monitor will still write to c or erase it.
Expects(c) == \/ \E p \in AllPairs : c \in client_set[p]
              \/ c \in to_write \/ c \in inactive
              \/ \E g \in Gpus : <<g, c>> \in to_erase

\* What the event monitor knows of c against what c's thread is doing.
Agrees(c) ==
    /\ Expects(c) => pc[c] \in Active /\ ~client_inactive[c]
    /\ c \in inactive => ~connected[c]
    /\ \A g \in Gpus : <<g, c>> \in to_erase => ~connected[c]
    /\ c \in to_signal =>
         /\ ~connected[c]
         /\ pc[c] \in Active \/ client_inactive[c]
         /\ \A g \in Gpus, e \in Events : c \in client_set[<<g, e>>] => <<g, c>> \in to_erase
    /\ client_inactive[c] => ~connected[c] /\ pc[c] \in Active \union {"leave", "returned"}
    /\ pc[c] = "leave" => client_inactive[c]
    /\ ctxt[c] = "freed" => client_inactive[c]
    /\ ~EventsDisabled /\ connected[c] /\ pc[c] \in Active =>
         \A p \in wanted[c] : c \in client_set[p]

\* Nobody listens to an event the agent has no name for.
NamedOnly == \A g \in Gpus : client_set[<<g, NoEvent>>] = {}

\* The inductive invariant.
EventInv == EventTypeOK /\ Rounds /\ NamedOnly /\ \A c \in Clients : Agrees(c)

LEMMA TailOfBatch ==
  ASSUME NEW b \in Batches
  PROVE  Tail(b) \in Batches \union {<<>>} /\ Head(b) \in AllPairs /\ b # <<>>
<1>1. PICK n \in 1 .. MaxBatch : b \in [1 .. n -> AllPairs]
  BY DEF Batches
<1>2. n \in Nat /\ n >= 1 /\ b \in Seq(AllPairs) /\ Len(b) = n
  BY <1>1, EventAssumption
<1>3. Head(b) \in AllPairs /\ b # <<>>
  BY <1>1, <1>2
<1>4. Tail(b) \in Seq(AllPairs) /\ Len(Tail(b)) = n - 1
  BY <1>2, <1>3, HeadTailProperties
<1>5. Tail(b) \in [1 .. n - 1 -> AllPairs]
  BY <1>4, LenProperties
<1>6. CASE n = 1
  <2>1. Len(Tail(b)) = 0
    BY <1>4, <1>6
  <2>2. Tail(b) # <<>> => Len(Tail(b)) \in Nat \ {0}
    BY <1>4, EmptySeq
  <2>3. Tail(b) = <<>>
    BY <2>1, <2>2
  <2> QED
    BY <1>3, <2>3
<1>7. CASE n # 1
  <2>1. n - 1 \in 1 .. MaxBatch
    BY <1>2, <1>7, EventAssumption
  <2> QED
    BY <1>3, <1>5, <2>1 DEF Batches
<1> QED
  BY <1>6, <1>7

-----------------------------------------------------------------------------
(* The gRPC threads and the clients.                                       *)

\* A new call is known to nobody until it registers.
LEMMA StartPreserves ==
  ASSUME EventInv, NEW c \in Clients, SubscribeStart(c)
  PROVE  EventInv'
<1>1. /\ pc[c] = "start" /\ ~client_inactive[c] /\ ~Expects(c) /\ c \notin to_signal
      /\ ctxt[c] # "freed"
  BY DEF SubscribeStart, EventInv, Agrees, Active
<1>2. PICK G \in SUBSET Gpus, E \in SUBSET Events, p \in {"register", "returned"} :
        /\ pc' = [pc EXCEPT ![c] = p]
        /\ wanted' = wanted \/ wanted' = [wanted EXCEPT ![c] = G \X E]
        /\ ctxt' = ctxt \/ ctxt' = [ctxt EXCEPT ![c] = "live"]
        /\ connected' = connected \/ connected' = [connected EXCEPT ![c] = TRUE]
  <2>1. CASE pc' = [pc EXCEPT ![c] = "returned"] /\ UNCHANGED <<wanted, ctxt, connected>>
    BY <2>1
  <2>2. ASSUME NEW G \in SUBSET Gpus, NEW E \in SUBSET Events,
               /\ wanted' = [wanted EXCEPT ![c] = G \X E]
               /\ ctxt' = [ctxt EXCEPT ![c] = "live"]
               /\ connected' = [connected EXCEPT ![c] = TRUE]
               /\ pc' = [pc EXCEPT ![c] = IF G \subseteq GpuObjects THEN "register"
                                                                  ELSE "returned"]
        PROVE  \E H \in SUBSET Gpus, F \in SUBSET Events, p \in {"register", "returned"} :
                 /\ pc' = [pc EXCEPT ![c] = p]
                 /\ wanted' = wanted \/ wanted' = [wanted EXCEPT ![c] = H \X F]
                 /\ ctxt' = ctxt \/ ctxt' = [ctxt EXCEPT ![c] = "live"]
                 /\ connected' = connected \/ connected' = [connected EXCEPT ![c] = TRUE]
    BY <2>2
  <2> QED
    BY <2>1, <2>2 DEF SubscribeStart
<1>3. UNCHANGED <<mapVars, roundVars, readVars, client_inactive, agent>>
  BY DEF SubscribeStart
<1>4. EventTypeOK'
  <2>1. G \X E \subseteq Pairs
    BY DEF Pairs
  <2>2. /\ wanted' \in [Clients -> SUBSET Pairs]
        /\ ctxt' \in [Clients -> {"none", "live", "freed"}]
        /\ connected' \in [Clients -> BOOLEAN]
        /\ pc' \in [Clients -> Points]
    <3>1. wanted' \in [Clients -> SUBSET Pairs]
      BY <1>2, <2>1 DEF EventInv, EventTypeOK
    <3>2. ctxt' \in [Clients -> {"none", "live", "freed"}]
      BY <1>2 DEF EventInv, EventTypeOK
    <3>3. connected' \in [Clients -> BOOLEAN]
      BY <1>2 DEF EventInv, EventTypeOK
    <3>4. pc' \in [Clients -> Points]
      BY <1>2 DEF EventInv, EventTypeOK, Points
    <3> QED
      BY <3>1, <3>2, <3>3, <3>4
  <2> QED
    BY <1>3, <2>2 DEF EventInv, EventTypeOK, Points, mapVars, roundVars, readVars
<1>5. Rounds' /\ NamedOnly'
  BY <1>3 DEF EventInv, Rounds, NamedOnly, mapVars, roundVars
<1>6. Agrees(c)'
  <2>1. /\ pc'[c] = p /\ ctxt'[c] # "freed" /\ ~client_inactive'[c] /\ c \notin to_signal'
        /\ ~Expects(c)'
    BY <1>1, <1>2, <1>3 DEF EventInv, EventTypeOK, Expects, mapVars, roundVars
  <2> QED
    BY <2>1 DEF Agrees, Active, Expects
<1>7. ASSUME NEW d \in Clients, d # c PROVE Agrees(d)'
  <2>1. /\ pc'[d] = pc[d] /\ wanted'[d] = wanted[d] /\ ctxt'[d] = ctxt[d]
        /\ connected'[d] = connected[d]
    BY <1>2, <1>7 DEF EventInv, EventTypeOK
  <2> QED
    BY <1>3, <2>1 DEF EventInv, Agrees, Expects, mapVars, roundVars
<1> QED
  BY <1>4, <1>5, <1>6, <1>7 DEF EventInv

\* A thread leaves only when it is marked, and frees its context after that.
LEMMA ThreadPreserves ==
  ASSUME EventInv, NEW c \in Clients,
         SubscribeTest(c) \/ SubscribeWait(c) \/ SpuriousWakeup(c) \/ SubscribeLeave(c)
  PROVE  EventInv'
<1>1. /\ EventTypeOK' /\ Rounds' /\ NamedOnly'
  BY DEF SubscribeTest, SubscribeWait, SpuriousWakeup, SubscribeLeave, EventInv, EventTypeOK,
         Rounds, NamedOnly, mapVars, roundVars, readVars
<1>2. UNCHANGED <<wanted, mapVars, roundVars, connected, client_inactive>>
  BY DEF SubscribeTest, SubscribeWait, SpuriousWakeup, SubscribeLeave
<1>3. Agrees(c)'
  <2>1. /\ Agrees(c) /\ pc \in [Clients -> Points]
        /\ ctxt \in [Clients -> {"none", "live", "freed"}]
    BY DEF EventInv, EventTypeOK, Points
  <2>2. CASE SubscribeTest(c)
    BY <1>2, <2>1, <2>2 DEF SubscribeTest, Agrees, Expects, Active, mapVars, roundVars
  <2>3. CASE SubscribeWait(c) \/ SpuriousWakeup(c)
    BY <1>2, <2>1, <2>3
       DEF SubscribeWait, SpuriousWakeup, Agrees, Expects, Active, mapVars, roundVars
  <2>4. CASE SubscribeLeave(c)
    BY <1>2, <2>1, <2>4 DEF SubscribeLeave, Agrees, Expects, Active, mapVars, roundVars
  <2> QED
    BY <2>2, <2>3, <2>4
<1>4. ASSUME NEW d \in Clients, d # c PROVE Agrees(d)'
  <2>1. pc'[d] = pc[d] /\ ctxt'[d] = ctxt[d]
    BY <1>4 DEF SubscribeTest, SubscribeWait, SpuriousWakeup, SubscribeLeave, EventInv,
                EventTypeOK
  <2> QED
    BY <1>2, <2>1 DEF EventInv, Agrees, Expects, mapVars, roundVars
<1> QED
  BY <1>1, <1>3, <1>4 DEF EventInv

LEMMA DisconnectPreserves ==
  ASSUME EventInv, NEW c \in Clients, Disconnect(c)
  PROVE  EventInv'
<1>1. /\ EventTypeOK' /\ Rounds' /\ NamedOnly'
  BY DEF Disconnect, EventInv, EventTypeOK, Rounds, NamedOnly, threadVars, mapVars, roundVars,
         readVars
<1>2. ASSUME NEW d \in Clients PROVE Agrees(d)'
  BY DEF Disconnect, EventInv, EventTypeOK, Agrees, Expects, threadVars, mapVars, roundVars
<1> QED
  BY <1>1, <1>2 DEF EventInv

LEMMA ReadPreserves ==
  ASSUME EventInv, ReadStart \/ \E g \in Gpus : ReadDevice(g)
  PROVE  EventInv'
<1>1. EventTypeOK'
  <2>1. CASE ReadStart
    BY <2>1, EventAssumption
       DEF ReadStart, EventInv, EventTypeOK, threadVars, mapVars, roundVars
  <2>2. ASSUME NEW g \in Gpus, ReadDevice(g) PROVE EventTypeOK'
    BY <2>2 DEF ReadDevice, EventInv, EventTypeOK, threadVars, mapVars, roundVars
  <2> QED
    BY <2>1, <2>2
<1>2. UNCHANGED <<threadVars, mapVars, roundVars, connected, client_inactive>>
  BY DEF ReadStart, ReadDevice
<1> QED
  BY <1>1, <1>2 DEF EventInv, Rounds, NamedOnly, Agrees, Expects, threadVars, mapVars, roundVars

-----------------------------------------------------------------------------
(* The event monitor.                                                      *)

\* A request is served between rounds, so nothing is being erased or woken up.
LEMMA RegisterPreserves ==
  ASSUME EventInv, NEW c \in Clients, SubscribeRegister(c)
  PROVE  EventInv'
<1>1. /\ ~client_inactive[c] /\ to_erase = {} /\ to_signal = {} /\ inactive = {}
      /\ to_write = {}
  BY DEF SubscribeRegister, MonitorIdle, EventInv, Rounds, Agrees, Active
<1>2. /\ UNCHANGED <<wanted, ctxt, roundVars, readVars, connected, client_inactive, agent>>
      /\ pc' = [pc EXCEPT ![c] = "test"]
  BY DEF SubscribeRegister
<1>3. wanted[c] \subseteq Pairs /\ Pairs \subseteq AllPairs
  BY DEF EventInv, EventTypeOK, Pairs, AllPairs
<1>4. CASE EventsDisabled
  <2>1. UNCHANGED mapVars
    BY <1>4 DEF SubscribeRegister
  <2>2. EventTypeOK' /\ Rounds' /\ NamedOnly'
    BY <1>2, <2>1 DEF EventInv, EventTypeOK, Rounds, NamedOnly, mapVars, roundVars, readVars
  <2>3. ASSUME NEW d \in Clients PROVE Agrees(d)'
    BY <1>1, <1>2, <1>4, <2>1
       DEF EventInv, EventTypeOK, Agrees, Expects, Active, mapVars, roundVars
  <2> QED
    BY <2>2, <2>3 DEF EventInv
<1>5. CASE ~EventsDisabled
  <2>1. /\ event_map' = event_map \union wanted[c] /\ happened' = happened
        /\ client_set' = [p \in AllPairs |-> IF p \in wanted[c]
                                             THEN client_set[p] \union {c}
                                             ELSE client_set[p]]
    BY <1>5 DEF SubscribeRegister
  <2>2. EventTypeOK'
    BY <1>2, <1>3, <2>1 DEF EventInv, EventTypeOK, roundVars, readVars
  <2>3. Rounds'
    BY <1>2 DEF EventInv, Rounds, roundVars
  <2>4. NamedOnly'
    BY <1>3, <2>1, EventAssumption DEF EventInv, NamedOnly, Pairs, AllPairs
  <2>5. Agrees(c)'
    <3>1. \A p \in wanted'[c] : c \in client_set'[p]
      BY <1>2, <1>3, <2>1
    <3>2. pc'[c] = "test" /\ client_inactive' = client_inactive /\ ctxt' = ctxt
      BY <1>2 DEF EventInv, EventTypeOK
    <3> QED
      BY <1>1, <1>2, <3>1, <3>2 DEF EventInv, Agrees, Expects, Active, roundVars
  <2>6. ASSUME NEW d \in Clients, d # c PROVE Agrees(d)'
    <3>1. \A p \in AllPairs : d \in client_set'[p] <=> d \in client_set[p]
      BY <2>1, <2>6
    <3>2. pc'[d] = pc[d] /\ wanted' = wanted
      BY <1>2, <2>6 DEF EventInv, EventTypeOK
    <3>3. wanted[d] \subseteq AllPairs
      BY DEF EventInv, EventTypeOK, Pairs, AllPairs
    <3> QED
      BY <1>1, <1>2, <3>1, <3>2, <3>3 DEF EventInv, Agrees, Expects, Active, roundVars
  <2> QED
    BY <2>2, <2>3, <2>4, <2>5, <2>6 DEF EventInv
<1> QED
  BY <1>4, <1>5

LEMMA HandlePreserves ==
  ASSUME EventInv, NEW b \in Batches, HandleEvents(b)
  PROVE  EventInv'
<1>1. EventTypeOK'
  BY DEF HandleEvents, EventInv, EventTypeOK, threadVars, mapVars, readVars
<1>2. Rounds' /\ NamedOnly'
  BY TailOfBatch DEF HandleEvents, MonitorIdle, EventInv, Rounds, NamedOnly, mapVars
<1>3. ASSUME NEW d \in Clients PROVE Agrees(d)'
  BY DEF HandleEvents, EventInv, Agrees, Expects, threadVars, mapVars
<1> QED
  BY <1>1, <1>2, <1>3 DEF EventInv

LEMMA RecordPreserves ==
  ASSUME EventInv, EventRecord
  PROVE  EventInv'
<1>1. Head(batch) \in AllPairs /\ batch \in Batches
  BY TailOfBatch DEF EventRecord, EventInv, EventTypeOK
<1>2. slock' \in Gpus
  BY EventAssumption DEF EventRecord
<1>3. EventTypeOK'
  BY <1>1, <1>2 DEF EventRecord, EventInv, EventTypeOK, threadVars, readVars
<1>4. Rounds' /\ NamedOnly'
  BY <1>2, EventAssumption DEF EventRecord, EventInv, Rounds, NamedOnly
<1>5. ASSUME NEW d \in Clients PROVE Agrees(d)'
  <2>1. d \in to_write' => Expects(d)
    BY <1>1 DEF EventRecord, Expects
  <2> QED
    BY <2>1 DEF EventRecord, EventInv, Agrees, Expects, threadVars
<1> QED
  BY <1>3, <1>4, <1>5 DEF EventInv

\* The clean-up of a round starts with no erasing or waking up left from the last.
LEMMA DonePreserves ==
  ASSUME EventInv, EventSkip \/ EventDone
  PROVE  EventInv'
<1>1. /\ batch # <<>> /\ to_write = {} /\ slock' = NoGpu
      /\ to_write' = {} /\ StartCleanup(Tail(batch), inactive)
      /\ UNCHANGED <<threadVars, mapVars, signalling, readVars, connected, client_inactive,
                     agent>>
  BY DEF EventSkip, EventDone, EventInv, Rounds
<1>2. Tail(batch) \in Batches \union {<<>>} /\ to_erase = {} /\ to_signal = {}
  BY <1>1, TailOfBatch DEF EventInv, EventTypeOK, Rounds
<1>3. /\ batch' = Tail(batch)
      /\ inactive' = IF Tail(batch) = <<>> THEN {} ELSE inactive
      /\ to_erase' = IF Tail(batch) = <<>> THEN Gpus \X inactive ELSE {}
      /\ to_signal' = IF Tail(batch) = <<>> THEN inactive ELSE {}
  BY <1>1 DEF StartCleanup
<1>4. EventTypeOK'
  BY <1>1, <1>2, <1>3 DEF EventInv, EventTypeOK, threadVars, mapVars, readVars
<1>5. Rounds' /\ NamedOnly'
  BY <1>1, <1>3 DEF EventInv, Rounds, NamedOnly, mapVars
<1>6. ASSUME NEW d \in Clients PROVE Agrees(d)'
  <2>1. Expects(d)' => Expects(d)
    BY <1>1, <1>3 DEF Expects, mapVars
  <2>2. d \in inactive' \/ d \in to_signal' \/ (\E g \in Gpus : <<g, d>> \in to_erase')
           => d \in inactive /\ Expects(d)
    BY <1>3 DEF Expects
  <2>3. d \in to_signal' => \A g \in Gpus : <<g, d>> \in to_erase'
    BY <1>3
  <2> QED
    BY <1>1, <2>1, <2>2, <2>3 DEF EventInv, Agrees, threadVars, mapVars
<1> QED
  BY <1>4, <1>5, <1>6 DEF EventInv

LEMMA WritePreserves ==
  ASSUME EventInv, NEW c \in Clients, NotifyWrite(c)
  PROVE  EventInv'
<1>1. /\ c \in to_write /\ to_write' = to_write \ {c}
      /\ inactive' = IF connected[c] THEN inactive ELSE inactive \union {c}
      /\ UNCHANGED <<threadVars, mapVars, batch, slock, to_erase, to_signal, signalling,
                     readVars, connected, client_inactive>>
      /\ agent' \in {"ok", "undefined", "crashed"}
  BY DEF NotifyWrite, Touch, EventInv, EventTypeOK
<1>2. EventTypeOK'
  BY <1>1 DEF EventInv, EventTypeOK, threadVars, mapVars, readVars
<1>3. Rounds' /\ NamedOnly'
  BY <1>1 DEF EventInv, Rounds, NamedOnly, mapVars
<1>4. ASSUME NEW d \in Clients PROVE Agrees(d)'
  <2>1. Expects(d)' => Expects(d)
    BY <1>1 DEF Expects, mapVars
  <2>2. d \in inactive' => d \in inactive \/ ~connected[d]
    BY <1>1
  <2> QED
    BY <1>1, <2>1, <2>2 DEF EventInv, Agrees, threadVars, mapVars
<1> QED
  BY <1>2, <1>3, <1>4 DEF EventInv

\* Erasing one context takes only that one out of the sets of one device.
LEMMA ErasePreserves ==
  ASSUME EventInv, NEW g \in Gpus, NEW c \in Clients, CleanupErase(g, c)
  PROVE  EventInv'
<1>1. /\ <<g, c>> \in to_erase /\ to_erase' = to_erase \ {<<g, c>>}
      /\ event_map' = event_map \union ({g} \X Events)
      /\ client_set' = [p \in AllPairs |-> IF p \in {g} \X Events
                                           THEN client_set[p] \ {c} ELSE client_set[p]]
      /\ UNCHANGED <<threadVars, happened, batch, slock, to_write, inactive, to_signal,
                     signalling, readVars, connected, client_inactive, agent>>
  BY DEF CleanupErase
<1>2. {g} \X Events \subseteq AllPairs
  BY DEF AllPairs
<1>3. EventTypeOK'
  BY <1>1, <1>2 DEF EventInv, EventTypeOK, threadVars, readVars
<1>4. Rounds'
  BY <1>1 DEF EventInv, Rounds
<1>5. NamedOnly'
  BY <1>1 DEF EventInv, NamedOnly, AllPairs
<1>6. ~connected[c]
  BY <1>1 DEF EventInv, Agrees
<1>7. ASSUME NEW d \in Clients PROVE Agrees(d)'
  <2>1. /\ \A p \in AllPairs : d \in client_set'[p] => d \in client_set[p]
        /\ \A e \in Events : ~(c \in client_set'[<<g, e>>])
        /\ d # c => \A p \in AllPairs : client_set'[p] \subseteq client_set[p]
                                    /\ (d \in client_set[p] => d \in client_set'[p])
    BY <1>1, <1>2
  <2>2. Expects(d)' => Expects(d)
    BY <1>1, <2>1 DEF Expects
  <2>3. \A h \in Gpus, e \in Events : <<h, e>> \in AllPairs
    BY DEF AllPairs
  <2>4. d \in to_signal => \A h \in Gpus, e \in Events :
                             d \in client_set'[<<h, e>>] => <<h, d>> \in to_erase'
    BY <1>1, <2>1, <2>3 DEF EventInv, Agrees
  <2>5. wanted[d] \subseteq AllPairs
    BY DEF EventInv, EventTypeOK, Pairs, AllPairs
  <2>6. ~EventsDisabled /\ connected'[d] /\ pc'[d] \in Active =>
           \A p \in wanted'[d] : d \in client_set'[p]
    BY <1>1, <1>6, <2>1, <2>5 DEF EventInv, Agrees, threadVars
  <2> QED
    BY <1>1, <2>2, <2>4, <2>6 DEF EventInv, Agrees, threadVars
<1> QED
  BY <1>3, <1>4, <1>5, <1>7 DEF EventInv

\* A context that is marked is in no set any more and on no other list.
LEMMA MarkPreserves ==
  ASSUME EventInv, NEW c \in Clients, CleanupMark(c)
  PROVE  EventInv' /\ ~connected[c] /\ pc[c] # "start" /\ (pc[c] = "returned" => client_inactive[c])
<1>1. /\ to_erase = {} /\ c \in to_signal /\ signalling' = {c}
      /\ client_inactive' = [client_inactive EXCEPT ![c] = TRUE]
      /\ UNCHANGED <<threadVars, mapVars, batch, slock, to_write, inactive, to_erase,
                     to_signal, readVars, connected>>
      /\ agent' \in {"ok", "undefined", "crashed"}
  BY DEF CleanupMark, Touch, EventInv, EventTypeOK
<1>2. /\ Agrees(c) /\ ~connected[c]
      /\ pc[c] \in Active \union {"leave", "returned"}
      /\ pc[c] = "returned" => client_inactive[c]
  BY <1>1 DEF EventInv, Agrees, Active
<1>3. ~Expects(c)
  <2>1. batch = <<>> /\ to_write = {} /\ inactive = {}
    BY <1>1 DEF EventInv, Rounds
  <2>2. \A g \in Gpus, e \in Events : c \notin client_set[<<g, e>>]
    BY <1>1, <1>2 DEF Agrees
  <2>3. \A p \in AllPairs : c \notin client_set[p]
    BY <2>2 DEF EventInv, NamedOnly, AllPairs
  <2> QED
    BY <1>1, <2>1, <2>3 DEF Expects
<1>4. EventTypeOK'
  BY <1>1 DEF EventInv, EventTypeOK, threadVars, mapVars, readVars
<1>5. Rounds' /\ NamedOnly'
  BY <1>1 DEF EventInv, Rounds, NamedOnly, mapVars
<1>6. ASSUME NEW d \in Clients PROVE Agrees(d)'
  <2>1. Expects(d)' => Expects(d) /\ d # c
    BY <1>1, <1>3 DEF Expects, mapVars
  <2>2. client_inactive'[d] => client_inactive[d] \/ d = c
    BY <1>1 DEF EventInv, EventTypeOK
  <2>3. client_inactive[d] => client_inactive'[d]
    BY <1>1 DEF EventInv, EventTypeOK
  <2> QED
    BY <1>1, <1>2, <2>1, <2>2, <2>3 DEF EventInv, Agrees, threadVars, mapVars
<1> QED
  BY <1>2, <1>4, <1>5, <1>6 DEF EventInv, Active

LEMMA SignalPreserves ==
  ASSUME EventInv, NEW c \in Clients, CleanupSignal(c)
  PROVE  EventInv'
<1>1. /\ c \in signalling /\ signalling' = {} /\ to_signal' = to_signal \ {c}
      /\ pc' = IF pc[c] = "waiting" THEN [pc EXCEPT ![c] = "test"] ELSE pc
      /\ UNCHANGED <<wanted, ctxt, mapVars, batch, slock, to_write, inactive, to_erase,
                     readVars, connected, client_inactive>>
      /\ agent' \in {"ok", "undefined", "crashed"}
  BY DEF CleanupSignal, Touch, EventInv, EventTypeOK
<1>2. EventTypeOK'
  BY <1>1 DEF EventInv, EventTypeOK, mapVars, readVars
<1>3. Rounds' /\ NamedOnly'
  BY <1>1 DEF EventInv, Rounds, NamedOnly, mapVars
<1>4. ASSUME NEW d \in Clients PROVE Agrees(d)'
  <2>1. /\ pc'[d] \in Active <=> pc[d] \in Active
        /\ pc[d] \notin Active => pc'[d] = pc[d]
    BY <1>1 DEF EventInv, EventTypeOK, Active
  <2>2. Expects(d)' <=> Expects(d)
    BY <1>1 DEF Expects, mapVars
  <2>3. pc'[d] = "leave" => pc[d] = "leave"
    BY <2>1 DEF Active
  <2> QED
    BY <1>1, <2>1, <2>2, <2>3 DEF EventInv, Agrees, mapVars
<1> QED
  BY <1>2, <1>3, <1>4 DEF EventInv

-----------------------------------------------------------------------------
LEMMA InitHolds == EventInit => EventInv
<1> SUFFICES ASSUME EventInit PROVE EventInv
  OBVIOUS
<1>1. EventTypeOK
  BY EventAssumption DEF EventInit, EventTypeOK
<1>2. Rounds /\ NamedOnly
  BY DEF EventInit, Rounds, NamedOnly, AllPairs
<1>3. ASSUME NEW c \in Clients PROVE Agrees(c)
  BY <1>3 DEF EventInit, Agrees, Expects, Active
<1> QED
  BY <1>1, <1>2, <1>3 DEF EventInv

\* Every step is one of these; a poll and a generate request start a round.
LEMMA Steps ==
  ASSUME [EventNext]_eventVars
  PROVE  \/ UNCHANGED eventVars
         \/ \E c \in Clients : \/ SubscribeStart(c) \/ Disconnect(c) \/ SubscribeRegister(c)
                              \/ SubscribeTest(c) \/ SubscribeWait(c) \/ SpuriousWakeup(c)
                              \/ SubscribeLeave(c) \/ NotifyWrite(c) \/ CleanupMark(c)
                              \/ CleanupSignal(c)
         \/ \E b \in Batches : HandleEvents(b)
         \/ EventSkip \/ EventDone \/ EventRecord
         \/ \E g \in Gpus, c \in Clients : CleanupErase(g, c)
         \/ ReadStart \/ \E g \in Gpus : ReadDevice(g)
BY DEF EventNext, Thread, Monitor, EventPoll, EventGen

LEMMA StepPreserves ==
  ASSUME EventInv, [EventNext]_eventVars
  PROVE  EventInv'
<1>1. CASE UNCHANGED eventVars
  BY <1>1 DEF eventVars, threadVars, mapVars, roundVars, readVars, EventInv, EventTypeOK, Rounds,
              NamedOnly, Agrees, Expects
<1>2. ASSUME NEW c \in Clients,
             \/ SubscribeStart(c) \/ Disconnect(c) \/ SubscribeRegister(c)
             \/ SubscribeTest(c) \/ SubscribeWait(c) \/ SpuriousWakeup(c)
             \/ SubscribeLeave(c) \/ NotifyWrite(c) \/ CleanupMark(c) \/ CleanupSignal(c)
      PROVE  EventInv'
  BY <1>2, StartPreserves, ThreadPreserves, DisconnectPreserves, RegisterPreserves, WritePreserves,
     MarkPreserves, SignalPreserves
<1>3. ASSUME NEW b \in Batches, HandleEvents(b) PROVE EventInv'
  BY <1>3, HandlePreserves
<1>4. CASE EventSkip \/ EventDone \/ EventRecord
  BY <1>4, DonePreserves, RecordPreserves
<1>5. ASSUME NEW g \in Gpus, NEW c \in Clients, CleanupErase(g, c) PROVE EventInv'
  BY <1>5, ErasePreserves
<1>6. CASE ReadStart \/ \E g \in Gpus : ReadDevice(g)
  BY <1>6, ReadPreserves
<1> QED
  BY <1>1, <1>2, <1>3, <1>4, <1>5, <1>6, Steps

THEOREM EventInvariant == EventSpec => []EventInv
BY InitHolds, StepPreserves, PTL DEF EventSpec

\* The event monitor never writes to or erases a context whose thread has freed
\* it, and no freed context stays in a client_set.
THEOREM FreedForgotten == EventSpec => []FreedIsForgotten
<1>1. EventInv => FreedIsForgotten
  <2> SUFFICES ASSUME EventInv, NEW c \in Clients, ctxt[c] = "freed"
               PROVE  /\ ~Listens(c) /\ c \notin to_write \union inactive
                      /\ \A g \in Gpus : <<g, c>> \notin to_erase
    BY DEF FreedIsForgotten
  <2>1. ~Expects(c)
    BY DEF EventInv, Agrees
  <2> QED
    BY <2>1 DEF Expects, Listens
<1> QED
  BY <1>1, EventInvariant, PTL

\* Retiring a listener never takes a connected one out of a set, if events are
\* enabled.
THEOREM ConnectedListens == ~EventsDisabled => (EventSpec => []ConnectedKeepsListening)
<1>1. ~EventsDisabled /\ EventInv => ConnectedKeepsListening
  BY DEF EventInv, Agrees, ConnectedKeepsListening, Active
<1>2. CASE ~EventsDisabled
  <2>1. EventInv => ConnectedKeepsListening
    BY <1>1, <1>2
  <2> QED
    BY <2>1, EventInvariant, PTL
<1> QED
  BY <1>2

\* A step that leaves pc, connected and client_inactive alone is a stutter.
LEMMA CallStands ==
  ASSUME UNCHANGED <<pc, connected, client_inactive>>
  PROVE  [c \in Clients |-> CallOf(c)]' = [c \in Clients |-> CallOf(c)] /\ Gone' = Gone
BY DEF CallOf, Gone

\* The steps of one call, as Subscription sees them.
LEMMA CallStep ==
  ASSUME EventInv, EventInv', NEW c \in Clients,
         \A d \in Clients \ {c} : CallOf(d)' = CallOf(d) /\ (d \in Gone' <=> d \in Gone),
         \/ CallOf(c)' = CallOf(c) /\ (c \in Gone' <=> c \in Gone)
         \/ CallOf(c) = "idle" /\ CallOf(c)' = "asked" /\ c \notin Gone /\ c \notin Gone'
         \/ CallOf(c) = "idle" /\ CallOf(c)' = "refused" /\ c \notin Gone'
         \/ CallOf(c) \in {"asked", "told"} /\ CallOf(c)' = CallOf(c) /\ c \in Gone'
         \/ CallOf(c) = "asked" /\ CallOf(c)' = "told" /\ c \in Gone /\ c \in Gone'
         \/ CallOf(c) = "told" /\ CallOf(c)' = "returned" /\ c \notin Gone'
  PROVE  \/ [d \in Clients |-> CallOf(d)]' = [d \in Clients |-> CallOf(d)] /\ Gone' = Gone
         \/ Promised!Next
<1> DEFINE call == [d \in Clients |-> CallOf(d)]
<1>1. \A status : CallOf(c)' = status => call' = [call EXCEPT ![c] = status]
  OBVIOUS
<1>2. Gone \subseteq Clients /\ Gone' \subseteq Clients
  BY DEF Gone
<1>3. call[c] = CallOf(c)
  OBVIOUS
<1>4. CASE CallOf(c)' = CallOf(c) /\ (c \in Gone' <=> c \in Gone)
  BY <1>2, <1>4
<1>5. CASE CallOf(c) = "idle" /\ CallOf(c)' = "asked" /\ c \notin Gone /\ c \notin Gone'
  <2>1. Gone' = Gone
    BY <1>2, <1>5
  <2>2. Promised!Ask(c)
    BY <1>1, <1>3, <1>5, <2>1 DEF Promised!Ask, Promised!To
  <2> QED
    BY <2>2 DEF Promised!Next
<1>6. CASE CallOf(c) = "idle" /\ CallOf(c)' = "refused" /\ c \notin Gone'
  <2>1. Gone' = Gone \ {c}
    BY <1>2, <1>6
  <2>2. Promised!Refuse(c)
    BY <1>1, <1>3, <1>6, <2>1 DEF Promised!Refuse, Promised!To
  <2> QED
    BY <2>2 DEF Promised!Next
<1>7. CASE CallOf(c) \in {"asked", "told"} /\ CallOf(c)' = CallOf(c) /\ c \in Gone'
  <2>1. Gone' = Gone \union {c} /\ call' = call
    BY <1>2, <1>7
  <2>2. Promised!Leave(c)
    BY <1>3, <1>7, <2>1 DEF Promised!Leave
  <2> QED
    BY <2>2 DEF Promised!Next
<1>8. CASE CallOf(c) = "asked" /\ CallOf(c)' = "told" /\ c \in Gone /\ c \in Gone'
  <2>1. Gone' = Gone
    BY <1>2, <1>8
  <2>2. Promised!Tell(c)
    BY <1>1, <1>3, <1>8, <2>1 DEF Promised!Tell, Promised!To
  <2> QED
    BY <2>2 DEF Promised!Next
<1>9. CASE CallOf(c) = "told" /\ CallOf(c)' = "returned" /\ c \notin Gone'
  <2>1. Gone' = Gone \ {c}
    BY <1>2, <1>9
  <2>2. Promised!Return(c)
    BY <1>1, <1>3, <1>9, <2>1 DEF Promised!Return, Promised!To
  <2> QED
    BY <2>2 DEF Promised!Next
<1> QED
  BY <1>4, <1>5, <1>6, <1>7, <1>8, <1>9

\* What a step of the code is to the call of the client it is about.
LEMMA StepOfCall ==
  ASSUME EventInv, EventInv', NEW c \in Clients,
         \/ SubscribeStart(c) \/ Disconnect(c) \/ SubscribeRegister(c) \/ SubscribeTest(c)
         \/ SubscribeWait(c) \/ SpuriousWakeup(c) \/ SubscribeLeave(c) \/ NotifyWrite(c)
         \/ CleanupMark(c) \/ CleanupSignal(c)
  PROVE  \/ [d \in Clients |-> CallOf(d)]' = [d \in Clients |-> CallOf(d)] /\ Gone' = Gone
         \/ Promised!Next
<1> DEFINE Ended == {"start", "returned"}
<1>1. /\ pc \in [Clients -> Points] /\ connected \in [Clients -> BOOLEAN]
      /\ client_inactive \in [Clients -> BOOLEAN] /\ Agrees(c)
  BY DEF EventInv, EventTypeOK, Points
<1>2. \A d \in Clients :
        /\ pc'[d] = pc[d] /\ connected'[d] = connected[d]
           /\ client_inactive'[d] = client_inactive[d]
             => CallOf(d)' = CallOf(d) /\ (d \in Gone' <=> d \in Gone)
        /\ pc[d] \notin Ended /\ pc'[d] \notin Ended /\ connected'[d] = connected[d]
           /\ client_inactive'[d] = client_inactive[d]
             => CallOf(d)' = CallOf(d) /\ (d \in Gone' <=> d \in Gone)
  BY DEF CallOf, Gone
<1>3. \A d \in Clients \ {c} : CallOf(d)' = CallOf(d) /\ (d \in Gone' <=> d \in Gone)
  <2>1. \A d \in Clients \ {c} : /\ pc'[d] = pc[d] /\ connected'[d] = connected[d]
                                 /\ client_inactive'[d] = client_inactive[d]
    BY <1>1 DEF SubscribeStart, Disconnect, SubscribeRegister, SubscribeTest, SubscribeWait,
                SpuriousWakeup, SubscribeLeave, NotifyWrite, CleanupMark, CleanupSignal, threadVars
  <2> QED
    BY <1>2, <2>1
<1>4. CASE SubscribeStart(c)
  <2>1. /\ pc[c] = "start" /\ ~client_inactive[c] /\ client_inactive' = client_inactive
        /\ pc'[c] \in {"register", "returned"}
        /\ pc'[c] = "register" => connected'[c]
    BY <1>1, <1>4 DEF SubscribeStart, Agrees, Active
  <2>2. CallOf(c) = "idle" /\ c \notin Gone
    BY <2>1 DEF CallOf, Gone
  <2>3. pc'[c] = "register" => CallOf(c)' = "asked" /\ c \notin Gone'
    BY <2>1 DEF CallOf, Gone
  <2>4. pc'[c] = "returned" => CallOf(c)' = "refused" /\ c \notin Gone'
    BY <2>1 DEF CallOf, Gone
  <2> QED
    BY <1>3, <2>1, <2>2, <2>3, <2>4, CallStep
<1>5. CASE Disconnect(c)
  <2>1. /\ pc[c] \notin Ended /\ ~connected'[c]
        /\ pc' = pc /\ client_inactive' = client_inactive
    BY <1>1, <1>5 DEF Disconnect, threadVars
  <2>2. CallOf(c) \in {"asked", "told"} /\ CallOf(c)' = CallOf(c) /\ c \in Gone'
    BY <2>1 DEF CallOf, Gone
  <2> QED
    BY <1>3, <2>2, CallStep
<1>6. CASE SubscribeLeave(c)
  <2>1. /\ pc[c] = "leave" /\ pc'[c] = "returned" /\ client_inactive[c]
        /\ client_inactive' = client_inactive
    BY <1>1, <1>6 DEF SubscribeLeave, Agrees
  <2>2. CallOf(c) = "told" /\ CallOf(c)' = "returned" /\ c \notin Gone'
    BY <2>1 DEF CallOf, Gone
  <2> QED
    BY <1>3, <2>2, CallStep
<1>7. CASE CleanupMark(c)
  <2>1. /\ client_inactive'[c] /\ pc' = pc /\ connected' = connected
        /\ ~connected[c] /\ pc[c] # "start" /\ (pc[c] = "returned" => client_inactive[c])
    BY <1>1, <1>7, MarkPreserves DEF CleanupMark, threadVars
  <2>2. CASE client_inactive[c]
    <3>1. client_inactive'[c] = client_inactive[c]
      BY <1>1, <1>7, <2>2 DEF CleanupMark
    <3> QED
      BY <1>2, <1>3, <2>1, <3>1, CallStep
  <2>3. CASE ~client_inactive[c]
    <3>1. CallOf(c) = "asked" /\ CallOf(c)' = "told" /\ c \in Gone /\ c \in Gone'
      BY <2>1, <2>3 DEF CallOf, Gone
    <3> QED
      BY <1>3, <3>1, CallStep
  <2> QED
    BY <2>2, <2>3
<1>8. CASE \/ SubscribeRegister(c) \/ SubscribeTest(c) \/ SubscribeWait(c)
           \/ SpuriousWakeup(c) \/ NotifyWrite(c) \/ CleanupSignal(c)
  <2>1. /\ pc'[c] = pc[c] \/ (pc[c] \notin Ended /\ pc'[c] \notin Ended)
        /\ connected' = connected /\ client_inactive' = client_inactive
    BY <1>1, <1>8 DEF SubscribeRegister, SubscribeTest, SubscribeWait, SpuriousWakeup,
                      NotifyWrite, CleanupSignal, threadVars
  <2>2. CallOf(c)' = CallOf(c) /\ (c \in Gone' <=> c \in Gone)
    BY <1>2, <2>1
  <2> QED
    BY <1>3, <2>2, CallStep
<1> QED
  BY <1>4, <1>5, <1>6, <1>7, <1>8

\* A call is told to end only after its client left, and returns only when told.
THEOREM PromiseKept == EventSpec => EventKeepsPromise
<1>1. EventInit => Promised!Init
  BY DEF EventInit, Promised!Init, CallOf, Gone
<1>2. EventInv /\ EventInv' /\ [EventNext]_eventVars
         => [Promised!Next]_<<[c \in Clients |-> CallOf(c)], Gone>>
  <2> DEFINE call == [c \in Clients |-> CallOf(c)]
  <2> SUFFICES ASSUME EventInv, EventInv', [EventNext]_eventVars
               PROVE  (call' = call /\ Gone' = Gone) \/ Promised!Next
    OBVIOUS
  <2>1. ASSUME NEW c \in Clients,
               \/ SubscribeStart(c) \/ Disconnect(c) \/ SubscribeRegister(c)
               \/ SubscribeTest(c) \/ SubscribeWait(c) \/ SpuriousWakeup(c)
               \/ SubscribeLeave(c) \/ NotifyWrite(c) \/ CleanupMark(c) \/ CleanupSignal(c)
        PROVE  (call' = call /\ Gone' = Gone) \/ Promised!Next
    BY <2>1, StepOfCall
  <2>2. CASE \/ UNCHANGED eventVars
             \/ \E b \in Batches : HandleEvents(b)
             \/ EventSkip \/ EventDone \/ EventRecord
             \/ \E g \in Gpus, c \in Clients : CleanupErase(g, c)
             \/ ReadStart \/ \E g \in Gpus : ReadDevice(g)
    <3>1. UNCHANGED <<pc, connected, client_inactive>>
      BY <2>2 DEF eventVars, threadVars, HandleEvents, EventSkip, EventDone, EventRecord,
                  CleanupErase, ReadStart, ReadDevice
    <3> QED
      BY <3>1, CallStands
  <2> QED
    BY <2>1, <2>2, Steps
<1> QED
  BY <1>1, <1>2, EventInvariant, PTL DEF EventSpec, EventKeepsPromise, Promised!Spec

-----------------------------------------------------------------------------
(* EventGet.                                                               *)

\* What had happened when an EventGet started is of devices it reads, is still
\* recorded, and has been reported unless its device has still to be read.
ReadAgrees ==
    /\ \A p \in happened : p[1] \in GpuObjects
    /\ before \subseteq happened
    /\ \A p \in before : p[1] \in to_read \/ p \in reported

LEMMA ReadAgreesInit == EventInit => ReadAgrees
BY DEF EventInit, ReadAgrees

LEMMA ReadAgreesStep ==
  ASSUME EventInv, ReadAgrees, [EventNext]_eventVars
  PROVE  ReadAgrees'
<1>1. CASE UNCHANGED <<happened, readVars>>
  BY <1>1 DEF ReadAgrees, readVars
<1>2. CASE EventRecord
  BY <1>2 DEF EventRecord, ReadAgrees, readVars
<1>3. CASE ReadStart
  BY <1>3 DEF ReadStart, ReadAgrees, mapVars
<1>4. ASSUME NEW g \in Gpus, ReadDevice(g) PROVE ReadAgrees'
  <2>1. \A p \in before : p \in event_map
    BY DEF EventInv, EventTypeOK, ReadAgrees
  <2> QED
    BY <1>4, <2>1 DEF ReadDevice, ReadAgrees, mapVars
<1>5. ASSUME NEW c \in Clients,
             \/ SubscribeStart(c) \/ Disconnect(c) \/ SubscribeRegister(c)
             \/ SubscribeTest(c) \/ SubscribeWait(c) \/ SpuriousWakeup(c)
             \/ SubscribeLeave(c) \/ NotifyWrite(c) \/ CleanupMark(c) \/ CleanupSignal(c)
      PROVE  ReadAgrees'
  <2>1. UNCHANGED <<happened, readVars>>
    BY <1>5 DEF SubscribeStart, SubscribeRegister, SubscribeTest, SubscribeWait,
                SubscribeLeave, SpuriousWakeup, Disconnect, NotifyWrite, CleanupMark,
                CleanupSignal, mapVars
  <2> QED
    BY <1>1, <2>1
<1>6. CASE \/ UNCHANGED eventVars \/ \E b \in Batches : HandleEvents(b)
           \/ EventSkip \/ EventDone
           \/ \E g \in Gpus, c \in Clients : CleanupErase(g, c)
  <2>1. UNCHANGED <<happened, readVars>>
    BY <1>6 DEF HandleEvents, EventSkip, EventDone, CleanupErase, eventVars, mapVars
  <2> QED
    BY <1>1, <2>1
<1> QED
  BY <1>2, <1>3, <1>4, <1>5, <1>6, Steps

\* While listeners come and go and events are recorded between the devices it reads, an
\* EventGet misses nothing that had happened when it began (event_read).
THEOREM ReadMissesNothing == EventSpec => []ReadReportsThePast
<1>1. ReadAgrees => ReadReportsThePast
  BY DEF ReadAgrees, ReadReportsThePast
<1> QED
  BY <1>1, ReadAgreesInit, ReadAgreesStep, EventInvariant, PTL DEF EventSpec

-----------------------------------------------------------------------------
(***************************************************************************)
(* The parts together.  A behaviour of MCAgent is one of each of its parts *)
(* (the part that moves makes its own steps and the others stand still),   *)
(* so what is proved of a part holds of the instance that is checked.      *)
(***************************************************************************)
LEMMA AgentParts ==
  /\ AgentInit => /\ StoreInit /\ CreateInit /\ EventInit /\ RecordsInit /\ LifeInit
                  /\ GimInit /\ ShowInit
  /\ [AgentNext]_agentVars =>
         /\ [StoreNext]_storeVars /\ [CreateNext]_createVars /\ [EventNext]_eventVars
         /\ [RecordsNext]_recordsVars /\ [LifeNext]_lifeVars /\ [GimNext]_gimVars
         /\ [ShowNext]_showVars
<1>1. AgentInit => /\ StoreInit /\ CreateInit /\ EventInit /\ RecordsInit /\ LifeInit
                   /\ GimInit /\ ShowInit
  BY DEF AgentInit
<1>2. ASSUME [AgentNext]_agentVars
      PROVE  /\ [StoreNext]_storeVars /\ [CreateNext]_createVars /\ [EventNext]_eventVars
             /\ [RecordsNext]_recordsVars /\ [LifeNext]_lifeVars /\ [GimNext]_gimVars
             /\ [ShowNext]_showVars
  BY <1>2 DEF AgentNext, agentVars
<1> QED
  BY <1>1, <1>2

\* Each part of gpuagent, checked beside the others, behaves as it does alone.
THEOREM AgentIsItsParts ==
  AgentSpec => /\ StoreSpec /\ CreateSpec /\ EventSpec /\ RecordsSpec /\ LifeSpec
               /\ GimSpec /\ ShowSpec
BY AgentParts, PTL DEF AgentSpec, StoreSpec, CreateSpec, EventSpec, RecordsSpec, LifeSpec, GimSpec,
   ShowSpec

\* The types of all of them: reference counts, handles, program counters and
\* records are those the code declares.
THEOREM AgentTypeCorrect == AgentSpec => []AgentTypeOK
<1>1. /\ StoreInv => StoreTypeOK
      /\ EventInv => EventTypeOK
  BY DEF StoreInv, EventInv
<1>2. CreateInv => CreateTypeOK
  BY DEF CreateInv, CreateTyped, CreateTypeOK, ParentsPlaced, Discovered
<1>3. AgentSpec => [](/\ StoreTypeOK /\ CreateTypeOK /\ EventTypeOK /\ RecordsTypeOK /\ LifeTypeOK
                      /\ GimTypeOK /\ ShowTypeOK)
  BY <1>1, <1>2, AgentIsItsParts, StoreInvariant, EventInvariant, CreateInvariant, RecordsTypeCorrect,
     LifeTypeCorrect, GimTypeCorrect, ShowTypeCorrect, PTL
<1> QED
  BY <1>3, PTL DEF AgentTypeOK
=============================================================================
