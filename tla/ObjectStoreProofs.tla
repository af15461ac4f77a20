-------------------------- MODULE ObjectStoreProofs --------------------------
(***************************************************************************)
(* The object store.  A watched GPU is never deleted, for every set of     *)
(* keys and every bound.  Neither property of ObjectStore is inductive     *)
(* alone: a delete keeps the GPUs of the other watches present because the *)
(* count covers them, and a new GPU starts at count 0 rightly because no   *)
(* watch names an absent GPU.                                              *)
(***************************************************************************)
EXTENDS ObjectStore, FiniteSetTheorems, TLAPS

\* The inductive invariant.
StoreInv == StoreTypeOK /\ GpuWatchCountCovers /\ WatchedGpuPresent

\* The watch objects of a GPU are finitely many, so their number is a natural.
LEMMA WatchersFinite ==
  ASSUME StoreTypeOK, NEW g
  PROVE  IsFiniteSet(WatchersOf(g)) /\ Cardinality(WatchersOf(g)) \in Nat
<1>1. WatchersOf(g) \subseteq WatchKeys
  BY DEF WatchersOf, StoreTypeOK
<1> QED
  BY <1>1, StoreAssumption, FS_Subset, FS_CardinalityType

\* A rejected message, or one of another part of the agent, preserves the
\* invariant.
LEMMA UnchangedPreserves ==
  ASSUME StoreInv, UNCHANGED storeVars
  PROVE  StoreInv'
BY DEF StoreInv, StoreTypeOK, GpuWatchCountCovers, WatchedGpuPresent,
       WatchersOf, storeVars

\* gpu_entry creation (api_msg_handle_cb, API_OP_CREATE).
LEMMA GpuCreatePreserves ==
  ASSUME StoreInv, NEW g \in GpuKeys, GpuCreate(g)
  PROVE  StoreInv'
<1>1. CASE UNCHANGED storeVars
  BY <1>1, UnchangedPreserves
<1>2. CASE ~(UNCHANGED storeVars)
  <2>1. /\ g \notin gpu_db
        /\ gpu_db' = gpu_db \union {g}
        /\ num_gpu_watch' = [num_gpu_watch EXCEPT ![g] = 0]
        /\ UNCHANGED <<gpu_watch_db, spec_gpu, num_subscriber>>
    BY <1>2 DEF GpuCreate
  <2>2. StoreTypeOK'
    BY <2>1, StoreAssumption DEF StoreInv, StoreTypeOK
  <2>3. WatchedGpuPresent'
    BY <2>1 DEF StoreInv, WatchedGpuPresent
  <2>4. WatchersOf(g) = {}
    BY <2>1 DEF StoreInv, WatchedGpuPresent, WatchersOf
  <2>5. ASSUME NEW h \in gpu_db'
        PROVE  Cardinality(WatchersOf(h)') <= num_gpu_watch'[h]
    <3>1. WatchersOf(h)' = WatchersOf(h)
      BY <2>1 DEF WatchersOf
    <3>2. CASE h = g
      <4>1. Cardinality(WatchersOf(h)') = 0
        BY <2>4, <3>1, <3>2, FS_EmptySet
      <4>2. num_gpu_watch'[h] = 0
        BY <2>1, <3>2 DEF StoreInv, StoreTypeOK
      <4> QED
        BY <4>1, <4>2
    <3>3. CASE h # g
      <4>1. h \in gpu_db
        BY <2>1, <3>3
      <4>2. num_gpu_watch'[h] = num_gpu_watch[h]
        BY <2>1, <3>3, <4>1 DEF StoreInv, StoreTypeOK
      <4> QED
        BY <3>1, <4>1, <4>2 DEF StoreInv, GpuWatchCountCovers
    <3> QED
      BY <3>2, <3>3
  <2> QED
    BY <2>2, <2>3, <2>5 DEF StoreInv, GpuWatchCountCovers, WatchersOf
<1> QED
  BY <1>1, <1>2

\* gpu_entry::delete_handler: the count is zero, so no watch names the GPU.
LEMMA GpuDeletePreserves ==
  ASSUME StoreInv, NEW g \in GpuKeys, GpuDelete(g)
  PROVE  StoreInv'
<1>1. CASE UNCHANGED storeVars
  BY <1>1, UnchangedPreserves
<1>2. CASE ~(UNCHANGED storeVars)
  <2>1. /\ g \in gpu_db
        /\ num_gpu_watch[g] = 0
        /\ gpu_db' = gpu_db \ {g}
        /\ UNCHANGED <<num_gpu_watch, gpu_watch_db, spec_gpu, num_subscriber>>
    BY <1>2 DEF GpuDelete
  <2>2. StoreTypeOK'
    BY <2>1 DEF StoreInv, StoreTypeOK
  <2>3. WatchersOf(g) = {}
    <3>1. Cardinality(WatchersOf(g)) = 0
      BY <2>1, WatchersFinite DEF StoreInv, GpuWatchCountCovers
    <3> QED
      BY <3>1, WatchersFinite, FS_EmptySet DEF StoreInv
  <2>4. WatchedGpuPresent'
    BY <2>1, <2>3 DEF StoreInv, WatchedGpuPresent, WatchersOf
  <2>5. GpuWatchCountCovers'
    BY <2>1 DEF StoreInv, GpuWatchCountCovers, WatchersOf
  <2> QED
    BY <2>2, <2>4, <2>5 DEF StoreInv
<1> QED
  BY <1>1, <1>2

\* gpu_watch_entry::create_handler, the failure in the middle included.
LEMMA GpuWatchCreatePreserves ==
  ASSUME StoreInv, NEW w \in WatchKeys, NEW G \in SUBSET GpuKeys,
         GpuWatchCreate(w, G)
  PROVE  StoreInv'
<1>1. CASE UNCHANGED storeVars
  BY <1>1, UnchangedPreserves
<1>2. CASE /\ w \notin gpu_watch_db
           /\ G \subseteq gpu_db
           /\ \A g \in G : num_gpu_watch[g] < MaxGpuWatch
           /\ CountWatch(G)
           /\ InsertWatch(w, G)
           /\ UNCHANGED gpu_db
  <2>1. StoreTypeOK'
    BY <1>2, StoreAssumption
       DEF StoreInv, StoreTypeOK, CountWatch, InsertWatch
  <2>2. WatchedGpuPresent'
    BY <1>2 DEF StoreInv, StoreTypeOK, WatchedGpuPresent, InsertWatch
  <2>3. ASSUME NEW g \in gpu_db
        PROVE  Cardinality(WatchersOf(g)') <= num_gpu_watch'[g]
    <3>1. CASE g \in G
      <4>1. WatchersOf(g)' = WatchersOf(g) \union {w}
        BY <1>2, <3>1 DEF WatchersOf, InsertWatch, StoreInv, StoreTypeOK
      <4>2. Cardinality(WatchersOf(g)') = Cardinality(WatchersOf(g)) + 1
        <5>1. w \notin WatchersOf(g)
          BY <1>2 DEF WatchersOf
        <5>2. IsFiniteSet(WatchersOf(g))
          BY WatchersFinite DEF StoreInv
        <5>3. Cardinality(WatchersOf(g) \union {w}) = Cardinality(WatchersOf(g)) + 1
          BY <5>1, <5>2, FS_AddElement
        <5> QED
          BY <4>1, <5>3
      <4>3. num_gpu_watch'[g] = num_gpu_watch[g] + 1
        BY <1>2, <3>1 DEF CountWatch, StoreInv, StoreTypeOK
      <4>4. Cardinality(WatchersOf(g)) <= num_gpu_watch[g]
        BY DEF StoreInv, GpuWatchCountCovers
      <4>5. Cardinality(WatchersOf(g)) \in Nat /\ num_gpu_watch[g] \in Nat
        BY WatchersFinite, StoreAssumption DEF StoreInv, StoreTypeOK
      <4> QED
        BY <4>2, <4>3, <4>4, <4>5
    <3>2. CASE g \notin G
      <4>1. WatchersOf(g)' = WatchersOf(g)
        BY <1>2, <3>2 DEF WatchersOf, InsertWatch, StoreInv, StoreTypeOK
      <4>2. num_gpu_watch'[g] = num_gpu_watch[g]
        BY <1>2, <3>2 DEF CountWatch, StoreInv, StoreTypeOK
      <4> QED
        BY <4>1, <4>2 DEF StoreInv, GpuWatchCountCovers
    <3> QED
      BY <3>1, <3>2
  <2> QED
    BY <1>2, <2>1, <2>2, <2>3 DEF StoreInv, GpuWatchCountCovers, WatchersOf
<1>3. CASE /\ \A g \in G : num_gpu_watch[g] < MaxGpuWatch
           /\ \E counted \in SUBSET (G \cap gpu_db) : CountWatch(counted)
           /\ UNCHANGED <<gpu_db, gpu_watch_db, spec_gpu, num_subscriber>>
  <2> PICK counted \in SUBSET (G \cap gpu_db) : CountWatch(counted)
    BY <1>3
  <2>1. StoreTypeOK'
    BY <1>3, StoreAssumption DEF StoreInv, StoreTypeOK, CountWatch
  <2>2. WatchedGpuPresent'
    BY <1>3 DEF StoreInv, WatchedGpuPresent
  <2>3. ASSUME NEW g \in gpu_db
        PROVE  Cardinality(WatchersOf(g)') <= num_gpu_watch'[g]
    <3>1. WatchersOf(g)' = WatchersOf(g)
      BY <1>3 DEF WatchersOf
    <3>2. num_gpu_watch[g] \in Nat /\ num_gpu_watch'[g] >= num_gpu_watch[g]
                                   /\ num_gpu_watch'[g] \in Nat
      BY StoreAssumption DEF CountWatch, StoreInv, StoreTypeOK
    <3> QED
      BY <3>1, <3>2, WatchersFinite DEF StoreInv, GpuWatchCountCovers
  <2> QED
    BY <1>3, <2>1, <2>2, <2>3 DEF StoreInv, GpuWatchCountCovers, WatchersOf
<1> QED
  BY <1>1, <1>2, <1>3 DEF GpuWatchCreate

\* gpu_watch_entry::delete_handler: every GPU of the spec is present and counts
\* this watch, so no count drops below the watches that remain.
LEMMA GpuWatchDeletePreserves ==
  ASSUME StoreInv, NEW w \in WatchKeys, GpuWatchDelete(w)
  PROVE  StoreInv'
<1>1. CASE UNCHANGED storeVars
  BY <1>1, UnchangedPreserves
<1>2. CASE ~(UNCHANGED storeVars)
  <2>1. /\ w \in gpu_watch_db
        /\ UncountWatch(spec_gpu[w])
        /\ gpu_watch_db' = gpu_watch_db \ {w}
        /\ UNCHANGED <<gpu_db, spec_gpu, num_subscriber>>
    BY <1>2 DEF GpuWatchDelete
  <2>2. ASSUME NEW g \in gpu_db
        PROVE  /\ num_gpu_watch'[g] \in 0 .. MaxGpuWatch
               /\ Cardinality(WatchersOf(g)') <= num_gpu_watch'[g]
    <3>1. /\ Cardinality(WatchersOf(g)) \in Nat
          /\ num_gpu_watch[g] \in 0 .. MaxGpuWatch
          /\ Cardinality(WatchersOf(g)) <= num_gpu_watch[g]
          /\ g \in GpuKeys
      BY WatchersFinite DEF StoreInv, StoreTypeOK, GpuWatchCountCovers
    <3>2. CASE g \in spec_gpu[w]
      <4>1. w \in WatchersOf(g)
        BY <2>1, <3>2 DEF WatchersOf
      <4>2. WatchersOf(g)' = WatchersOf(g) \ {w}
        BY <2>1 DEF WatchersOf
      <4>3. IsFiniteSet(WatchersOf(g)) /\ IsFiniteSet(WatchersOf(g) \ {w})
        BY WatchersFinite, FS_RemoveElement DEF StoreInv
      <4>4. /\ Cardinality(WatchersOf(g)') = Cardinality(WatchersOf(g)) - 1
            /\ Cardinality(WatchersOf(g)') \in Nat
        <5>1. Cardinality(WatchersOf(g) \ {w}) = Cardinality(WatchersOf(g)) - 1
          BY <4>1, <4>3, FS_RemoveElement
        <5>2. Cardinality(WatchersOf(g) \ {w}) \in Nat
          BY <4>3, FS_CardinalityType
        <5> QED
          BY <4>2, <5>1, <5>2
      <4>5. num_gpu_watch'[g] = num_gpu_watch[g] - 1
        BY <2>1, <3>1, <3>2 DEF UncountWatch
      <4> QED
        BY <3>1, <4>4, <4>5, StoreAssumption
    <3>3. CASE g \notin spec_gpu[w]
      <4>1. WatchersOf(g)' = WatchersOf(g)
        BY <2>1, <3>3 DEF WatchersOf
      <4>2. num_gpu_watch'[g] = num_gpu_watch[g]
        BY <2>1, <3>1, <3>3 DEF UncountWatch
      <4> QED
        BY <3>1, <4>1, <4>2
    <3> QED
      BY <3>2, <3>3
  <2>3. ASSUME NEW g \in GpuKeys, g \notin gpu_db
        PROVE  num_gpu_watch'[g] = num_gpu_watch[g]
    BY <2>1, <2>3 DEF UncountWatch
  <2>4. num_gpu_watch' \in [GpuKeys -> 0 .. MaxGpuWatch]
    <3>1. ASSUME NEW g \in GpuKeys PROVE num_gpu_watch'[g] \in 0 .. MaxGpuWatch
      BY <2>2, <2>3 DEF StoreInv, StoreTypeOK
    <3> QED
      BY <2>1, <3>1 DEF UncountWatch
  <2>5. StoreTypeOK'
    BY <2>1, <2>4 DEF StoreInv, StoreTypeOK
  <2>6. WatchedGpuPresent'
    BY <2>1 DEF StoreInv, WatchedGpuPresent
  <2> QED
    BY <2>1, <2>2, <2>5, <2>6 DEF StoreInv, GpuWatchCountCovers, WatchersOf
<1> QED
  BY <1>1, <1>2

\* The subscriber tasks only change num_subscriber_, modulo its width.
LEMMA SubscriberTaskPreserves ==
  ASSUME StoreInv,
         \/ \E n \in [WatchKeys -> Nat] : SubscriberAdd(n)
         \/ \E w : SubscriberDel(w)
  PROVE  StoreInv'
<1>1. /\ UNCHANGED <<gpu_db, num_gpu_watch, gpu_watch_db, spec_gpu>>
  BY DEF SubscriberAdd, SubscriberDel
<1>2. num_subscriber' \in [WatchKeys -> 0 .. SubscriberWidth - 1]
  <2>1. ASSUME NEW n \in [WatchKeys -> Nat], SubscriberAdd(n)
        PROVE  num_subscriber' \in [WatchKeys -> 0 .. SubscriberWidth - 1]
    BY <2>1, StoreAssumption DEF SubscriberAdd, StoreInv, StoreTypeOK
  <2>2. ASSUME NEW w, SubscriberDel(w)
        PROVE  num_subscriber' \in [WatchKeys -> 0 .. SubscriberWidth - 1]
    BY <2>2, StoreAssumption DEF SubscriberDel, StoreInv, StoreTypeOK
  <2> QED
    BY <2>1, <2>2
<1> QED
  BY <1>1, <1>2 DEF StoreInv, StoreTypeOK, GpuWatchCountCovers,
                    WatchedGpuPresent, WatchersOf

\* The invariant holds of every behaviour of the store.
THEOREM StoreInvariant == StoreSpec => []StoreInv
<1>1. StoreInit => StoreInv
  <2> SUFFICES ASSUME StoreInit PROVE StoreInv
    OBVIOUS
  <2>1. StoreTypeOK
    BY StoreAssumption DEF StoreInit, StoreTypeOK
  <2> QED
    BY <2>1 DEF StoreInit, StoreInv, GpuWatchCountCovers, WatchedGpuPresent
<1>2. StoreInv /\ [StoreNext]_storeVars => StoreInv'
  <2> SUFFICES ASSUME StoreInv, [StoreNext]_storeVars PROVE StoreInv'
    OBVIOUS
  <2>1. CASE UNCHANGED storeVars
    BY <2>1 DEF storeVars, StoreInv, StoreTypeOK, GpuWatchCountCovers,
                WatchedGpuPresent, WatchersOf
  <2>2. ASSUME NEW g \in GpuKeys, GpuCreate(g) \/ GpuDelete(g)
        PROVE  StoreInv'
    BY <2>2, GpuCreatePreserves, GpuDeletePreserves
  <2>3. ASSUME NEW w \in WatchKeys, NEW G \in SUBSET GpuKeys \ {{}},
               GpuWatchCreate(w, G)
        PROVE  StoreInv'
    BY <2>3, GpuWatchCreatePreserves
  <2>4. ASSUME NEW w \in WatchKeys, GpuWatchDelete(w) \/ GpuWatchUpdate(w)
        PROVE  StoreInv'
    <3>1. CASE GpuWatchDelete(w)
      BY <3>1, GpuWatchDeletePreserves
    <3>2. CASE GpuWatchUpdate(w)
      BY <3>2, UnchangedPreserves DEF GpuWatchUpdate
    <3> QED
      BY <2>4, <3>1, <3>2
  <2>5. ASSUME NEW w \in WatchKeys,
               \/ SubscriberAdd([v \in WatchKeys |-> IF v = w THEN 1 ELSE 0])
               \/ SubscriberDel(w)
        PROVE  StoreInv'
    <3>1. [v \in WatchKeys |-> IF v = w THEN 1 ELSE 0] \in [WatchKeys -> Nat]
      OBVIOUS
    <3> QED
      BY <2>5, <3>1, SubscriberTaskPreserves
  <2> QED
    BY <2>1, <2>2, <2>3, <2>4, <2>5 DEF StoreNext
<1> QED
  BY <1>1, <1>2, PTL DEF StoreSpec

\* A GPU is never taken out of the database while a watch object names it.
THEOREM WatchedGpusStay == StoreSpec => []WatchedGpuPresent
BY StoreInvariant, PTL DEF StoreInv

\* num_gpu_watch_ is never below the number of watch objects on the GPU.
THEOREM CountCovers == StoreSpec => []GpuWatchCountCovers
BY StoreInvariant, PTL DEF StoreInv
==============================================================================
