---------------------------- MODULE ObjectStore ----------------------------
(***************************************************************************)
(* The objects the API thread of gpuagent owns: the GPU database           *)
(* (api/gpu.cc, api/gpu_state.cc), the GPU watch database                  *)
(* (api/gpu_watch.cc, api/gpu_watch_state.cc) and the two reference        *)
(* counts between them, num_gpu_watch_ of a GPU and num_subscriber_ of a   *)
(* watch.  Every request reaches the API thread as one message and is      *)
(* handled there to completion (core/api_engine.cc, api_msg_handle_cb), so *)
(* one message is one step.  A rejected message leaves the store as it is  *)
(* (UNCHANGED storeVars, with the status it returns), but for one case.    *)
(*                                                                         *)
(* The GPUs a watch names are a set: a GPU named twice is counted twice on *)
(* create and uncounted twice on delete.  The order of the list only       *)
(* decides which GPUs precede the first unknown one, and is a choice.      *)
(***************************************************************************)
EXTENDS Integers, FiniteSets

CONSTANTS
    GpuKeys,          \* keys a request may name as a GPU
    WatchKeys,        \* keys a request may name as a GPU watch
    SubscriberWidth,  \* number of values of num_subscriber_ (a uint8_t: 256)
    MaxGpuWatch       \* bound: no GPU is counted more often than this

ASSUME StoreAssumption ==
    /\ IsFiniteSet(WatchKeys)
    /\ SubscriberWidth \in Nat \ {0}
    /\ MaxGpuWatch \in Nat

VARIABLES
    gpu_db,           \* keys of gpu_key_db_
    num_gpu_watch,    \* num_gpu_watch_ of each GPU
    gpu_watch_db,     \* keys of gpu_watch_key_db_
    spec_gpu,         \* spec_.gpu of each GPU watch
    num_subscriber    \* num_subscriber_ of each GPU watch

storeVars == <<gpu_db, num_gpu_watch, gpu_watch_db, spec_gpu, num_subscriber>>

StoreTypeOK ==
    /\ gpu_db \subseteq GpuKeys
    /\ num_gpu_watch \in [GpuKeys -> 0 .. MaxGpuWatch]
    /\ gpu_watch_db \subseteq WatchKeys
    /\ spec_gpu \in [WatchKeys -> SUBSET GpuKeys]
    /\ num_subscriber \in [WatchKeys -> 0 .. SubscriberWidth - 1]

\* The watch objects that watch GPU g.
WatchersOf(g) == {w \in gpu_watch_db : g \in spec_gpu[w]}

-----------------------------------------------------------------------------
\* API_OP_CREATE of a GPU.  A new entry is zeroed (calloc), its count is 0.
GpuCreate(g) ==
    \/ /\ g \in gpu_db
       /\ UNCHANGED storeVars   \* SDK_RET_ENTRY_EXISTS
    \/ /\ g \notin gpu_db
       /\ gpu_db' = gpu_db \union {g}
       /\ num_gpu_watch' = [num_gpu_watch EXCEPT ![g] = 0]
       /\ UNCHANGED <<gpu_watch_db, spec_gpu, num_subscriber>>

\* Mutant of GpuDelete: the check of num_gpu_watch_ is missing.
GpuDeleteMutant(g) ==
    /\ g \in gpu_db
    /\ gpu_db' = gpu_db \ {g}
    /\ UNCHANGED <<num_gpu_watch, gpu_watch_db, spec_gpu, num_subscriber>>

\* API_OP_DELETE of a GPU: refused while the GPU counts a watch.
GpuDelete(g) ==
    \/ /\ g \notin gpu_db
       /\ UNCHANGED storeVars   \* SDK_RET_ENTRY_NOT_FOUND
    \/ /\ g \in gpu_db
       /\ num_gpu_watch[g] # 0
       /\ UNCHANGED storeVars   \* SDK_RET_IN_USE
    \/ /\ g \in gpu_db
       /\ num_gpu_watch[g] = 0
       /\ gpu_db' = gpu_db \ {g}
       /\ UNCHANGED <<num_gpu_watch, gpu_watch_db, spec_gpu, num_subscriber>>

\* gpu_watch_add on each GPU of G.
CountWatch(G) ==
    num_gpu_watch' = [g \in GpuKeys |-> IF g \in G THEN num_gpu_watch[g] + 1
                                                   ELSE num_gpu_watch[g]]

\* gpu_watch_dec on each GPU of G that is in the database.
UncountWatch(G) ==
    num_gpu_watch' = [g \in GpuKeys |-> IF g \in G \cap gpu_db
                                        THEN num_gpu_watch[g] - 1
                                        ELSE num_gpu_watch[g]]

\* The new watch w enters the database with its spec and no subscriber.
InsertWatch(w, G) ==
    /\ gpu_watch_db' = gpu_watch_db \union {w}
    /\ spec_gpu' = [spec_gpu EXCEPT ![w] = G]
    /\ num_subscriber' = [num_subscriber EXCEPT ![w] = 0]

\* API_OP_CREATE of a watch on the GPUs G.  The handler counts the watch on one
\* GPU after the other and returns at the first it does not find; the GPUs
\* counted before it, `counted', stay counted.
GpuWatchCreate(w, G) ==
    \/ /\ w \in gpu_watch_db
       /\ UNCHANGED storeVars   \* SDK_RET_ENTRY_EXISTS
    \/ /\ w \notin gpu_watch_db
       /\ G \subseteq gpu_db
       /\ \A g \in G : num_gpu_watch[g] < MaxGpuWatch
       /\ CountWatch(G)
       /\ InsertWatch(w, G)
       /\ UNCHANGED gpu_db
    \/ /\ w \notin gpu_watch_db
       /\ ~(G \subseteq gpu_db)
       /\ \A g \in G : num_gpu_watch[g] < MaxGpuWatch
       /\ \E counted \in SUBSET (G \cap gpu_db) : CountWatch(counted)
       /\ UNCHANGED <<gpu_db, gpu_watch_db, spec_gpu, num_subscriber>>

\* API_OP_DELETE of a watch: refused while num_subscriber_ is positive.
GpuWatchDelete(w) ==
    \/ /\ w \notin gpu_watch_db
       /\ UNCHANGED storeVars   \* SDK_RET_ENTRY_NOT_FOUND
    \/ /\ w \in gpu_watch_db
       /\ num_subscriber[w] > 0
       /\ UNCHANGED storeVars   \* SDK_RET_IN_USE
    \/ /\ w \in gpu_watch_db
       /\ num_subscriber[w] = 0
       /\ UncountWatch(spec_gpu[w])
       /\ gpu_watch_db' = gpu_watch_db \ {w}
       /\ UNCHANGED <<gpu_db, spec_gpu, num_subscriber>>

\* API_OP_UPDATE of a watch is not supported.
GpuWatchUpdate(w) ==
    UNCHANGED storeVars    \* SDK_RET_INVALID_OP, or SDK_RET_ENTRY_NOT_FOUND

\* Task AGA_TASK_GPU_WATCH_SUBSCRIBE_ADD: one increment for each id in the
\* request, n[w] of them for w, wherever the watch exists; uint8_t arithmetic.
SubscriberAdd(n) ==
    /\ num_subscriber' =
           [w \in WatchKeys |-> IF w \in gpu_watch_db
                                THEN (num_subscriber[w] + n[w]) % SubscriberWidth
                                ELSE num_subscriber[w]]
    /\ UNCHANGED <<gpu_db, num_gpu_watch, gpu_watch_db, spec_gpu>>

\* Mutant of SubscriberDel: the count is not a uint8_t and goes below zero.
SubscriberDelMutant(w) ==
    /\ num_subscriber' =
           IF w \in gpu_watch_db
           THEN [num_subscriber EXCEPT ![w] = @ - 1]
           ELSE num_subscriber
    /\ UNCHANGED <<gpu_db, num_gpu_watch, gpu_watch_db, spec_gpu>>

\* Task AGA_TASK_GPU_WATCH_SUBSCRIBE_DEL for key w, which need not be a watch.
SubscriberDel(w) ==
    /\ num_subscriber' =
           IF w \in gpu_watch_db
           THEN [num_subscriber EXCEPT ![w] = (@ - 1) % SubscriberWidth]
           ELSE num_subscriber
    /\ UNCHANGED <<gpu_db, num_gpu_watch, gpu_watch_db, spec_gpu>>

StoreInit ==
    /\ gpu_db = {}
    /\ num_gpu_watch = [g \in GpuKeys |-> 0]
    /\ gpu_watch_db = {}
    /\ spec_gpu = [w \in WatchKeys |-> {}]
    /\ num_subscriber = [w \in WatchKeys |-> 0]

\* A watch request names at least one GPU (svc/gpu_watch_to_spec.hpp).
StoreNext ==
    \/ \E g \in GpuKeys : GpuCreate(g) \/ GpuDelete(g)
    \/ \E w \in WatchKeys, G \in SUBSET GpuKeys \ {{}} : GpuWatchCreate(w, G)
    \/ \E w \in WatchKeys : GpuWatchDelete(w) \/ GpuWatchUpdate(w)
    \/ \E w \in WatchKeys : SubscriberAdd([v \in WatchKeys |-> IF v = w THEN 1 ELSE 0])
    \/ \E w \in WatchKeys : SubscriberDel(w)

StoreSpec == StoreInit /\ [][StoreNext]_storeVars

-----------------------------------------------------------------------------
\* A GPU counts at least the watch objects that watch it (num_gpu_watch_,
\* api/gpu.hpp): a create that fails half way leaves the count too high, but no
\* interleaving of creates, failed creates and deletes leaves it too low.
GpuWatchCountCovers ==
    \A g \in gpu_db : Cardinality(WatchersOf(g)) <= num_gpu_watch[g]

\* The count protects what it is for: every GPU a watch object in the database
\* names is in the GPU database, whatever deletes were requested meanwhile.
WatchedGpuPresent == \A w \in gpu_watch_db : spec_gpu[w] \subseteq gpu_db
=============================================================================
