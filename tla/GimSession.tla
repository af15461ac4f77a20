----------------------------- MODULE GimSession -----------------------------
(***************************************************************************)
(* The sessions with the SMI library of the gim back end (gimamdsmi), and  *)
(* the threads that open them: start-up, gRPC requests, the watcher.       *)
(*                                                                         *)
(* In lazy mode (AGA_SMI_LAZY_INIT=1) the library is initialised by the    *)
(* first session that opens and shut down by the last one that closes, so  *)
(* that /dev/gim-smi0 is free between calls; in persistent mode it is      *)
(* initialised once and sessions are no-ops.  Each initialisation starts a *)
(* new life of the library; a handle belongs to the life it was looked up  *)
(* in.  The library, and with it what a handle of an earlier life does, is *)
(* outside the repository.                                                 *)
(***************************************************************************)
EXTENDS Integers, FiniteSets

CONSTANTS
    GimRequests,   \* the threads of the gRPC server
    GimGpus,       \* the GPUs of the system
    GimFaults,     \* calls that may fail: "init", "shutdown", "read"
    MaxLives       \* bound: initialisations of the library

ASSUME GimAssumption ==
    /\ GimRequests \cap {"main", "watcher", "none"} = {}
    /\ IsFiniteSet(GimRequests)
    /\ GimFaults \subseteq {"init", "shutdown", "read"}
    /\ MaxLives \in Nat

GimThreads == {"main", "watcher"} \union GimRequests
NoThread == "none"
NoHandle == 0        \* a real handle is the life it was looked up in

VARIABLES
    lazy_init,    \* AGA_SMI_LAZY_INIT
    lib,          \* the library: is it initialised, in which life, and was a
                  \* shut-down refused
    init_mutex,   \* the thread in the constructor or destructor of a session
    refcount,     \* refcount_
    handles,      \* handle_ of the GPU objects, NoHandle if there is none
    spawned,      \* smi_state::init came to its end and spawned the threads
    threads,      \* where each thread is
    slow_primed,  \* the watcher asked for a slow sample once
    slow_cache,   \* the slow fields in slow_cache_
    sample,       \* the watcher's watch_db, and the GPUs this tick reached
    missed        \* the GPUs of which the first tick did not reach the one
                  \* counter or the other

gimVars == <<lazy_init, lib, init_mutex, refcount, handles, spawned, threads,
             slow_primed, slow_cache, sample, missed>>
watchVars == <<slow_primed, slow_cache, sample, missed>>

Jobs == {"init", "discover", "create", "immutable", "spec", "add", "serve",
         "dead", "request", "topology", "badpage", "tick", "none"}
Pcs == {"idle", "lock", "init", "count", "discover", "resolve", "call", "walk",
        "post", "unlock", "down"}

\* The slow fields are counters of errors: those of a block, and the total over
\* the blocks.  They were never filled, could not be read, or were read.
Readings == [block : {"zero", "read"}, total : {"zero", "na", "read"}]
Zeros    == [block |-> "zero", total |-> "zero"]
NoSample == [db |-> [g \in GimGpus |-> Zeros], refresh |-> FALSE,
             priming |-> FALSE, reached |-> {}]

\* The type invariant.
GimTypeOK ==
    /\ lazy_init \in BOOLEAN
    /\ lib \in [live : BOOLEAN, life : 0 .. MaxLives, refused : BOOLEAN]
    /\ init_mutex \in GimThreads \union {NoThread}
    /\ refcount \in Nat
    /\ handles \in [GimGpus -> 0 .. MaxLives]
    /\ spawned \in BOOLEAN
    /\ threads \in [GimThreads -> [job : Jobs, pc : Pcs, todo : SUBSET GimGpus,
                                handle : 0 .. MaxLives, peer : 0 .. MaxLives,
                                found : 0 .. MaxLives]]
    /\ slow_primed \in BOOLEAN
    /\ slow_cache \in [GimGpus -> Readings]
    /\ sample \in [db : [GimGpus -> Readings], refresh : BOOLEAN,
                   priming : BOOLEAN, reached : SUBSET GimGpus]
    /\ missed \in [block : SUBSET GimGpus, total : SUBSET GimGpus]

-----------------------------------------------------------------------------
(* Where a thread goes.                                                    *)

Idle == [job |-> "none", pc |-> "idle", todo |-> {}, handle |-> NoHandle,
         peer |-> NoHandle, found |-> NoHandle]

Go(t, s) == threads' = [threads EXCEPT ![t] = s]

\* The body that runs once the session of thread s is open.
Opened(s) ==
    CASE s.job = "init" -> [s EXCEPT !.job = "discover", !.pc = "lock"]
      [] s.job \in {"discover", "create"} -> [s EXCEPT !.pc = "discover"]
      [] s.job = "tick" -> [s EXCEPT !.pc = "walk"]
      [] OTHER -> [s EXCEPT !.pc = IF lazy_init THEN "resolve" ELSE "call"]

\* AGA_SMI_SESSION_GUARD, or a session that is opened by hand.
Begin(s) == IF lazy_init THEN [s EXCEPT !.pc = "lock"] ELSE Opened(s)

\* What follows the body and the destructor.
Closed(s) ==
    CASE s.job = "discover" ->
             IF lazy_init THEN [s EXCEPT !.job = "init", !.pc = "unlock"]
             ELSE Begin([s EXCEPT !.job = "create"])
      [] s.job = "init" -> Begin([s EXCEPT !.job = "create"])
      [] s.job = "create" ->
             IF s.found = NoHandle THEN [s EXCEPT !.job = "dead", !.pc = "idle"]
             ELSE [s EXCEPT !.job = "add", !.pc = "idle", !.todo = GimGpus]
      [] s.job = "immutable" -> Begin([s EXCEPT !.job = "spec", !.handle = s.found])
      [] s.job = "spec" -> [s EXCEPT !.job = "add", !.pc = "idle"]
      [] s.job = "tick" -> [s EXCEPT !.pc = "post"]
      [] OTHER -> Idle

\* The constructor failed: init returns and aga_init goes on with create_gpus,
\* the tick posts what it has, anything else returns the error.
Refused(s) ==
    CASE s.job = "init" -> Begin([s EXCEPT !.job = "create"])
      [] s.job = "create" -> [s EXCEPT !.job = "dead", !.pc = "idle"]
      [] OTHER -> Closed(s)

End(s) == IF lazy_init THEN [s EXCEPT !.pc = "unlock"] ELSE Closed(s)

\* smi_state::init ends well with this thread's step.
Spawns(s) ==
    /\ s.job = IF lazy_init THEN "init" ELSE "discover"
    /\ s.found # NoHandle

-----------------------------------------------------------------------------
(* The session.                                                            *)

\* Initialising a library whose shut-down was refused may or may not start it
\* anew.
amdsmi_init ==
    \E life \in {lib.life + 1} \union (IF lib.live THEN {lib.life} ELSE {}) :
        /\ life <= MaxLives
        /\ lib' = [lib EXCEPT !.live = TRUE, !.life = life]

amdsmi_shut_down ==
    \/ lib' = [lib EXCEPT !.live = FALSE]
    \/ "shutdown" \in GimFaults /\ lib' = [lib EXCEPT !.refused = TRUE]

\* The constructor takes the mutex,
SessionLock(t) ==
    /\ threads[t].pc = "lock"
    /\ init_mutex = NoThread
    /\ init_mutex' = t
    /\ Go(t, [threads[t] EXCEPT !.pc = "init"])
    /\ UNCHANGED <<lazy_init, lib, refcount, handles, spawned, watchVars>>

\* initialises the library if this is the first session; if that fails, the
\* session counts nowhere;
SessionInit(t) ==
    /\ threads[t].pc = "init"
    /\ \/ /\ refcount > 0
          /\ Go(t, [threads[t] EXCEPT !.pc = "count"])
          /\ UNCHANGED <<lib, init_mutex>>
       \/ /\ refcount = 0
          /\ amdsmi_init
          /\ Go(t, [threads[t] EXCEPT !.pc = "count"])
          /\ UNCHANGED init_mutex
       \/ /\ refcount = 0
          /\ "init" \in GimFaults
          /\ Go(t, Refused(threads[t]))
          /\ init_mutex' = NoThread
          /\ UNCHANGED lib
    /\ UNCHANGED <<lazy_init, refcount, handles, spawned, watchVars>>

\* counts itself and lets the mutex go.
SessionCount(t) ==
    /\ threads[t].pc = "count"
    /\ refcount' = refcount + 1
    /\ init_mutex' = NoThread
    /\ Go(t, Opened(threads[t]))
    /\ UNCHANGED <<lazy_init, lib, handles, spawned, watchVars>>

\* The destructor: the last session goes on to the shut-down, with the mutex.
SessionDrop(t) ==
    /\ threads[t].pc = "unlock"
    /\ init_mutex = NoThread
    /\ refcount' = refcount - 1
    /\ IF refcount = 1
       THEN /\ init_mutex' = t
            /\ Go(t, [threads[t] EXCEPT !.pc = "down"])
            /\ UNCHANGED spawned
       ELSE /\ Go(t, Closed(threads[t]))
            /\ spawned' = (spawned \/ Spawns(threads[t]))
            /\ UNCHANGED init_mutex
    /\ UNCHANGED <<lazy_init, lib, handles, watchVars>>

SessionDown(t) ==
    /\ threads[t].pc = "down"
    /\ amdsmi_shut_down
    /\ init_mutex' = NoThread
    /\ Go(t, Closed(threads[t]))
    /\ spawned' = (spawned \/ Spawns(threads[t]))
    /\ UNCHANGED <<lazy_init, refcount, handles, watchVars>>

-----------------------------------------------------------------------------
(* Start-up.                                                               *)

\* smi_state::init: a session around the discovery, or the library for good.
StartInit ==
    /\ threads["main"].job = "init" /\ threads["main"].pc = "idle"
    /\ \/ /\ lazy_init
          /\ Go("main", [threads["main"] EXCEPT !.pc = "lock"])
          /\ UNCHANGED lib
       \/ /\ ~lazy_init
          /\ amdsmi_init
          /\ Go("main", Begin([threads["main"] EXCEPT !.job = "discover"]))
       \/ /\ ~lazy_init
          /\ "init" \in GimFaults
          /\ Go("main", Refused(threads["main"]))
          /\ UNCHANGED lib
    /\ UNCHANGED <<lazy_init, init_mutex, refcount, handles, spawned, watchVars>>

\* smi_discover_gpus, from init and again from create_gpus.
Discover(t) ==
    /\ threads[t].pc = "discover"
    /\ \E found \in {h \in {NoHandle, lib.life} :
                         IF h = NoHandle THEN "read" \in GimFaults \/ ~lib.live
                         ELSE lib.live} :
           LET s == [threads[t] EXCEPT !.found = found] IN
           /\ Go(t, End(s))
           /\ spawned' = (spawned \/ (~lazy_init /\ Spawns(s)))
    /\ UNCHANGED <<lazy_init, lib, init_mutex, refcount, handles, watchVars>>

\* create_gpus: the object keeps the handle of the discovery and reads its
\* attributes in two sessions of its own; after the last one the server starts.
AddGpu ==
    /\ threads["main"].job = "add"
    /\ \/ \E g \in threads["main"].todo :
              /\ handles' = [handles EXCEPT ![g] = threads["main"].found]
              /\ Go("main", Begin([threads["main"] EXCEPT
                                      !.job = "immutable", !.todo = @ \ {g},
                                      !.handle = threads["main"].found]))
       \/ /\ threads["main"].todo = {}
          /\ Go("main", [threads["main"] EXCEPT !.job = "serve"])
          /\ UNCHANGED handles
    /\ UNCHANGED <<lazy_init, lib, init_mutex, refcount, spawned, watchVars>>

-----------------------------------------------------------------------------
(* Requests.                                                               *)

Serving == threads["main"].job = "serve"

\* A call of smi_api.cc behind the guard, with the handle of the object.
StartRequest(r) ==
    /\ Serving
    /\ threads[r] = Idle
    /\ \E job \in {"request", "topology"}, g \in GimGpus :
           Go(r, Begin([Idle EXCEPT !.job = job, !.handle = handles[g]]))
    /\ UNCHANGED <<lazy_init, lib, init_mutex, refcount, handles, spawned,
                   watchVars>>

\* smi_gpu_get_bad_page_count and smi_gpu_get_bad_page_records, which have no
\* guard.
StartBadPages(r) ==
    /\ Serving
    /\ threads[r] = Idle
    /\ \E g \in GimGpus :
           Go(r, [Idle EXCEPT !.job = "badpage", !.pc = "call", !.handle = handles[g]])
    /\ UNCHANGED <<lazy_init, lib, init_mutex, refcount, handles, spawned,
                   watchVars>>

\* Mutant of Resolve: the caller's handle is kept.
ResolveMutant(t) ==
    /\ threads[t].pc = "resolve"
    /\ \/ /\ lib.live
          /\ Go(t, [threads[t] EXCEPT !.pc = "call"])
       \/ /\ "read" \in GimFaults \/ ~lib.live
          /\ Go(t, End(threads[t]))
    /\ UNCHANGED <<lazy_init, lib, init_mutex, refcount, handles, spawned,
                   watchVars>>

\* The guard replaces the caller's handle by that of the uuid in this session.
Resolve(t) ==
    /\ threads[t].pc = "resolve"
    /\ \/ /\ lib.live
          /\ Go(t, [threads[t] EXCEPT !.pc = "call", !.handle = lib.life])
       \/ /\ "read" \in GimFaults \/ ~lib.live
          /\ Go(t, End(threads[t]))
    /\ UNCHANGED <<lazy_init, lib, init_mutex, refcount, handles, spawned,
                   watchVars>>

\* gpu_topo_walk_cb: in lazy mode the peer's handle is looked up too, and the
\* peer is skipped when that fails.
TopoPeer(t) ==
    /\ threads[t].job = "topology" /\ threads[t].pc = "call"
    /\ \E g \in GimGpus :
           LET h == IF lazy_init THEN lib.life ELSE handles[g] IN
           /\ lazy_init => lib.live
           /\ Go(t, [threads[t] EXCEPT !.peer = h])
    /\ UNCHANGED <<lazy_init, lib, init_mutex, refcount, handles, spawned,
                   watchVars>>

\* The call returns, and with it the function.
Call(t) ==
    /\ threads[t].pc = "call"
    /\ Go(t, IF threads[t].job = "badpage" THEN Idle ELSE End(threads[t]))
    /\ UNCHANGED <<lazy_init, lib, init_mutex, refcount, handles, spawned,
                   watchVars>>

-----------------------------------------------------------------------------
(* The watcher.                                                            *)

\* Mutant of StartTick: slow samples are taken when they are due only.
StartTickMutant ==
    /\ Serving
    /\ spawned
    /\ threads["watcher"] = Idle
    /\ \E slow_due \in BOOLEAN :
           /\ sample' = [NoSample EXCEPT !.refresh = slow_due,
                                         !.priming = ~slow_primed]
           /\ slow_primed' = TRUE
    /\ Go("watcher", Begin([Idle EXCEPT !.job = "tick", !.todo = GimGpus]))
    /\ UNCHANGED <<lazy_init, lib, init_mutex, refcount, handles, spawned,
                   slow_cache, missed>>

\* watch_timer_cb_ with a subscriber, on a tick whose fast period has passed:
\* an empty watch_db is filled under a session.  Until a first slow sample was
\* asked for, every sample is a slow one; then some are (see WatchSample).
StartTick ==
    /\ Serving
    /\ spawned
    /\ threads["watcher"] = Idle
    /\ \E slow_due \in BOOLEAN :
           /\ sample' = [NoSample EXCEPT !.refresh = slow_due \/ ~slow_primed,
                                         !.priming = ~slow_primed]
           /\ slow_primed' = TRUE
    /\ Go("watcher", Begin([Idle EXCEPT !.job = "tick", !.todo = GimGpus]))
    /\ UNCHANGED <<lazy_init, lib, init_mutex, refcount, handles, spawned,
                   slow_cache, missed>>

\* smi_watcher_update_all_watch_fields_: any sample starts from the cache.  A
\* slow one reads the counters of every block.  The counter of a block whose call
\* fails stays as it is; the total is that of the blocks that were read, and not
\* applicable if there is none.
SlowFields(g, faulty) ==
    CASE ~sample.refresh -> {slow_cache[g]}
      [] ~faulty         -> {[block |-> "read", total |-> "read"]}
      [] OTHER           -> {[slow_cache[g] EXCEPT !.total = t] : t \in {"na", "read"}}

\* watcher_walk_cb_: a GPU whose uuid is not found is skipped, and stays as it
\* is in the empty watch_db; a slow sample of any other replaces the cache.
WalkGpu(g) ==
    /\ threads["watcher"].pc = "walk"
    /\ g \in threads["watcher"].todo
    /\ Go("watcher", [threads["watcher"] EXCEPT !.todo = @ \ {g}])
    /\ \/ /\ "read" \in GimFaults \/ ~lib.live
          /\ UNCHANGED <<slow_cache, sample, missed>>
       \/ /\ lib.live
          /\ \E faulty \in (IF "read" \in GimFaults THEN BOOLEAN ELSE {FALSE}) :
             \E v \in SlowFields(g, faulty) :
                 /\ slow_cache' = [slow_cache EXCEPT ![g] = v]
                 /\ sample' = [sample EXCEPT !.db[g] = v, !.reached = @ \union {g}]
                 /\ missed' = IF ~sample.priming THEN missed
                              ELSE [block |-> IF faulty THEN missed.block ELSE missed.block \ {g},
                                    total |-> missed.total \ {g}]
    /\ UNCHANGED <<lazy_init, lib, init_mutex, refcount, handles, spawned,
                   slow_primed>>

EndWalk ==
    /\ threads["watcher"].pc = "walk"
    /\ threads["watcher"].todo = {}
    /\ Go("watcher", End(threads["watcher"]))
    /\ UNCHANGED <<lazy_init, lib, init_mutex, refcount, handles, spawned,
                   watchVars>>

\* The API thread gets the watch_db, whether or not the update returned an
\* error.
PostSample ==
    /\ threads["watcher"].pc = "post"
    /\ sample' = NoSample
    /\ Go("watcher", Idle)
    /\ UNCHANGED <<lazy_init, lib, init_mutex, refcount, handles, spawned,
                   slow_primed, slow_cache, missed>>

-----------------------------------------------------------------------------
GimInit ==
    /\ lazy_init \in BOOLEAN
    /\ lib = [live |-> FALSE, life |-> 0, refused |-> FALSE]
    /\ init_mutex = NoThread
    /\ refcount = 0
    /\ handles = [g \in GimGpus |-> NoHandle]
    /\ spawned = FALSE
    /\ threads = [[t \in GimThreads |-> Idle] EXCEPT !["main"].job = "init"]
    /\ slow_primed = FALSE
    /\ slow_cache = [g \in GimGpus |-> Zeros]
    /\ sample = NoSample
    /\ missed = [block |-> GimGpus, total |-> GimGpus]

Session(t) ==
    \/ SessionLock(t) \/ SessionInit(t) \/ SessionCount(t)
    \/ SessionDrop(t) \/ SessionDown(t)

GimNext ==
    \/ StartInit \/ AddGpu
    \/ \E t \in GimThreads : Session(t) \/ Discover(t) \/ Resolve(t) \/ TopoPeer(t)
                          \/ Call(t)
    \/ \E r \in GimRequests : StartRequest(r) \/ StartBadPages(r)
    \/ StartTick \/ EndWalk \/ PostSample
    \/ \E g \in GimGpus : WalkGpu(g)

GimSpec == GimInit /\ [][GimNext]_gimVars

-----------------------------------------------------------------------------
(* Properties.                                                             *)

\* The threads whose innermost session is open; the session of init is open as
\* well while the one of the discovery inside it is.
InSession(t) ==
    /\ threads[t].pc \in {"discover", "resolve", "call", "walk", "unlock"}
    /\ threads[t].job # "badpage"
OpenSessions ==
    Cardinality({t \in GimThreads : InSession(t)})
    + (IF threads["main"].job = "discover" THEN 1 ELSE 0)

\* The invariant the constructor of smi_session states: with nobody inside the
\* mutex the reference count is the number of open sessions, and the library is
\* initialised exactly while it is not zero; only a refused shut-down leaves it
\* initialised with no session.
RefcountTellsLibrary ==
    lazy_init /\ init_mutex = NoThread =>
        /\ refcount = OpenSessions
        /\ refcount > 0 => lib.live
        /\ lib.live => refcount > 0 \/ lib.refused

\* Whatever sessions open and close around it, a call behind
\* AGA_SMI_SESSION_GUARD finds the library initialised and passes it handles
\* of its present life, the peer's in a walk of the topology included.
GuardedCallsFresh ==
    \A t \in GimThreads : InSession(t) /\ threads[t].pc = "call" =>
        /\ lib.live
        /\ threads[t].handle = lib.life
        /\ threads[t].peer \in {NoHandle, lib.life}

\* No thread waits for the mutex it holds, though the session of init contains
\* the one of smi_discover_gpus.
NeverWaitsForItself ==
    \A t \in GimThreads : threads[t].pc \in {"lock", "unlock"} => init_mutex # t

\* What is zero in reading v of GPU g was not read by the first tick.
OnlyMissedIsZero(g, v) ==
    /\ v.block = "zero" => g \in missed.block
    /\ v.total = "zero" => g \in missed.total

\* watch_timer_cb_ forces a slow refresh on the first sample, "else counters
\* would be reported as zero until the first slow period elapses": no tick posts
\* the zeros of the empty cache for a GPU it reaches, unless the first tick did
\* not reach the GPU or, for the counters of a block, its call failed then:
\* those, unlike the total, stay zero until a slow sample reads them.
CountersReported ==
    threads["watcher"].pc = "post" =>
        \A g \in sample.reached : OnlyMissedIsZero(g, sample.db[g])

\* What AGA_SMI_SESSION_GUARD promises the calls behind it (smi_session.cc).
SessionsSound ==
    /\ RefcountTellsLibrary
    /\ GuardedCallsFresh
    /\ NeverWaitsForItself
=============================================================================
