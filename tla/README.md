# A verification project for gpuagent

gpuagent is a daemon that configures and monitors AMD GPUs. It serves gRPC
requests, keeps a database of GPUs and of "GPU watches", reads the GPUs through one
of several SMI libraries, and streams samples and events to subscribed clients. This
directory models it in TLA+, from the threads of the SDK below it to the screen
of its command line client, checks the models with TLC and proves every safety property
that the passing runs check with TLAPS. Paths below are relative to `src/sw/nic/gpuagent/`, those of the SDK to
`src/sw/nic/sdk/lib/`.

## 1. The system

### Components, their state and their operations

| component | state | operations | source | modules |
|---|---|---|---|---|
| API thread and object store | `gpu_key_db_`, `gpu_watch_key_db_`, `num_gpu_watch_`, `num_subscriber_` | create and delete of objects; subscriber tasks | `core/api_engine.cc`, `api/gpu*.cc`, `api/task.cc` | ObjectStore |
| GPU creation | GPU objects, parent/child links | `create_gpus` at start | `init.cc` | CreateGpus |
| start-up and shutdown | threads, socket file, SMI library | `main`, `aga_init`, `teardown`, signals | `main.cc`, `init.cc` | Lifecycle |
| GPU watch subscription | client contexts, `gpu_watch_map`, `client_inactive` | Subscribe, notify, retire | `api/gpu_watch_api.cc`, `svc/gpu_watch_svc.hpp`, `smi_state.cc` | GpuWatch, Subscription |
| watch sampling | periods, tick counters, slow cache, published sample | set periods, tick, sample | `api/smi/smi_watch.cc`, three `smi_state.cc` | WatchSample, WatchReads, WatchShow |
| event monitor | per-device event map, listeners | EventSubscribe, EventGet, EventGen, poll | `api/event_api.cc`, `smi_state.cc` | EventMonitor, Subscription |
| GPU update, reset, partitioning | `spec_` of a GPU, device settings | update handler, partition RPCs, reset task | `api/gpu.cc`, `api/task.cc`, `svc/gpu_svc.hpp` | GpuConfig |
| GPU read | cache of metrics, reply | GPUGet, its filters | `api/gpu.cc`, three `smi_api.cc` | GpuGet, WslGet, GpuReads, GpuShow |
| record reads | stream batches, error record buffer | GPUBadPageGet, GPUCPERGet | `svc/gpu_svc.hpp`, amdsmi `smi_api.cc` | GpuRecords |
| gim sessions | count of sessions, life of the library, handles | session guard, lazy start | `smi/gimamdsmi/` | GimSession |
| back end reads | none of their own | what each call fills in | `smi/{amdsmi,wslamdsmi,gimamdsmi}/` | Readings, AmdsmiReads, WslReads, GimReads |
| conversion and client | none | protobuf, `gpuctl show`, `gpuctl create gpu-watch` | `svc/*_to_*.hpp`, `cli/cmd/` | GpuClient, GpuShow, WatchShow |
| SDK threads | message queue, flags | start, stop, suspend, resume, send | `event_thread/`, `thread/` | EventThread |
| SDK requests | sockets, held messages, timers | request, respond, broadcast | `ipc/` | Ipc, Requests |
| SDK timers, memory, pool | wheel slices; blocks; queue and semaphore | add/delete/tick; alloc/free; post/barrier | `twheel/`, `slab/`, `utils/`, `lfq/` | TimerWheel, Slab, Allocator, ThreadPool |
| delayed delete, rocm, debug, topology, trace, shared memory | | | `api/mem.cc`, ... | none, see section 5 |

### How they interact

Every configuration request becomes one message to the API thread
(`process_api`), which handles it to completion (`api_msg_handle_cb`) and replies;
the caller waits. The databases change on that thread only, but other threads read
them. The *watcher* thread and the *event-monitor* thread are event loops: they run
a timer callback or serve an IPC request, one at a time. A Subscribe call is a gRPC
thread that allocates a client context, sends a pointer to it to one of these
loops, and then waits on a condition variable inside the context. The loop writes to
the client's stream; when a write fails it takes the context out of its tables, sets
`client_inactive`, signals the condition, and the gRPC thread frees the context and
returns. The watcher thread also sends tasks to the API thread (count, uncount,
publish) and waits for each. A GPUGet runs on its gRPC thread throughout and shares
only the cached metrics with others. All requests between threads go through the
SDK's IPC, the loops are its event threads.

### What is hard

* A subscription lives in four places (gRPC thread, context, the loop's sets, the
  API thread's count) that change in separate steps on separate threads, and
  contexts are raw pointers, freed by one side.
* Flags and signals are written without the lock that the waiting side holds.
* Updates read a copy, change it and write all of it back; several can overlap.
* Reads of the hardware fail one by one; samples, caches and replies are assembled
  from old and new, and "not available" has a width that three libraries, the agent
  and the client must agree on.
* Periods, caches and the specification are shared without a lock, or with one that
  is taken too late.
* The agent, its predecessor and a second one share a socket file; signals arrive
  while it starts.
* In the SDK: wake-ups that stand for several things, locks taken one after the other,
  descriptors that tell of arrivals only, time-outs that race late replies.

`PROJECT.json` lists these as hazards, each at its line, with the properties
that would catch it going wrong.

### What makes each component correct

* Store: a GPU that a watch names is not deleted; counts are neither lost nor leaked.
* Subscription: counts agree with the sets; only clients that left are retired, and
  all of them are; every marked thread returns.
* Sampling: no stale fast value, no lost slow value, the slow tier never older than
  its period; what a watch reports is what a GPUGet reports.
* Events: a retired listener is forgotten everywhere, the others keep listening;
  EventGet ends and reports what happened, and only that.
* Creation: a partition belongs to its own device, or has no object.
* Configuration: the stored specification tells what the device has.
* GPUGet: no part is older than the oldest Get it overlaps; no field holds another
  one's reading; nothing is shown that was not read; what was read is shown.
* Life: the library is not called after it was shut down; a serving agent can be
  reached.
* SDK: a message is handled once and a request answered once; no wake-up is lost;
  an element is handed out once; no timer fires early.

## 2. The modules

### The API thread and what hangs on it

**ObjectStore** is the API thread: a message is handled to completion, so one message
is one step. Its state is the two databases with the counts in their objects; a
rejected message leaves them alone, but for the create of a watch that fails half
way.

**CreateGpus** walks through the list that discovery made, remembering the parent
and the first handle in two variables as the loop of `create_gpus` does. What makes
a GPU a first or a later partition is what `smi_fill_gpu_profile_` finds out
(`Profile`). The uuid or the object of a parent, or of a GPU, may fail.

**GpuWatch** has, per Subscribe call, the gRPC thread (`pc`, `ids`, `unchecked`), its
context (`ctxt`, `client_inactive`) and its stream (`connected`), and the watcher's
tables (`gpu_watch_map`, `client_set`). A tick is the set of watches still to
read, that of clients still to write to, the list of failed writes and that of
contexts to mark and to signal, so that every other thread can step in between.
A pointer to a freed context makes `agent` "undefined" or "crashed".

**WatchSample** is the timer callback over two tick counters of bounded width, with the
periods that another thread writes one after the other. A published field is
abstracted to where it comes from: never read, not applicable, this pass, an older one.

**EventMonitor** has the same shape as GpuWatch, per device and event, with the lock
of a device held while its listeners are notified, which EventGet takes device
by device. `before`, `reported` and `happened` are what EventGet is judged by.

### Configuration and reads of GPUs

**GpuConfig** has, for each GPU, what the device has (`device`) and the copy the
object keeps (`stored`). A caller reads the copy (`GpuRead`, which may meet the
memcpy of `UpdateStash` and return a mixture), changes attributes, and sends all of
it back. `UpdateFails` and `UpdateApplies` are `smi_gpu_update`: the attributes that
differ are written one after the other, and a failure leaves those before it
written. `drift` records, beside the state, which attributes the code lets device
and copy differ in; it is what `DriftExplained` compares with. `ResetTask` checks all
GPUs of a request and resets the last one, as the code does. `smi_backend` chooses
between the three back ends' `smi_gpu_update`, `smi_gpu_reset` and `smi_gpu_fill_spec`:
wsl writes what amdsmi writes; gim writes the memory partition or the power cap and
nothing else, resets nothing, and puts its own values over the copy that a Get
returns. A device and its copy agree at start-up but for what `smi_gpu_init_config_`
could not read (`InitialReads`), and a reset of the power caps, which goes from sensor
to sensor, may leave some of them as they were.

**GpuGet** numbers the samples of a device and follows several GPUGets over the
cache they share: the first part fetches before the lock and caches after it,
the others copy. Only the activities of a partition are fetched once more, from the
partition's own metrics and with no lock held (`FillPartition`): a field stands for
the gfx and umc activity, which partition 0 and a GPU without partitions take from
the cache in the end (`FillUsage`), and one for the others (mm, accumulated, busy
engines). The violations, which have calls of their own as well, are left out.
**WslGet** is the same for the WSL library, where a structure may
come half filled and the statistics may fetch a second time. Its status part copies
the cache only and is left out. In both, `since` is the number of samples taken
when the GPU was last read by nobody: the start of the stretch of overlapping Gets
that a Get is part of.

**GpuRecords** has the stream of bad pages (count, read, the callback that adds record
by record and writes a batch of `BatchSize` when it is full, final flush, with the 8-bit
count kept by `CountWidth`) next to devices
that retire pages, and the rounds in which `smi_gpu_get_cper_entries` gets error
records.

**Readings, AmdsmiReads, WslReads, GimReads, GpuReads, GpuClient, GpuShow** follow
one GPUGet from the library to the screen. A reading is abstracted to the name of
what was read, so "a value in the wrong field" and "a sentinel of the wrong width" can
be seen and the value itself is left out: a field holds a name, a sentinel
(`na16`, `na32`, `na64`), "zero", "absent" or "junk" (not initialised). Each
function of a back end that fills fields is an operator from a device to the
fields it writes; `d.fails` has the library calls that fail, `d.lacks` the readings
the device does not have. `GpuShow` runs the stages of `gpu_entry::read`, then the
conversion to protobuf, then what `gpuctl show gpu` prints or hides, field by field.
Fields that every function treats alike are one field. What one function writes over
what another wrote is `u ++ v` (Readings). It is TLC's `@@` with a
definition of its own (`Layered`), because the prover knows nothing of `@@`.

**WatchReads, WatchShow** do the same for a watch: create with a list of attributes,
ticks that refresh the slow tier or not, the copy into the GPU object, the
frame and its rows. `Pulled(d)` is a GPUGet of the same device, taken from GpuReads,
and is what a frame is compared with.

### The process

**Lifecycle** has agents (processes) that start, serve, are signalled, crash and are
started again, with either of two back ends and over a Unix socket or TCP. That a
socket file is looked at and that it is unlinked are two steps (`prepare_unix_socket`,
`unlink_stale`). The main thread's steps are those of `main` and `aga_init`; the signal thread's those of
`aga_api_teardown` and the clean-up of the socket; two library threads with their
timer callbacks run beside them. The socket file is one variable: who bound it.

**GimSession** has start-up, requests and the watcher of the gim back end as
threads that open and close sessions; a handle is the life of the library it
was looked up in, so a handle that outlived its library can be seen. The slow fields
of a sample are counters of errors: those of a block, which a failed call leaves as
they were, and the total over the blocks, which becomes not applicable if no block
was read (`SlowFields`). The teardown of the persistent mode
(`gimamdsmi/smi_state.cc:754`), which joins the watcher and shuts the library down, is
left out; Lifecycle has that of the other two back ends.

### The SDK

**EventThread**: an event loop with a single async watcher, its message
queue, and stop, suspend and resume from other threads; the mutexes are those of the
code. **Ipc**: one server with its socket's descriptor and two eventfds, blocking
and event-driven callers, time-outs, broadcasts, drip feeding, and messages that
nobody handles; ZMQ is external, with a descriptor that tells of arrivals only. **TimerWheel**: slices with their own
spinlocks; the tick holds one while it takes another. **Slab**: blocks in a linked
list; each call is one step because it holds the slab's lock. **ThreadPool**:
posting, workers, a semaphore, and a barrier whose count is decremented and read in two
steps.

### Abstract specifications

* **Subscription** - what a Subscribe call promises its client: it goes on while the
  client is there, it is told to end only after the client left, and it returns only
  when told. GpuWatch and EventMonitor each have a refinement mapping to it
  (`WatchKeepsPromise`, `EventKeepsPromise`). A crashed agent breaks no
  promise. Where a freed context is used (`agent = "undefined"`) the
  mapping takes it that the use does nothing else.
* **Allocator** - an element has one holder. Slab implements it (`SlabAllocator`).
* **Requests** - a caller is told once how each request ended. Ipc implements it
  (`IpcPromise`).

### Composition

GpuWatch composes ObjectStore with the threads of subscriptions; WatchShow
composes the watch with GpuReads, and GpuShow the reads with the client. Modules that
share no state are put side by side in one instance: MCGpu, MCAgent and MCSdk each
have a variable `part`, chosen at the start, and the other parts stand still. Their
behaviours are those of the parts (but for steps of one part that are independent and
take turns, see Bounds), and no interleaving is lost, since the parts share no
variable; the state spaces add up instead of multiplying. That a behaviour of the
composition is one of each part is proved (`AgentIsItsParts`, `GpuIsItsParts`,
`SdkIsItsParts`).
The type invariants of the parts are checked there as one (`GpuTypeOK`,
`AgentTypeOK`, `SdkTypeOK`).

WatchSample and GpuWatch are apart because a tick's contents and its delivery
share no state: a tick of GpuWatch is a `Publish` of WatchSample and a tick of
WatchShow.

Operators that a comment calls a mutant are wrong variants of a step, kept to show
that a property can fail.

## 3. The runs

Passing:

* `gpu` (MCGpu) - GPUs that exist.
  Subscriptions: two calls, each for any list of distinct watches out of two; the API
  thread's count of a watch equals the watcher's set less the calls registered and not
  yet counted, also when an uncount overtakes a count (`SubscriberCountMatches`).
  Sampling: periods 1..3 and 2..4 with a tick counter just wide enough and a
  default of 3 from the environment, all combinations of failed reads:
  `SlowTierFresh`, `FastNeverStale`. Configuration: a partition request of two ids next
  to an update, with reads torn by the copy, on amdsmi and on gim: `DriftExplained`,
  `PartitionInEffect`.
  Gets: two threads, three samples, and of handles a first partition, a later one and a
  GPU without partitions: `GetReportsItsSample`, `WslReportsItsSample`.
* `watch_churn` (MCGpuWatch) - each call asks for one of two watches, one of which is
  deleted and created again meanwhile. Contexts are out of every remaining set before
  they are marked (`ForgottenBeforeMarked`), each client that left is marked
  (`UnreachableIsMarked`, under fairness), and the calls keep the promise of
  Subscription.
* `event` (MCEventMonitor) - one listener, two devices of which one has no object, two
  events, EventGet next to everything else: it ends (`ReadReturns`), misses nothing
  that happened before it, and a listener that was found unreachable is marked.
* `agent` (MCAgent) - objects: two GPUs, two watches, a subscriber count that wraps
  (`WatchedGpuPresent`). Creation: all systems of up to three devices with up to
  three partitions, any object failing (`HierarchyAgrees`). Events: two listeners, two
  devices (`FreedIsForgotten`, `ConnectedKeepsListening`, `EventKeepsPromise`).
  Records: two GPUs with up to two pages and batches of three; five error records in
  rounds of two with room for three (`RecordsComplete`). Life: an amdsmi agent on the
  socket, started twice, and a wsl agent on the socket or on TCP, started once
  (`LibraryOutlivesCallbacks`, `ServesOnItsSocket`). Gim: start-up, the watcher and
  one request, six lives of the library, calls that fail
  (`SessionsSound`, `CountersReported`). Reads: every kind of device of three back
  ends with two troubles - shortages, failed calls, filters
  (`RepliesFaithful`, `ScreenFaithful`, `HealthyIsFull`).
* `sdk` (MCSdk) - an event thread with two senders, three messages and two suspends
  (`LoopOutlivesStop`, `WakeUpsArrive`); a server with a blocking caller and an
  event-driven one (`NothingForgotten`, `OwnReply`, `IpcPromise`); a wheel of two slices, two timers,
  two users, a timeout within a turn and one of two turns (`WheelKeepsTimers`); three
  blocks of two elements (`SlabAllocator`); two workers, two rounds of two works and
  a one-shot thread (`PoolSound`). Beside them a watch over three ticks with two
  troubles (`RowsFaithful`, `WatchMatchesGet`, `SlowReadingsLast`).

Some properties name exceptions: fields, attributes or situations in which the code does
not do what it otherwise does. Each exception is one of the disagreements listed below,
with its line; without the exception TLC finds it at once. Where a property was first
stated without one, the model had left out the error path that needs it: the counters of
a block that is not read (`CountersReported`), a held message that nobody handles
(`HeldIsDelivered`), and partition 0, whose Get mixes two samples
(`QuietGetIsOneSample`). One was found by the proof of
`ScreenFaithful` and not by the run: the label of the XGMI responses prints the requests,
so a zero can appear there although the responses were measured. It takes a device
that lacks the requests and has the responses, which is now among the shortages.

Violations, each a disagreement between the code and what it says (see "findings" in
`PROJECT.json` for the quotations):

* `watch_dangling` - a client of two watches that leaves between their two writes is
  freed and stays in the first watch's set. The event clean-up erases the context
  everywhere, for exactly this reason, and passes (`FreedIsForgotten`).
* `watch_lost_wakeup` - flag and signal fall between test and wait.
* `watch_deleted` - look-up, delete, registration, count: the client waits for a watch
  that is gone.
* `event_phantom` - EventGet reports events that never happened.
* `create_stale` - partitions are attached to the previous device's parent.
* `reset` - a reset of several GPUs resets the last one and succeeds (with the wsl back
  end, so that its update and reset are run as well).
* `cper` - the fields of an error record of the second round are decoded from another
  place than the record.

### Disagreements the models contain, without a run of their own

Objects and subscriptions:

* A watch create that fails half way leaves GPUs counted (`api/gpu_watch.cc:92`);
  `api/gpu.hpp:338` calls the count the "number of GPU watch objects watching this
  GPU". Such a GPU can never be deleted. This is why `GpuWatchCountCovers` says "at
  least".
* A call that names a watch twice is counted twice (`api/task.cc:148`) and uncounted
  once (`smi_state.cc:1310`). The run `gpu` uses lists of distinct watches.
* Between `client_inactive = true` and `pthread_cond_signal` the gRPC thread may see
  the flag and free the context that is then signalled (`smi_state.cc:1326-1332` and
  `1819-1825`): `agent` becomes "undefined".
* With events disabled a Subscribe call is answered OK, is registered nowhere and
  waits for ever (`smi_state.cc:2009`).
* `AGA_GPU_WATCH_UPDATE_FREQ` replaces a fast period of 0 after the validation used
  the compile-time default (`svc/gpu_watch_to_spec.hpp:388`), so the slow period can
  end up below the fast one.

Configuration and reads:

* An update of a partition and other attributes writes the partition only and
  stashes all (`amdsmi/smi_api.cc:1844`); an overdrive update switches the device to
  the manual performance level behind the copy (`:1871`); the comparison of the clock
  ranges takes more entries than the array has (`api/gpu.cc:133`). All
  are in `drift`.
* A GPU that already has the partition ends the loop of a partition request with OK
  (`svc/gpu_svc.hpp:205`); the GPUs after it are not looked at. This is in
  `PartitionNext`.
* The count that decides whether a stream ends with an empty response is not
  initialised and has 8 bits (`svc/gpu_svc.hpp:164`).
* gim reports the overdrive level as 2^32 - 1, and a client sends back what it got, so
  `gpuctl update gpu` is refused for every attribute unless an overdrive level is
  given too (`svc/gpu_to_spec.hpp`, range 0 to 20). An update of a compute partition
  or of any attribute but two answers OK on gim and is stashed, and the device
  never hears of it (`gimamdsmi/smi_api.cc:1346`).
* The cache of metrics is refilled in any order, so a Get may report metrics older than
  itself. On wsl they can also be older than every Get that was under way when it
  began: a structure of size zero is copied from the cache, filled with the
  temperature and put back (`WslStatsRecache`), so three Gets that overlap in a chain
  pass an old value on. What holds, and is proved, is that nothing is older than the
  uninterrupted stretch of overlapping Gets.
* A GPUGet of partition 0 reports the gfx and umc activity of one sample next to the
  other activities of another, though the cache is there to avoid "repeated calls"
  (`amdsmi/smi_api.cc:53`, `:1573`); if its first fetch fails, all activities are of the
  second.
* The WSL back end reads the activity once more when the cache has zero, and writes
  it over with the zero of the cache (`wslamdsmi/smi_api.cc:1492`); some calls of its
  fallback are missing in the shim of `wslamdsmi/smi_utils.hpp:643`.
* gim: the two calls for bad pages have no session and use the handle of start-up
  (`gimamdsmi/smi_api.cc:945`); `smi_state.cc` says near line 711 that handles are
  looked up for every use. A lazy agent whose first session fails serves without
  watcher and event threads (`gimamdsmi/smi_state.cc:716`). A first tick that does not
  reach a GPU, a tick without a session and a GPUGet without one report zeros
  (`:519`, `:499`, `gimamdsmi/smi_api.cc:1118`), and so do, until the next slow
  period, the counters of a block whose call failed on the first tick (`:108`). The PCIe bandwidth is read at every
  tick and kept by slow ones only (`:284`).
* amdsmi: bytes sent and received change places (`amdsmi/smi_api.cc:1487`); the
  strings of a board that was not read are what was on the stack (`:2251`).
* The watcher's power, activity, clock ranges and single clocks: a sentinel of 16 or 32
  bits is copied, or divided by a million, as if it were a reading
  (`amdsmi/smi_state.cc:559`, `:601`, `:472`); the free memory is the difference of two
  readings, whether they were made or not (`:334`).
* The client asks for the voltage regulator's residency where it prints the HBM's
  (`cli/cmd/gpu.go:1832`), labels requests as responses (`:1717`), and compares
  thirteen fields with a sentinel narrower than theirs (`NarrowlyCompared`) and ten with
  zero or nothing (`ComparedWithZero`).

Process and SDK:

* An agent on TCP removes the socket file of another one, and of two agents that
  start at once both may bind it, or one unlink what the other bound since it was looked at
  (`main.cc:107`, `:166`, `raced` in Lifecycle). The amdsmi back
  end does not stop its event monitor before it shuts the library down
  (`smi_state.cc:2194`).
* EventThread: a thread that is not yet in its loop may destroy it before `stop` wakes
  it (`event_thread.cc:525`); a suspend takes the wake-up of a message (`:291`); a
  resume that falls between test and wait is lost (`thread/thread.cc:436`).
* TimerWheel: two ways to arm a timer miss a turn (`skips`; `twheel.cc:147`): an initial
  delay that crosses the end of a turn, and an update that would stay in its
  slice.
* Ipc: with drip feeding, a broadcast that nobody has subscribed to - "a race condtion
  during recovery" (`ipc.cc:684`) - or a message whose callback is NULL is taken from the
  held ones without being put in flight and without a write to the eventfd. The messages
  behind it are never looked at again, and since messages are held while others are,
  neither is any later one (`dropped` in Ipc). gpuagent does not use drip feeding.
* Ipc: the reply to a request that timed out is taken for the answer to the next
  one (`zmq_ipc.cc:797`); gpuagent waits without a time-out.

`CHECK_DEADLOCK FALSE` is set where the system may really stop: a crashed agent, a
system in which all calls have returned, a part that reached its end.

### Bounds

Two calls are enough for the properties of subscriptions: each relates one context to
the tables, or one context to another. Two watches (devices) are enough for "one
of several". Calls are not restarted: a context is allocated per call and its
address is never compared with an older one. Rounds of `MaxBatch` events, `MaxReads`
EventGets, `MaxGpuWatch` leaked counts, `MaxStarts` starts, `MaxLives` lives of the
library, `MaxSamples` and `MaxFetches` samples, `MaxMessages`, `MaxSuspends` and
`MaxSerial` messages bound what is otherwise unbounded; each is in the guard of the
action that counts. `MaxIds` bounds the GPUs one request names. `MaxTimeout` is not a
bound but the largest timeout that a `uint32_t` holds: it may be any number, and the
ages of timers are told apart up to it (`MaxAge`). Three samples allow an old one, the Get's own and a newer one
between them. Five error records in rounds of two with room for three make a round
end inside, at and after the limit. `MaxTrouble = 2` and `MaxWatchTrouble = 2` combine a
shortage or a filter with a failed call, or two of either; three ticks are a slow
one, one that carries over, and one after that. Shortages are the sets of readings
that come from one call or that a function tests together (`ShowShortages`,
`WatchShowShortages`). GPUs share nothing but a counter of fetches, so each
behaviour reads one (`OneWslHandle`), and so it is with the other Gets (`OneHandle`);
the two kinds of record reads share nothing and take turns (`OneRead`).
Clients of a watch and timers with their users are interchangeable (`ClientSymmetry`, `WheelSymmetry`); no run that uses
symmetry checks a liveness property.

### Fairness

`FairSpec` and `FairEventSpec` assume that a runnable thread runs (weak fairness per
gRPC thread), that the loop's timer keeps firing and a begun round goes on (weak
fairness of the loop), that a queued request is served between two rounds (strong
fairness of the registration: the loop is idle again and again, and its event
loop serves its queue), and that a reader gets a spinlock that is free again and
again (strong fairness of `ReadDevice`: the lock is held for a round and rounds are
an interval apart). Nothing is assumed of clients: they need not leave, and events
need not happen. A write to a stream is assumed to return; a client that stops
reading can block it, which is listed as a hazard. For the SDK the same questions are
asked as safety: a thread never sleeps while there is work and nothing pending
that would wake it (`WakeUpsArrive`, `NothingForgotten`, `PoolSound`), which with a
fair scheduler is what liveness needs.

## 4. What is proved

For every value of the constants that the named assumptions of the modules allow.
Each result rests on an invariant that TLC was asked about first. Between them they
state every invariant and every action property of the passing runs, but for
liveness.

The API thread and subscriptions:

* `StoreInvariant`, `CountCovers`, `WatchedGpusStay` (ObjectStoreProofs). The
  inductive invariant `StoreInv` is types, counts that cover, watched GPUs present.
  Neither of the two is inductive alone: deleting a GPU keeps the watched ones because
  the count covers the watches; creating one may start at 0 because no watch
  names an absent GPU.
* `WatchTypeCorrect`, `WatchPromiseKept` (GpuWatchProofs). Contexts that were freed
  may stay in a set here, so the argument is a weaker one: whoever the watcher
  knows of has registered, and only those whose write failed get on the lists
  from which threads are woken (`WatchAgrees`). `StoreInv` comes with it, since
  subscription tasks change the store.
* `ForgottenFirst`, `SubscribersCounted`. Both have a hypothesis, and without it the
  code does not do it (`watch_dangling`, `watch_deleted`). If every call asks for one
  watch (`OneWatchEach`), the watch whose write failed is the only one that knows
  the context (`OnlyAsked`). If no watch is deleted and no call names one twice
  (`Deletable = {}`, `DistinctEach`, finitely many clients), the count of a watch is
  what the watcher holds less the calls registered and not yet counted, modulo
  its width, also when an uncount overtakes a count (`CountInv`): the invariant says
  which calls were counted, and remainders are added as residues.
* `SampleInvariant`, `SlowTierIsFresh`, `FastTierIsHonest` (GpuWatchProofs). The
  invariant adds `TicksMeasureAge`: the ticks since the last slow sample are its age,
  and they cannot wrap, since the fast tier samples at least every `FastMax` ticks and
  `SlowMax + FastMax < TickWidth` (3600 + 60 < 65536 in the code). That no fast
  value is stale needs no more than that every fast field is among those that are reset.
* `FreedForgotten`, `ConnectedListens`, `PromiseKept`, `ReadMissesNothing`
  (AgentProofs). `EventInv` adds the order of a round (`Rounds`) and, for each
  client, that its place in the monitor's tables agrees with where its thread is
  (`Agrees`). `PromiseKept` is the refinement: each step of EventMonitor is a step of
  Subscription or a stutter. An EventGet misses nothing because a record that has a
  time stamp keeps it, whoever comes and goes.

Start-up, life and sessions (AgentProofs):

* `HierarchyIsThatOfDevices`. The loop remembers one parent, so `CreateInv` adds where
  in the list it is (`ParentsPlaced`): a parent object is that of a device whose first
  partition was passed, and while the rest of its partitions are made it is the parent
  that is remembered. Nothing is said of a device without a parent object: there the
  remembered one may be that of an earlier device, which is `create_stale`.
* `LifeTypeCorrect`, `LibraryOutlives`, `SocketIsItsOwn`. For each agent the threads
  that can be alive, and in which state, follow from how far its main and its signal
  thread are (`AgentsSound`): the library goes down only when the threads that
  teardown joins have exited. The owner of the socket file follows from who is
  listening, who was refused and who raced (`SocketSound`).
* `GimTypeCorrect`, `SessionsAreSound`, `CountersAreReported`. In lazy mode the
  reference count is that of the open sessions even while a thread is inside the
  mutex, so the library's life changes only while no session is open (`Counted`);
  in persistent mode it is initialised once and every handle looked up in that life
  (`Persistent`). The handles a call uses are then of the present life (`Fresh`). The
  zeros of a watch are followed from the cache to the sample (`Sampled`): a counter that
  is zero in either was missed by the first tick.
* `RecordsTypeCorrect`, `RecordsAreComplete`. At every moment what was written, the
  batch being filled and the records not yet handed to the callback make up, one after
  the other, what was counted (`StreamInv`), so the final flush leaves nothing
  behind. The error records decoded so far are the first ones of the driver, and the
  headers of the round continue them unless the array is full (`CperInv`).

Configuration and reads:

* `ConfigTypeCorrect`, `DriftIsExplained`, `PartitionTakesEffect` (ConfigProofs), for the
  three back ends. Between the last write to the device and the replacement of the
  copy, the copy explains nothing: what explains the device is then the specification
  of the caller that is being served. `ConfigInv` says it for either half. A read torn
  by the copy is a mixture of two specifications in range and so in range itself.
* `GetTypeCorrect`, `GetReportsWell`, `WslTypeCorrect`, `WslReportsWell` (GetProofs).
  Gets of a GPU that overlap agree on `since` (`GetsOverlap`, `WslOverlap`); what
  they hold or may find in the cache is younger (`GetInTime`, `WslInTime`); what a Get
  that nothing overlapped holds is its own, or for a partition's activities that of its
  second fetch (`GetQuiet`, `WslQuiet`).

What a reply and a watch say (ShowProofs), for every kind of device, every set of
readings it lacks, every set of failed calls and filters, and any number of ticks. A
function of a back end writes some fields, and a stage lays what several functions write
one over the other. A fact about values is therefore stated as the values each field
is allowed (`Within`): it is shown once for what each function writes, and lemmas say
that `++`, `Update` and `When` keep it.

* `ShowTypeCorrect`, `RepliesAreFaithful`. The allowed values of a field are its own
  reading (or those it is known to be derived from), zero, or the sentinel of its width.
  The tables of metrics are taken first, because the functions of three back ends copy
  from them (`ReplyInv`).
* `ScreenIsFaithful`. The message is the conversion of the reply and the screen what the
  client makes of the message (`ScreenInv`). So it suffices to know, field by field, what
  the client hides (`HideValues`) and that the statistics were prepared before they were
  filled.
* `HealthyIsReported`. As long as no call failed and the device lacks nothing, all
  fields hold readings but those the property excuses and those a later stage fills
  (`Awaited`); a mark of "not available" is put only on fields that a reading then
  replaces (`FullInv`).
* `WatchShowTypeCorrect`, `RowsAreFaithful`. A slow attribute is allowed what a slow
  tick may have left, whatever the last tick did, a fast one what the last tick may give
  it (`WatchInv`).
* `SlowReadingsStay`, an action property. For the attributes that last
  (`Lasting`) a reading that was had once is the only value that is allowed from then on.
* `WatchesMatchGets`. What a watch has and what a GPUGet has are not compared
  with each other, which would take a case for each pair of functions. Both are
  shown to lie in what there is to tell of a field (`ToTell`): the reading if the device
  has it, nothing known if it lacks it, the same difference for the free memory.
  `AgreeInv` keeps it for the watch and adds what gim's slow ticks keep of a bandwidth. The
  numbering of clocks is a fact about sequences (`ClockPlaces`).

The SDK:

* `SlabTypeCorrect`, `SlabHandsOutOnce` (SdkProofs). Slab implements Allocator.
  `SlabInv` says of each block that its elements in use are those some caller holds
  and that its counter counts them, which is why a block goes only when nobody
  holds any of it; how blocks are linked plays no part.
* `LoopTypeCorrect`, `LoopIsThereForStop`, `WakeUpsDoArrive` (SdkProofs). The stop mutex
  is the loop's exactly while it serves its queue, and the owner's exactly while it
  is between its flags and its wake-up (`LoopMutex`); while messages are queued and
  the loop may block, the async is set or a sender is about to (`LoopWoken`).
* `PoolTypeCorrect`, `PoolIsSound` (SdkProofs). A barrier counts and knows nothing of works. That its
  count means what `barrier_wait` promises needs the sum (`WorksAddUp`): the works of
  the round still to be posted, queued, in a worker's hands and done are those of the
  round, and the barrier's count is those not yet reported. That the second
  unlock of a mutex does no harm follows: it comes when the count is zero. The
  tokens of the semaphore cover whoever may still sleep once the pool stops
  (`WorkersWake`). That the count of active threads stays in its bounds needs the one-shot
  threads that run (`ThreadsCount`), and that of pending works the same sum.
* `WheelTypeCorrect`, `TimersAreKept` (SdkProofs), for any number of slices, timers and
  threads. An entry being moved is in no list for a while; that it is never lost or in two
  needs whose hand it is in (`WheelHands`), that the slice being walked is locked by
  the tick (`WheelLocks`), and that what is left of the walk is still in that slice
  (`WheelWalk`). No timer fires early because the slices it has waited and those it has
  still to wait add up to its timeout at least (`WheelTimes`).
* `IpcTypeCorrect`, `NothingIsForgotten`, `RepliesFindTheirCalls`, `CallersAreToldOnce`
  (IpcProofs). Ipc implements Requests. A request is in one place, in the socket, held
  back or in a handler's hands, and its reply is not under way at the same time
  (`IpcPlaces`, `IpcUnread`); a caller that was given a wrong answer has left
  the answer to an earlier request unread for good, with nothing of that request
  still on its way (`Past`). Without the last the invariant is not inductive: a late
  reply could turn up and be taken for a second answer. Held messages wait for the
  one in flight, or one before them was dropped (`IpcHeld`).

The compositions:

* `AgentIsItsParts`, `AgentTypeCorrect` (AgentProofs), `GpuIsItsParts`, `GpuTypeCorrect`
  (ConfigProofs), `SdkIsItsParts`, `SdkTypeCorrect` (SdkProofs). The part that moves makes
  its own steps and the others stutter, so a behaviour of the composition is one of each
  part's specification, and what is proved of a part holds in the instance that is
  checked. The theorems on types put the parts' type invariants together in this
  way; the others carry over likewise.

Only model-checked:

* Liveness (`UnreachableIsMarked`, `ReadReturns`): fairness and ENABLED are out of the
  prover's reach.
* That the counterexamples of the runs that expect a violation exist.

## 5. What is left out

* The delayed delete of objects (`api/mem.cc`): two seconds against a reader of unknown
  speed. Nothing in the code relates the two, and a model could only say so.
* The rocm back end: its functions have neither the parameters nor the fields of the
  present `smi_api.hpp`, so the rest of the agent cannot call them.
* The walk of the slab (no lock, used for debugging), the table of IPC subscribers, the
  SDK's shared memory and memory tracking.
* GPUs with partitions below them in GpuConfig.
* The filters of EventGet, the conversion of events and topology, the JSON
  form of the client's output, its tables of bad pages and error records.
* The watcher, subscriber and event code of the wsl back end, which repeats that of
  amdsmi.
* The debug, topology and trace services (stateless reads, log levels), vendored and
  generated code.
* gRPC, ZMQ, libev and the SMI libraries, but for what the code sees of them. Values,
  units, messages, uuids, log lines. Allocation failure of a message.

## 6. What could come next

1. The EventGet filter against a reference definition; GpuConfig with partitions below
   a GPU.
2. ObjectStore's "one message, one step" shown to be an abstraction of Ipc.
3. The links of a slab's blocks (`prev`, `next`), and the walk that follows them.
