---------------------------- MODULE EventMonitor ----------------------------
(***************************************************************************)
(* GPU events: the gRPC threads of EventSubscribe (api/event_api.cc,       *)
(* svc/events_svc.hpp) and EventGet, and the event-monitor thread that     *)
(* polls the SMI library, records the events, notifies the listeners and   *)
(* retires the unreachable ones (api/smi/amdsmi/smi_state.cc).             *)
(*                                                                         *)
(* The event-monitor thread serves the poll timer, subscribe requests and  *)
(* generate requests one at a time.  While it notifies the listeners of an *)
(* event it holds the spinlock of that device; EventGet takes the same     *)
(* locks, one device after the other.  Clients come and go at any moment.  *)
(*                                                                         *)
(* A time stamp is abstracted to whether it is set: an event happened or   *)
(* the record was only created for a subscription or by a clean-up.        *)
(***************************************************************************)
EXTENDS Integers, Sequences, FiniteSets

CONSTANTS
    Clients,         \* Subscribe calls, each with its thread, stream and context
    Gpus,            \* devices found by the SMI library (gpu_handles_)
    GpuObjects,      \* those of them that have an object in the GPU database
    Events,          \* AGA_EVENT_ID_NONE + 1 .. AGA_EVENT_ID_MAX
    NoEvent,         \* AGA_EVENT_ID_NONE: an SMI event the agent has no name for
    NoGpu,           \* no device: its lock is not held
    EventsDisabled,  \* g_events_disabled
    MaxBatch,        \* bound: events one poll returns
    MaxReads         \* bound: EventGet calls

ASSUME EventAssumption ==
    /\ GpuObjects \subseteq Gpus
    /\ NoEvent \notin Events
    /\ NoGpu \notin Gpus
    /\ EventsDisabled \in BOOLEAN
    /\ MaxBatch \in Nat
    /\ MaxReads \in Nat

Pairs == Gpus \X Events
AllPairs == Gpus \X (Events \union {NoEvent})
Batches == UNION {[1 .. n -> AllPairs] : n \in 1 .. MaxBatch}

VARIABLES
    pc,               \* where each gRPC thread is in aga_event_subscribe
    wanted,           \* the device/event pairs each call asked for
    connected,        \* the client still holds the stream open
    ctxt,             \* client contexts: "none", "live" or "freed"
    client_inactive,  \* client_ctxt->client_inactive
    event_map,        \* device/event pairs that have a record, ...
    happened,         \* ... those with a time stamp, ...
    client_set,       \* ... and the contexts that listen to each
    batch,            \* events of this round that are still to be handled
    slock,            \* the device whose lock the event monitor holds
    to_write,         \* contexts still to be told of the first event in batch
    inactive,         \* inactive_listeners of this round
    to_erase,         \* device/context pairs the clean-up has still to erase
    to_signal,        \* contexts whose thread is still to be woken up
    signalling,       \* those of them already marked client_inactive
    agent,            \* "ok", or "undefined"/"crashed" after a use of freed memory
    to_read,          \* devices the running EventGet has still to read
    reported,         \* the response of the last EventGet
    before,           \* what had happened when it started
    reads             \* number of EventGet calls so far

threadVars == <<pc, wanted, ctxt>>
mapVars    == <<event_map, happened, client_set>>
roundVars  == <<batch, slock, to_write, inactive, to_erase, to_signal, signalling>>
readVars   == <<to_read, reported, before, reads>>
eventVars == <<threadVars, mapVars, roundVars, readVars, connected, client_inactive, agent>>

EventTypeOK ==
    /\ pc \in [Clients -> {"start", "register", "test", "wait", "waiting", "leave",
                           "returned"}]
    /\ wanted \in [Clients -> SUBSET Pairs]
    /\ connected \in [Clients -> BOOLEAN]
    /\ ctxt \in [Clients -> {"none", "live", "freed"}]
    /\ client_inactive \in [Clients -> BOOLEAN]
    /\ event_map \subseteq AllPairs
    /\ happened \subseteq event_map
    /\ client_set \in [AllPairs -> SUBSET Clients]
    /\ batch \in Batches \union {<<>>}
    /\ slock \in Gpus \union {NoGpu}
    /\ to_write \subseteq Clients
    /\ inactive \subseteq Clients
    /\ to_erase \subseteq Gpus \X Clients
    /\ signalling \subseteq to_signal
    /\ to_signal \subseteq Clients
    /\ agent \in {"ok", "undefined", "crashed"}
    /\ to_read \subseteq Gpus
    /\ reported \subseteq AllPairs
    /\ before \subseteq AllPairs
    /\ reads \in 0 .. MaxReads

\* The event monitor reads or writes the context of c.
Touch(c) == agent' \in IF ctxt[c] = "freed" THEN {"undefined", "crashed"} ELSE {agent}

\* The listeners of pair p that are registered with the event monitor.
Listens(c) == \E p \in AllPairs : c \in client_set[p]

-----------------------------------------------------------------------------
(* The gRPC thread of call c.                                              *)

\* A client opens a stream and asks for the events E of the devices G.  An
\* unknown event id ends the call at once, a device without an object ends it
\* after the context was allocated, and the context stays allocated.  A filter
\* that lists no events leaves num_events unset: any E may result.
SubscribeStart(c) ==
    /\ pc[c] = "start"
    /\ \/ /\ pc' = [pc EXCEPT ![c] = "returned"]
          /\ UNCHANGED <<wanted, ctxt, connected>>
       \/ \E G \in SUBSET Gpus, E \in SUBSET Events :
             /\ wanted' = [wanted EXCEPT ![c] = G \X E]
             /\ ctxt' = [ctxt EXCEPT ![c] = "live"]
             /\ connected' = [connected EXCEPT ![c] = TRUE]
             /\ pc' = [pc EXCEPT ![c] = IF G \subseteq GpuObjects THEN "register"
                                                                  ELSE "returned"]
    /\ UNCHANGED <<mapVars, roundVars, readVars, client_inactive, agent>>

\* while (client_inactive == false): under the context's lock, which the event
\* monitor does not take.
SubscribeTest(c) ==
    /\ pc[c] = "test"
    /\ pc' = [pc EXCEPT ![c] = IF client_inactive[c] THEN "leave" ELSE "wait"]
    /\ UNCHANGED <<wanted, ctxt, mapVars, roundVars, readVars, connected,
                   client_inactive, agent>>

\* pthread_cond_wait: the thread starts to wait ...
SubscribeWait(c) ==
    /\ pc[c] = "wait"
    /\ pc' = [pc EXCEPT ![c] = "waiting"]
    /\ UNCHANGED <<wanted, ctxt, mapVars, roundVars, readVars, connected,
                   client_inactive, agent>>

\* ... and POSIX lets it wake up without a signal.
SpuriousWakeup(c) ==
    /\ pc[c] = "waiting"
    /\ pc' = [pc EXCEPT ![c] = "test"]
    /\ UNCHANGED <<wanted, ctxt, mapVars, roundVars, readVars, connected,
                   client_inactive, agent>>

\* The thread frees its context and the call returns.
SubscribeLeave(c) ==
    /\ pc[c] = "leave"
    /\ pc' = [pc EXCEPT ![c] = "returned"]
    /\ ctxt' = [ctxt EXCEPT ![c] = "freed"]
    /\ UNCHANGED <<wanted, mapVars, roundVars, readVars, connected,
                   client_inactive, agent>>

\* The client goes away: from now on writes to its stream fail.
Disconnect(c) ==
    /\ pc[c] \notin {"start", "returned"}
    /\ connected[c]
    /\ connected' = [connected EXCEPT ![c] = FALSE]
    /\ UNCHANGED <<threadVars, mapVars, roundVars, readVars, client_inactive, agent>>

-----------------------------------------------------------------------------
(* The event-monitor thread.                                               *)

MonitorIdle == batch = <<>> /\ to_erase = {} /\ to_signal = {}

\* event_subscribe_ipc_cb_: c listens to every pair it asked for, and pairs
\* without a record get an empty one.  With events disabled the request is
\* answered with SDK_RET_OK and nothing is registered.
SubscribeRegister(c) ==
    /\ MonitorIdle
    /\ pc[c] = "register"
    /\ pc' = [pc EXCEPT ![c] = "test"]
    /\ IF EventsDisabled
       THEN UNCHANGED mapVars
       ELSE /\ event_map' = event_map \union wanted[c]
            /\ client_set' = [p \in AllPairs |-> IF p \in wanted[c]
                                                 THEN client_set[p] \union {c}
                                                 ELSE client_set[p]]
            /\ UNCHANGED happened
    /\ UNCHANGED <<wanted, ctxt, roundVars, readVars, connected, client_inactive, agent>>

\* handle_events starts on the events b.
HandleEvents(b) ==
    /\ MonitorIdle
    /\ ~EventsDisabled
    /\ batch' = b
    /\ UNCHANGED <<threadVars, mapVars, slock, to_write, inactive, to_erase,
                   to_signal, signalling, readVars, connected, client_inactive, agent>>

\* event_monitor_timer_cb_: whatever the SMI library reports, in its order.
EventPoll == \E b \in Batches : HandleEvents(b)

\* event_gen_ipc_cb_: every event of a list for every GPU of another.
EventGen ==
    \E n, k \in 1 .. MaxBatch :
        \E gpu_ids \in [1 .. n -> GpuObjects], events \in [1 .. k -> Events] :
            LET b == [i \in 1 .. n * k |-> <<gpu_ids[((i - 1) \div k) + 1],
                                            events[((i - 1) % k) + 1]>>]
            IN  b \in Batches /\ HandleEvents(b)

\* Mutant of StartCleanup: only the device of the last event is cleaned up.
StartCleanupOneDevice(rest, gone) ==
    /\ batch' = rest
    /\ inactive' = IF rest = <<>> THEN {} ELSE gone
    /\ to_erase' = IF rest = <<>> THEN {Head(batch)[1]} \X gone ELSE {}
    /\ to_signal' = IF rest = <<>> THEN gone ELSE {}

\* The last event of the round was handled: the clean-up starts, for the
\* listeners in gone.
StartCleanup(rest, gone) ==
    /\ batch' = rest
    /\ inactive' = IF rest = <<>> THEN {} ELSE gone
    /\ to_erase' = IF rest = <<>> THEN Gpus \X gone ELSE {}
    /\ to_signal' = IF rest = <<>> THEN gone ELSE {}

\* The event of a device that has no object is skipped.
EventSkip ==
    /\ batch # <<>>
    /\ slock = NoGpu
    /\ Head(batch)[1] \notin GpuObjects
    /\ StartCleanup(Tail(batch), inactive)
    /\ UNCHANGED <<threadVars, mapVars, slock, to_write, signalling, readVars,
                   connected, client_inactive, agent>>

\* The device is locked and the event recorded.
EventRecord ==
    /\ batch # <<>>
    /\ slock = NoGpu
    /\ Head(batch)[1] \in GpuObjects
    /\ slock' = Head(batch)[1]
    /\ event_map' = event_map \union {Head(batch)}
    /\ happened' = happened \union {Head(batch)}
    /\ to_write' = client_set[Head(batch)]
    /\ UNCHANGED <<threadVars, client_set, batch, inactive, to_erase, to_signal,
                   signalling, readVars, connected, client_inactive, agent>>

\* Mutant of NotifyWrite: notify_cb's result is ignored.
NotifyWriteIgnore(c) ==
    /\ c \in to_write
    /\ to_write' = to_write \ {c}
    /\ Touch(c)
    /\ UNCHANGED <<threadVars, mapVars, batch, slock, inactive, to_erase, to_signal,
                   signalling, readVars, connected, client_inactive>>

\* Mutant of NotifyWrite: notify_cb's result is read the wrong way round.
NotifyWriteMutant(c) ==
    /\ c \in to_write
    /\ to_write' = to_write \ {c}
    /\ inactive' = IF connected[c] THEN inactive \union {c} ELSE inactive
    /\ Touch(c)
    /\ UNCHANGED <<threadVars, mapVars, batch, slock, to_erase, to_signal, signalling,
                   readVars, connected, client_inactive>>

\* notify_cb for one listener; a failed write puts it on the list to retire.
NotifyWrite(c) ==
    /\ c \in to_write
    /\ to_write' = to_write \ {c}
    /\ inactive' = IF connected[c] THEN inactive ELSE inactive \union {c}
    /\ Touch(c)
    /\ UNCHANGED <<threadVars, mapVars, batch, slock, to_erase, to_signal, signalling,
                   readVars, connected, client_inactive>>

\* Mutant of EventDone: the device is not unlocked.
EventDoneLocked ==
    /\ slock # NoGpu
    /\ to_write = {}
    /\ batch # <<>>
    /\ StartCleanup(Tail(batch), inactive)
    /\ UNCHANGED <<threadVars, mapVars, slock, to_write, signalling, readVars,
                   connected, client_inactive, agent>>

\* All listeners were told: the device is unlocked.
EventDone ==
    /\ slock # NoGpu
    /\ to_write = {}
    /\ slock' = NoGpu
    /\ StartCleanup(Tail(batch), inactive)
    /\ UNCHANGED <<threadVars, mapVars, to_write, signalling, readVars, connected,
                   client_inactive, agent>>

\* Mutant of CleanupErase: the sets are cleared instead of c being erased.
CleanupEraseAll(g, c) ==
    /\ <<g, c>> \in to_erase
    /\ to_erase' = to_erase \ {<<g, c>>}
    /\ event_map' = event_map \union ({g} \X Events)
    /\ client_set' = [p \in AllPairs |-> IF p \in {g} \X Events THEN {}
                                         ELSE client_set[p]]
    /\ UNCHANGED <<threadVars, happened, batch, slock, to_write, inactive, to_signal,
                   signalling, readVars, connected, client_inactive, agent>>

\* Mutant of CleanupErase: the records are removed from the map.
CleanupEraseRecords(g, c) ==
    /\ <<g, c>> \in to_erase
    /\ to_erase' = to_erase \ {<<g, c>>}
    /\ event_map' = event_map \ ({g} \X Events)
    /\ client_set' = [p \in AllPairs |-> IF p \in {g} \X Events THEN {}
                                         ELSE client_set[p]]
    /\ UNCHANGED <<threadVars, happened, batch, slock, to_write, inactive, to_signal,
                   signalling, readVars, connected, client_inactive, agent>>

\* cleanup_event_listeners_, first loop: under the lock of device g, context c
\* leaves the set of every named event (operator[] creates missing records).
CleanupErase(g, c) ==
    /\ <<g, c>> \in to_erase
    /\ to_erase' = to_erase \ {<<g, c>>}
    /\ event_map' = event_map \union ({g} \X Events)
    /\ client_set' = [p \in AllPairs |-> IF p \in {g} \X Events
                                         THEN client_set[p] \ {c} ELSE client_set[p]]
    /\ UNCHANGED <<threadVars, happened, batch, slock, to_write, inactive, to_signal,
                   signalling, readVars, connected, client_inactive, agent>>

\* Second loop: client_inactive is set, without the context's lock ...
CleanupMark(c) ==
    /\ to_erase = {} /\ signalling = {}
    /\ c \in to_signal
    /\ client_inactive' = [client_inactive EXCEPT ![c] = TRUE]
    /\ signalling' = {c}
    /\ Touch(c)
    /\ UNCHANGED <<threadVars, mapVars, batch, slock, to_write, inactive, to_erase,
                   to_signal, readVars, connected>>

\* ... then pthread_cond_signal wakes the thread, if it is waiting.
CleanupSignal(c) ==
    /\ c \in signalling
    /\ signalling' = {}
    /\ to_signal' = to_signal \ {c}
    /\ pc' = IF pc[c] = "waiting" THEN [pc EXCEPT ![c] = "test"] ELSE pc
    /\ Touch(c)
    /\ UNCHANGED <<wanted, ctxt, mapVars, batch, slock, to_write, inactive, to_erase,
                   readVars, connected, client_inactive>>

-----------------------------------------------------------------------------
(* EventGet (event_read), with a filter that lets every event through.     *)

\* `before' is history: what the database holds when the call starts.
ReadStart ==
    /\ to_read = {}
    /\ reads < MaxReads
    /\ ~EventsDisabled
    /\ reads' = reads + 1
    /\ to_read' = GpuObjects
    /\ reported' = {}
    /\ before' = happened
    /\ UNCHANGED <<threadVars, mapVars, roundVars, connected, client_inactive, agent>>

\* The records of the next device are read under its lock, whether or not they
\* carry a time stamp.
ReadDevice(g) ==
    /\ g \in to_read
    /\ slock # g
    /\ to_read' = to_read \ {g}
    /\ reported' = reported \union {p \in event_map : p[1] = g}
    /\ UNCHANGED <<threadVars, mapVars, roundVars, before, reads, connected,
                   client_inactive, agent>>

-----------------------------------------------------------------------------
EventInit ==
    /\ pc = [c \in Clients |-> "start"]
    /\ wanted = [c \in Clients |-> {}]
    /\ connected = [c \in Clients |-> FALSE]
    /\ ctxt = [c \in Clients |-> "none"]
    /\ client_inactive = [c \in Clients |-> FALSE]
    /\ event_map = {}
    /\ happened = {}
    /\ client_set = [p \in AllPairs |-> {}]
    /\ batch = <<>>
    /\ slock = NoGpu
    /\ to_write = {}
    /\ inactive = {}
    /\ to_erase = {}
    /\ to_signal = {}
    /\ signalling = {}
    /\ agent = "ok"
    /\ to_read = {}
    /\ reported = {}
    /\ before = {}
    /\ reads = 0

Thread(c) ==
    \/ SubscribeRegister(c) \/ SubscribeTest(c) \/ SubscribeWait(c) \/ SubscribeLeave(c)

\* The rest of a round once it has begun.
Monitor ==
    \/ EventSkip \/ EventRecord \/ EventDone
    \/ \E c \in Clients : NotifyWrite(c) \/ CleanupMark(c) \/ CleanupSignal(c)
    \/ \E g \in Gpus, c \in Clients : CleanupErase(g, c)

EventNext ==
    /\ agent # "crashed"
    /\ \/ \E c \in Clients : \/ SubscribeStart(c) \/ Thread(c)
                             \/ SpuriousWakeup(c) \/ Disconnect(c)
       \/ EventPoll \/ EventGen
       \/ Monitor
       \/ ReadStart
       \/ \E g \in Gpus : ReadDevice(g)

EventSpec == EventInit /\ [][EventNext]_eventVars

\* A runnable thread runs, a round once begun goes on, a queued subscribe request
\* is served between rounds and a reader gets a lock that is free again and
\* again.  No event need ever happen and no client need ever leave.
FairEventSpec ==
    /\ EventSpec
    /\ WF_eventVars(agent # "crashed" /\ Monitor)
    /\ \A c \in Clients : /\ WF_eventVars(agent # "crashed" /\ Thread(c))
                          /\ SF_eventVars(agent # "crashed" /\ SubscribeRegister(c))
    /\ \A g \in Gpus : SF_eventVars(agent # "crashed" /\ ReadDevice(g))

-----------------------------------------------------------------------------
\* "erase the client context from all gpus and all events related to this gRPC
\* stream before waking up the front end" (smi_state.cc): whatever pairs a client
\* asked for and whichever of them failed first, a freed context is in no
\* client_set and on no list of contexts still to be notified or erased.
FreedIsForgotten ==
    \A c \in Clients :
        ctxt[c] = "freed" => /\ ~Listens(c)
                             /\ c \notin to_write \union inactive
                             /\ \A g \in Gpus : <<g, c>> \notin to_erase

\* A connected client listens to every pair it asked for, also while other
\* listeners of the same events are retired (cleanup_event_listeners_).
ConnectedKeepsListening ==
    \A c \in Clients :
        connected[c] /\ pc[c] \in {"test", "wait", "waiting"} =>
            \A p \in wanted[c] : c \in client_set[p]

\* EventGet "will return ... all events that happened in the system until that
\* moment" (events.proto): no event recorded before the call is missing, although
\* records change while the devices are read one after the other.
ReadReportsThePast == to_read = {} => before \subseteq reported

\* A listener that cannot be reached is found out and marked in the round in
\* which an event it listens to is handled.
UnreachableIsMarked ==
    \A c \in Clients :
        (c \in to_write /\ ~connected[c]) ~> (client_inactive[c] \/ agent = "crashed")

\* EventGet returns although it spins on locks the event monitor holds while it
\* writes to streams.
ReadReturns == (to_read # {}) ~> (to_read = {} \/ agent = "crashed")

\* EventGet returns "events that happened" (events.proto): only those.
ReadReportsOnlyThePast == to_read = {} => reported \subseteq happened

-----------------------------------------------------------------------------
\* The Subscribe call of each client, for the abstract specification.
CallOf(c) ==
    CASE pc[c] = "start"                            -> "idle"
      [] pc[c] = "returned" /\ ~client_inactive[c] -> "refused"
      [] pc[c] = "returned" /\ client_inactive[c]  -> "returned"
      [] pc[c] \notin {"start", "returned"}         -> IF client_inactive[c] THEN "told" ELSE "asked"
Gone == {c \in Clients : ~connected[c] /\ pc[c] \notin {"start", "returned"}}

Promised == INSTANCE Subscription WITH call <- [c \in Clients |-> CallOf(c)], gone <- Gone

\* A call is told to end only after its client has left, and returns only when
\* told, also when its listeners fail on one device of several while others
\* subscribe (aga_event_subscribe, cleanup_event_listeners_).
EventKeepsPromise == Promised!Spec
=============================================================================
