------------------------------ MODULE GpuWatch ------------------------------
(***************************************************************************)
(* GPU watch subscriptions: the gRPC threads that run                      *)
(* aga_gpu_watch_subscribe (api/gpu_watch_api.cc), the watcher thread that *)
(* notifies the subscribers and retires the unreachable ones               *)
(* (api/smi/amdsmi/smi_state.cc) and the API thread, whose databases are   *)
(* those of ObjectStore.                                                   *)
(*                                                                         *)
(* A subscriber c is one Subscribe call: its gRPC thread, its stream and   *)
(* the client context it allocates.  The watcher thread handles subscribe  *)
(* requests and timer ticks one at a time; the steps of a tick interleave  *)
(* with the API thread, the gRPC threads and the clients.                  *)
(*                                                                         *)
(* The watcher reaches contexts through raw pointers.  What it does with a *)
(* pointer to a freed context is undefined: the agent crashes or goes on   *)
(* with the values found there (`agent').                                  *)
(***************************************************************************)
EXTENDS ObjectStore, Sequences

CONSTANTS
    Clients,      \* Subscribe calls
    Requests,     \* lists of watch keys a call may ask for
    ZeroKey,      \* the key of a cleared aga_gpu_watch_info_t
    Deletable     \* watches that some client deletes

ASSUME SubscribeAssumption ==
    /\ Requests \subseteq Seq(WatchKeys) \ {<<>>}
    /\ ZeroKey \notin WatchKeys
    /\ Deletable \subseteq WatchKeys

Keys == WatchKeys \union {ZeroKey}

VARIABLES
    pc,               \* where each gRPC thread is in aga_gpu_watch_subscribe
    ids,              \* req->gpu_watch_ids of each call
    unchecked,        \* how many of them the thread has still to look up
    connected,        \* the client still holds the stream open
    ctxt,             \* client contexts: "none", "live" or "freed"
    client_inactive,  \* client_ctxt->client_inactive
    gpu_watch_map,    \* keys of gpu_watch_subscriber_db_.gpu_watch_map ...
    client_set,       \* ... and the contexts each of them holds
    to_read,          \* watches this tick has still to notify
    info_key,         \* info.spec.key of the watch being notified
    to_write,         \* its contexts that are still to be written to
    inactive,         \* inactive_subscribers: pairs <<watch key, context>>
    to_signal,        \* contexts whose thread is still to be woken up
    signalling,       \* those of them already marked client_inactive
    agent             \* "ok", or "undefined"/"crashed" after a use of freed memory

threadVars  == <<pc, ids, unchecked, ctxt>>
tickVars    == <<to_read, info_key, to_write, inactive, to_signal, signalling>>
subscrVars  == <<gpu_watch_map, client_set>>
vars == <<storeVars, threadVars, tickVars, subscrVars, connected, client_inactive,
          agent>>

Points == {"start", "checking", "register", "count", "test", "wait", "waiting",
           "leave", "returned"}

TypeOK ==
    /\ StoreTypeOK
    /\ pc \in [Clients -> Points]
    /\ ids \in [Clients -> Requests \union {<<>>}]
    /\ unchecked \in [Clients -> Nat]
    /\ connected \in [Clients -> BOOLEAN]
    /\ ctxt \in [Clients -> {"none", "live", "freed"}]
    /\ client_inactive \in [Clients -> BOOLEAN]
    /\ gpu_watch_map \subseteq Keys
    /\ client_set \in [Keys -> SUBSET Clients]
    /\ to_read \subseteq Keys
    /\ info_key \in Keys
    /\ to_write \subseteq Clients
    /\ inactive \subseteq Keys \X Clients
    /\ to_signal \subseteq Clients
    /\ signalling \subseteq to_signal
    /\ agent \in {"ok", "undefined", "crashed"}

\* The keys call c asked for, and how often it asked for each.
Asked(c) == {ids[c][i] : i \in DOMAIN ids[c]}
Times(c) == [w \in WatchKeys |-> Cardinality({i \in DOMAIN ids[c] : ids[c][i] = w})]

\* The watcher reads or writes the context of c.
Touch(c) == agent' \in IF ctxt[c] = "freed" THEN {"undefined", "crashed"} ELSE {agent}

-----------------------------------------------------------------------------
(* The gRPC thread of call c.                                              *)

\* A client opens a stream and asks for some watches.
SubscribeStart(c) ==
    /\ pc[c] = "start"
    /\ \E req \in Requests : /\ ids' = [ids EXCEPT ![c] = req]
                             /\ unchecked' = [unchecked EXCEPT ![c] = Len(req)]
    /\ pc' = [pc EXCEPT ![c] = "checking"]
    /\ connected' = [connected EXCEPT ![c] = TRUE]
    /\ UNCHANGED <<storeVars, ctxt, tickVars, subscrVars, client_inactive, agent>>

\* Each id is looked up under the database's own lock; an unknown one ends the
\* call, after the last the context is allocated.
SubscribeCheck(c) ==
    /\ pc[c] = "checking"
    /\ LET id == ids[c][Len(ids[c]) - unchecked[c] + 1]
       IN  \/ /\ id \notin gpu_watch_db
              /\ pc' = [pc EXCEPT ![c] = "returned"]
              /\ UNCHANGED <<unchecked, ctxt>>
           \/ /\ id \in gpu_watch_db
              /\ unchecked[c] > 1
              /\ unchecked' = [unchecked EXCEPT ![c] = @ - 1]
              /\ UNCHANGED <<pc, ctxt>>
           \/ /\ id \in gpu_watch_db
              /\ unchecked[c] = 1
              /\ unchecked' = [unchecked EXCEPT ![c] = 0]
              /\ pc' = [pc EXCEPT ![c] = "register"]
              /\ ctxt' = [ctxt EXCEPT ![c] = "live"]
    /\ UNCHANGED <<storeVars, ids, tickVars, subscrVars, connected,
                   client_inactive, agent>>

\* The task SUBSCRIBE_ADD counts the call on every watch it asked for.
SubscribeCount(c) ==
    /\ pc[c] = "count"
    /\ SubscriberAdd(Times(c))
    /\ pc' = [pc EXCEPT ![c] = "test"]
    /\ UNCHANGED <<ids, unchecked, ctxt, tickVars, subscrVars, connected,
                   client_inactive, agent>>

\* while (client_inactive == false): under the context's lock, which the
\* watcher does not take.
SubscribeTest(c) ==
    /\ pc[c] = "test"
    /\ pc' = [pc EXCEPT ![c] = IF client_inactive[c] THEN "leave" ELSE "wait"]
    /\ UNCHANGED <<storeVars, ids, unchecked, ctxt, tickVars, subscrVars,
                   connected, client_inactive, agent>>

\* pthread_cond_wait: the thread starts to wait ...
SubscribeWait(c) ==
    /\ pc[c] = "wait"
    /\ pc' = [pc EXCEPT ![c] = "waiting"]
    /\ UNCHANGED <<storeVars, ids, unchecked, ctxt, tickVars, subscrVars,
                   connected, client_inactive, agent>>

\* ... and POSIX lets it wake up without a signal.
SpuriousWakeup(c) ==
    /\ pc[c] = "waiting"
    /\ pc' = [pc EXCEPT ![c] = "test"]
    /\ UNCHANGED <<storeVars, ids, unchecked, ctxt, tickVars, subscrVars,
                   connected, client_inactive, agent>>

\* The thread frees its context and the call returns.
SubscribeLeave(c) ==
    /\ pc[c] = "leave"
    /\ pc' = [pc EXCEPT ![c] = "returned"]
    /\ ctxt' = [ctxt EXCEPT ![c] = "freed"]
    /\ UNCHANGED <<storeVars, ids, unchecked, tickVars, subscrVars, connected,
                   client_inactive, agent>>

\* The client goes away: from now on writes to its stream fail.
Disconnect(c) ==
    /\ pc[c] \notin {"start", "returned"}
    /\ connected[c]
    /\ connected' = [connected EXCEPT ![c] = FALSE]
    /\ UNCHANGED <<storeVars, threadVars, tickVars, subscrVars, client_inactive,
                   agent>>

-----------------------------------------------------------------------------
(* The watcher thread.                                                     *)

WatcherIdle == to_read = {} /\ to_write = {} /\ inactive = {} /\ to_signal = {}

\* gpu_watch_subscribe_ipc_cb_: the thread of c waits for the reply.
SubscribeRegister(c) ==
    /\ WatcherIdle
    /\ pc[c] = "register"
    /\ pc' = [pc EXCEPT ![c] = "count"]
    /\ gpu_watch_map' = gpu_watch_map \union Asked(c)
    /\ client_set' = [k \in Keys |-> IF k \in Asked(c) THEN client_set[k] \union {c}
                                                       ELSE client_set[k]]
    /\ UNCHANGED <<storeVars, ids, unchecked, ctxt, tickVars, connected,
                   client_inactive, agent>>

\* watch_timer_cb_ publishes a sample: nothing to do before the first
\* subscription ever.  The sample itself is WatchSample's subject.
Tick ==
    /\ WatcherIdle
    /\ gpu_watch_map # {}
    /\ to_read' = gpu_watch_map
    /\ UNCHANGED <<storeVars, threadVars, info_key, to_write, inactive, to_signal,
                   signalling, subscrVars, connected, client_inactive, agent>>

\* The next watch is read.  The result of aga_gpu_watch_read is not looked at:
\* a watch that is gone leaves info, and with it the key, cleared.
NotifyRead(k) ==
    /\ to_write = {}
    /\ k \in to_read
    /\ to_read' = to_read \ {k}
    /\ info_key' = IF k \in gpu_watch_db THEN k ELSE ZeroKey
    /\ to_write' = client_set[k]
    /\ UNCHANGED <<storeVars, threadVars, inactive, to_signal, signalling,
                   subscrVars, connected, client_inactive, agent>>

\* Mutant of NotifyWrite: write_cb's result is read the wrong way round.
NotifyWriteMutant(c) ==
    /\ c \in to_write
    /\ to_write' = to_write \ {c}
    /\ inactive' = IF connected[c] THEN inactive \union {<<info_key, c>>} ELSE inactive
    /\ Touch(c)
    /\ UNCHANGED <<storeVars, threadVars, to_read, info_key, to_signal, signalling,
                   subscrVars, connected, client_inactive>>

\* Mutant of NotifyWrite: write_cb's result is ignored.
NotifyWriteIgnore(c) ==
    /\ c \in to_write
    /\ to_write' = to_write \ {c}
    /\ Touch(c)
    /\ UNCHANGED <<storeVars, threadVars, to_read, info_key, inactive, to_signal,
                   signalling, subscrVars, connected, client_inactive>>

\* write_cb to one context; a failed write puts it on the list to retire,
\* under the key that was read.
NotifyWrite(c) ==
    /\ c \in to_write
    /\ to_write' = to_write \ {c}
    /\ inactive' = IF connected[c] THEN inactive ELSE inactive \union {<<info_key, c>>}
    /\ Touch(c)
    /\ UNCHANGED <<storeVars, threadVars, to_read, info_key, to_signal, signalling,
                   subscrVars, connected, client_inactive>>

\* Mutant of CleanupErase: the API thread is not told to uncount the context.
CleanupEraseUncounted(k, c) ==
    /\ to_read = {} /\ to_write = {}
    /\ <<k, c>> \in inactive
    /\ inactive' = inactive \ {<<k, c>>}
    /\ gpu_watch_map' = gpu_watch_map \union {k}
    /\ client_set' = [client_set EXCEPT ![k] = @ \ {c}]
    /\ to_signal' = to_signal \union {c}
    /\ UNCHANGED <<storeVars, threadVars, to_read, info_key, to_write, signalling,
                   connected, client_inactive, agent>>

\* Mutant of CleanupErase: the context stays in the client_set.
CleanupEraseKept(k, c) ==
    /\ to_read = {} /\ to_write = {}
    /\ <<k, c>> \in inactive
    /\ inactive' = inactive \ {<<k, c>>}
    /\ SubscriberDel(k)
    /\ to_signal' = to_signal \union {c}
    /\ UNCHANGED <<threadVars, to_read, info_key, to_write, signalling, subscrVars,
                   connected, client_inactive, agent>>

\* cleanup_gpu_watch_inactive_subscribers_, first loop: the context leaves the
\* set of that key (operator[] creates a missing one) and the API thread
\* uncounts it before the next one is taken.
CleanupErase(k, c) ==
    /\ to_read = {} /\ to_write = {}
    /\ <<k, c>> \in inactive
    /\ inactive' = inactive \ {<<k, c>>}
    /\ gpu_watch_map' = gpu_watch_map \union {k}
    /\ client_set' = [client_set EXCEPT ![k] = @ \ {c}]
    /\ SubscriberDel(k)
    /\ to_signal' = to_signal \union {c}
    /\ UNCHANGED <<threadVars, to_read, info_key, to_write, signalling, connected,
                   client_inactive, agent>>

\* Second loop: client_inactive is set, without the context's lock ...
CleanupMark(c) ==
    /\ to_read = {} /\ to_write = {} /\ inactive = {} /\ signalling = {}
    /\ c \in to_signal
    /\ client_inactive' = [client_inactive EXCEPT ![c] = TRUE]
    /\ signalling' = {c}
    /\ Touch(c)
    /\ UNCHANGED <<storeVars, threadVars, to_read, info_key, to_write, inactive,
                   to_signal, subscrVars, connected>>

\* Mutant of CleanupSignal: the context is not taken off the list being marked.
CleanupSignalMutant(c) ==
    /\ c \in signalling
    /\ to_signal' = to_signal \ {c}
    /\ pc' = IF pc[c] = "waiting" THEN [pc EXCEPT ![c] = "test"] ELSE pc
    /\ Touch(c)
    /\ UNCHANGED <<storeVars, ids, unchecked, ctxt, to_read, info_key, to_write,
                   inactive, signalling, subscrVars, connected, client_inactive>>

\* ... then pthread_cond_signal wakes the thread, if it is waiting.
CleanupSignal(c) ==
    /\ c \in signalling
    /\ signalling' = {}
    /\ to_signal' = to_signal \ {c}
    /\ pc' = IF pc[c] = "waiting" THEN [pc EXCEPT ![c] = "test"] ELSE pc
    /\ Touch(c)
    /\ UNCHANGED <<storeVars, ids, unchecked, ctxt, to_read, info_key, to_write,
                   inactive, subscrVars, connected, client_inactive>>

-----------------------------------------------------------------------------
\* Clients configure the watches meanwhile, through the API thread.
Configure ==
    /\ \/ \E w \in WatchKeys : GpuWatchCreate(w, GpuKeys)
       \/ \E w \in Deletable : GpuWatchDelete(w)
    /\ UNCHANGED <<threadVars, tickVars, subscrVars, connected, client_inactive,
                   agent>>

Init ==
    /\ gpu_db = GpuKeys
    /\ num_gpu_watch = [g \in GpuKeys |-> 0]
    /\ gpu_watch_db = {}
    /\ spec_gpu = [w \in WatchKeys |-> {}]
    /\ num_subscriber = [w \in WatchKeys |-> 0]
    /\ pc = [c \in Clients |-> "start"]
    /\ ids = [c \in Clients |-> <<>>]
    /\ unchecked = [c \in Clients |-> 0]
    /\ connected = [c \in Clients |-> FALSE]
    /\ ctxt = [c \in Clients |-> "none"]
    /\ client_inactive = [c \in Clients |-> FALSE]
    /\ gpu_watch_map = {}
    /\ client_set = [k \in Keys |-> {}]
    /\ to_read = {}
    /\ info_key = ZeroKey
    /\ to_write = {}
    /\ inactive = {}
    /\ to_signal = {}
    /\ signalling = {}
    /\ agent = "ok"

Thread(c) ==
    \/ SubscribeCheck(c) \/ SubscribeRegister(c) \/ SubscribeCount(c)
    \/ SubscribeTest(c) \/ SubscribeWait(c) \/ SubscribeLeave(c)

Watcher ==
    \/ Tick
    \/ \E k \in Keys : NotifyRead(k)
    \/ \E c \in Clients : NotifyWrite(c) \/ CleanupMark(c) \/ CleanupSignal(c)
    \/ \E k \in Keys, c \in Clients : CleanupErase(k, c)

Next ==
    /\ agent # "crashed"
    /\ \/ \E c \in Clients : \/ SubscribeStart(c) \/ Thread(c)
                             \/ SpuriousWakeup(c) \/ Disconnect(c)
       \/ Watcher
       \/ Configure

Spec == Init /\ [][Next]_vars

\* The timer keeps firing, a runnable thread runs, and the watcher's event loop
\* serves a queued subscribe request between ticks; clients owe nothing.
FairSpec ==
    /\ Spec
    /\ WF_vars(agent # "crashed" /\ Watcher)
    /\ \A c \in Clients : /\ WF_vars(agent # "crashed" /\ Thread(c))
                          /\ SF_vars(agent # "crashed" /\ SubscribeRegister(c))

-----------------------------------------------------------------------------
\* Contexts that the watcher knows of.
Registered(c) == \E k \in Keys : c \in client_set[k]

\* The Subscribe call of each client, for the abstract specification.
CallOf(c) ==
    CASE pc[c] = "start"                            -> "idle"
      [] pc[c] = "returned" /\ ~client_inactive[c] -> "refused"
      [] pc[c] = "returned" /\ client_inactive[c]  -> "returned"
      [] pc[c] \notin {"start", "returned"}         -> IF client_inactive[c] THEN "told" ELSE "asked"
Gone == {c \in Clients : ~connected[c] /\ pc[c] \notin {"start", "returned"}}

Promised == INSTANCE Subscription WITH call <- [c \in Clients |-> CallOf(c)], gone <- Gone

\* However watches come and go and ticks, tasks and wake-ups interleave, a call is
\* told to end only after its client has left, and returns only when told
\* (aga_gpu_watch_subscribe, cleanup_gpu_watch_inactive_subscribers_).
WatchKeepsPromise == Promised!Spec

\* num_subscriber_ against the watcher's own records, at every moment and not
\* only at rest: the count of a watch is the number of contexts in its
\* client_set, less the calls that are registered but not yet counted (a call
\* is registered by the watcher and counted by the API thread, in two steps).
SubscriberCountMatches ==
    agent = "ok" =>
        \A w \in gpu_watch_db :
            num_subscriber[w] =
                (Cardinality(client_set[w])
                 - Cardinality({c \in Clients : pc[c] = "count" /\ w \in Asked(c)}))
                % SubscriberWidth

\* A context is out of the client_set of its watch before its thread is told that
\* it may free it, also while other watches come and go: for calls that ask for
\* one watch (NoFreedContext shows what happens to others), and watches that
\* nobody deletes under them.
ForgottenBeforeMarked ==
    \A c \in Clients, w \in WatchKeys \ Deletable :
        client_inactive[c] => c \notin client_set[w]

\* A thread whose client went away is eventually told: the tick that finds out
\* always gets as far as marking the context (or the agent is down).
UnreachableIsMarked ==
    \A c \in Clients :
        (Registered(c) /\ ~connected[c]) ~> (client_inactive[c] \/ agent = "crashed")

\* "we should erase the client context from all gpus and all events related to
\* this gRPC stream before waking up the front end" (smi_state.cc): no freed
\* context stays in a client_set.
NoFreedContext == \A c \in Clients : ctxt[c] = "freed" => ~Registered(c)

\* "wakeup the front end thread so it can exit" (smi_state.cc): a thread marked
\* client_inactive returns from aga_gpu_watch_subscribe.
MarkedReturns ==
    \A c \in Clients : client_inactive[c] ~> (pc[c] = "returned" \/ agent = "crashed")

\* "gpu watch has active subscribers" (gpu_watch.cc, delete_handler): a watch is
\* not deleted under a client that is connected and waits for its samples.
SubscribedWatchKept ==
    [][\A w \in gpu_watch_db \ gpu_watch_db', c \in Clients :
           ~(connected[c] /\ pc[c] = "waiting" /\ c \in client_set[w])]_vars
=============================================================================
