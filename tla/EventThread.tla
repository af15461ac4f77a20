---------------------------- MODULE EventThread ----------------------------
(***************************************************************************)
(* One event thread (lib/event_thread over lib/thread): a libev loop that  *)
(* an async watcher wakes, a lock-free queue of messages, and the requests *)
(* other threads make of it, to stop, to suspend and to resume.  libev, the *)
(* queue and pthreads are external: an async that was sent is pending until *)
(* its callback has begun, however often it was sent, and ev_run does not   *)
(* return but by ev_break.                                                 *)
(***************************************************************************)
EXTENDS Naturals, Sequences

CONSTANTS
    Senders,        \* threads that send messages
    MaxMessages,    \* bound: messages sent
    MaxSuspends     \* bound: suspend requests

ASSUME EventThreadAssumption == MaxMessages \in Nat /\ MaxSuspends \in Nat

VARIABLES
    ev,          \* the event thread: where it is, and its loop
    flags,       \* stop_, running_, suspend_, suspended_
    async,       \* the async watcher is pending
    stop_mutex,  \* who holds stop_mutex_
    lfq,         \* lfq_
    sender,      \* sender -> where it is in message_send
    owner,       \* the thread that starts, stops and joins it
    bounds       \* messages and suspend requests so far

eventThreadVars == <<ev, flags, async, stop_mutex, lfq, sender, owner, bounds>>

EventThreadTypeOK ==
    /\ ev \in [pc: {"created", "init", "loop", "run", "process", "suspend", "to wait", "waiting",
                    "woken", "exit", "destroyed", "dead"},
               loop: BOOLEAN]
    /\ flags \in [stop: BOOLEAN, running: BOOLEAN, suspend: BOOLEAN, suspended: BOOLEAN]
    /\ async \in BOOLEAN
    /\ stop_mutex \in {"free", "loop", "owner"}
    /\ (stop_mutex = "loop") <=> (ev.pc = "process")
    /\ ev.pc \in {"waiting", "woken"} => flags.suspended
    /\ lfq \in 0 .. MaxMessages
    /\ sender \in [Senders -> {"idle", "enqueued"}]
    /\ owner \in [pc: {"created", "started", "stopping", "stopped", "joined"}, early: BOOLEAN]
    /\ bounds \in [sent: 0 .. MaxMessages, suspends: 0 .. MaxSuspends]

ThreadAt(pc) == ev' = [ev EXCEPT !.pc = pc]

-----------------------------------------------------------------------------
\* thread::start: the thread is created before running_ is set.
ThreadStart ==
    /\ owner.pc = "created" /\ ev.pc = "created"
    /\ ThreadAt("init")
    /\ UNCHANGED <<flags, async, stop_mutex, lfq, sender, owner, bounds>>

ThreadRunning ==
    /\ owner.pc = "created" /\ ev.pc # "created"
    /\ flags' = [flags EXCEPT !.running = TRUE]
    /\ owner' = [owner EXCEPT !.pc = "started"]
    /\ UNCHANGED <<ev, async, stop_mutex, lfq, sender, bounds>>

\* run_: the init function; then `while (!stop_)'.
ThreadInit ==
    /\ ev.pc = "init"
    /\ ThreadAt("loop")
    /\ UNCHANGED <<flags, async, stop_mutex, lfq, sender, owner, bounds>>

LoopTest ==
    /\ ev.pc = "loop"
    /\ ThreadAt(IF flags.stop THEN "exit" ELSE "run")
    /\ UNCHANGED <<flags, async, stop_mutex, lfq, sender, owner, bounds>>

\* Mutant of handle_async: a stop request is not looked at.
handle_asyncMutant ==
    IF flags.suspend THEN ThreadAt("suspend") /\ UNCHANGED stop_mutex
    ELSE ThreadAt("process") /\ stop_mutex' = "loop"

\* handle_async_: a request to stop or to suspend breaks the loop; the queue is
\* served otherwise, under the mutex.
handle_async ==
    IF flags.stop \/ flags.suspend THEN ThreadAt("suspend") /\ UNCHANGED stop_mutex
    ELSE ThreadAt("process") /\ stop_mutex' = "loop"

\* ev_run: the pending async, once the mutex is free.
AsyncFires ==
    /\ ev.pc = "run" /\ async
    /\ stop_mutex = "free"
    /\ async' = FALSE
    /\ handle_async
    /\ UNCHANGED <<flags, lfq, sender, owner, bounds>>

\* process_lfq_: one message and its callback, or back to ev_run.
process_lfq ==
    /\ ev.pc = "process"
    /\ IF lfq = 0 THEN ThreadAt("run") /\ stop_mutex' = "free" /\ UNCHANGED lfq
                  ELSE lfq' = lfq - 1 /\ UNCHANGED <<ev, stop_mutex>>
    /\ UNCHANGED <<flags, async, sender, owner, bounds>>

\* check_and_suspend, its loop test and its callback, which may refuse.
CheckAndSuspend ==
    /\ ev.pc = "suspend"
    /\ \/ ~flags.suspend /\ ThreadAt("loop") /\ UNCHANGED flags
       \/ flags.suspend /\ ThreadAt("to wait") /\ UNCHANGED flags
       \/ flags.suspend /\ ThreadAt("loop") /\ flags' = [flags EXCEPT !.suspend = FALSE]
    /\ UNCHANGED <<async, stop_mutex, lfq, sender, owner, bounds>>

\* ... and the wait, which does not look at suspend_ again.
SuspendWait ==
    /\ ev.pc = "to wait"
    /\ flags' = [flags EXCEPT !.suspended = TRUE]
    /\ ThreadAt("waiting")
    /\ UNCHANGED <<async, stop_mutex, lfq, sender, owner, bounds>>

\* pthread_cond_wait returns, signalled or not; suspended_ is cleared, and set
\* again when the resume callback fails.
SuspendReturn ==
    /\ ev.pc \in {"waiting", "woken"}
    /\ \/ flags' = [flags EXCEPT !.suspended = FALSE]
       \/ ~flags.suspend /\ UNCHANGED flags
    /\ ThreadAt("suspend")
    /\ UNCHANGED <<async, stop_mutex, lfq, sender, owner, bounds>>

\* The end of run_: the exit function, then the loop goes.
ThreadExits ==
    /\ ev.pc = "exit"
    /\ ev' = [pc |-> "destroyed", loop |-> FALSE]
    /\ UNCHANGED <<flags, async, stop_mutex, lfq, sender, owner, bounds>>

ThreadDies ==
    /\ ev.pc = "destroyed"
    /\ ThreadAt("dead")
    /\ UNCHANGED <<flags, async, stop_mutex, lfq, sender, owner, bounds>>

-----------------------------------------------------------------------------

\* message_send: into the queue, then ev_async_send.  Callers see to it that the
\* thread has not been stopped when they begin.
message_send(s) ==
    \/ /\ sender[s] = "idle" /\ bounds.sent < MaxMessages /\ ev.loop /\ ~flags.stop
       /\ bounds' = [bounds EXCEPT !.sent = @ + 1]
       /\ lfq' = lfq + 1
       /\ sender' = [sender EXCEPT ![s] = "enqueued"]
       /\ UNCHANGED <<ev, flags, async, stop_mutex, owner>>
    \/ /\ sender[s] = "enqueued"
       /\ async' = TRUE
       /\ sender' = [sender EXCEPT ![s] = "idle"]
       /\ UNCHANGED <<ev, flags, stop_mutex, lfq, owner, bounds>>

\* suspend_req: the flag, then ev_async_send.
suspend_req ==
    /\ owner.pc = "started"
    /\ bounds.suspends < MaxSuspends
    /\ bounds' = [bounds EXCEPT !.suspends = @ + 1]
    /\ flags' = [flags EXCEPT !.suspend = TRUE]
    /\ async' = TRUE
    /\ UNCHANGED <<ev, stop_mutex, lfq, sender, owner>>

\* resume_req: nothing to do unless a suspend is asked for; a signal if the
\* thread waits.
resume_req ==
    /\ ev' = IF flags.suspend /\ ev.pc = "waiting" THEN [ev EXCEPT !.pc = "woken"] ELSE ev
    /\ flags' = [flags EXCEPT !.suspend = FALSE]

ResumeReq ==
    /\ owner.pc = "started"
    /\ resume_req
    /\ UNCHANGED <<async, stop_mutex, lfq, sender, owner, bounds>>

-----------------------------------------------------------------------------
\* Mutant of StopSet: stop does not take the mutex.
StopSetMutant ==
    /\ owner.pc = "started"
    /\ flags' = [flags EXCEPT !.stop = TRUE, !.running = FALSE]
    /\ owner' = [pc |-> "stopping", early |-> ev.pc # "run"]
    /\ UNCHANGED <<ev, async, stop_mutex, lfq, sender, bounds>>

\* event_thread::stop: stop_ and running_, under the mutex ...
StopSet ==
    /\ owner.pc = "started"
    /\ stop_mutex = "free"
    /\ stop_mutex' = "owner"
    /\ flags' = [flags EXCEPT !.stop = TRUE, !.running = FALSE]
    /\ owner' = [pc |-> "stopping", early |-> ev.pc # "run"]
    /\ UNCHANGED <<ev, async, lfq, sender, bounds>>

\* ... then a suspended thread is resumed, any other one's loop is woken.
StopSend ==
    /\ owner.pc = "stopping"
    /\ IF flags.suspended THEN resume_req /\ UNCHANGED async
                          ELSE async' = TRUE /\ UNCHANGED <<ev, flags>>
    /\ stop_mutex' = "free"
    /\ owner' = [owner EXCEPT !.pc = "stopped"]
    /\ UNCHANGED <<lfq, sender, bounds>>

\* thread::wait: joins a thread that is not running_ any more.
ThreadWait ==
    /\ owner.pc = "stopped"
    /\ ~flags.running
    /\ ev.pc = "dead"
    /\ owner' = [owner EXCEPT !.pc = "joined"]
    /\ UNCHANGED <<ev, flags, async, stop_mutex, lfq, sender, bounds>>

EventThreadInit ==
    /\ ev = [pc |-> "created", loop |-> TRUE]
    /\ flags = [stop |-> FALSE, running |-> FALSE, suspend |-> FALSE, suspended |-> FALSE]
    /\ async = FALSE
    /\ stop_mutex = "free"
    /\ lfq = 0
    /\ sender = [s \in Senders |-> "idle"]
    /\ owner = [pc |-> "created", early |-> FALSE]
    /\ bounds = [sent |-> 0, suspends |-> 0]

EventThreadNext ==
    \/ ThreadStart \/ ThreadRunning \/ ThreadInit \/ LoopTest \/ AsyncFires \/ process_lfq
    \/ CheckAndSuspend \/ SuspendWait \/ SuspendReturn \/ ThreadExits \/ ThreadDies
    \/ \E s \in Senders : message_send(s)
    \/ suspend_req \/ ResumeReq \/ StopSet \/ StopSend \/ ThreadWait

EventThreadSpec == EventThreadInit /\ [][EventThreadNext]_eventThreadVars

-----------------------------------------------------------------------------
\* event_thread::stop wakes the loop after it has set stop_: the thread, which
\* ends as soon as it sees stop_, must not have destroyed the loop by then.  The
\* mutex sees to it for a thread inside ev_run; one that is on its way into it,
\* from its init function or from a suspension, can be faster.
LoopOutlivesStop ==
    owner.pc = "stopping" /\ ~owner.early => ev.loop

\* A thread that was told to stop does not go back to sleep: inside ev_run the
\* async is pending, or its callback is under way and its last word was not yet
\* read (event_thread::stop, handle_async_).  Left out is a thread whose resume
\* callback failed: it counts as suspended while it runs, and stop resumes it.
StopIsHeard ==
    owner.pc = "stopped" /\ ev.pc = "run" /\ ~flags.suspended => async

\* A message that was sent is served: while there is one in the queue the loop
\* is about to look at it (message_send, handle_async_, process_lfq_), unless
\* the thread was ever asked to suspend, which takes the async of a message for
\* its own.
NoMessageStranded ==
    ev.pc = "run" /\ lfq > 0 /\ bounds.suspends = 0 =>
        async \/ \E s \in Senders : sender[s] = "enqueued"

\* One async stands for stop and for messages, and neither is lost in it
\* (event_thread::stop, message_send, handle_async_).
WakeUpsArrive == StopIsHeard /\ NoMessageStranded
=============================================================================
