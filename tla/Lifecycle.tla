----------------------------- MODULE Lifecycle ------------------------------
(***************************************************************************)
(* Start-up and shutdown of gpuagent (main.cc, init.cc, api/init.cc and    *)
(* init/teardown of the SMI state).  An agent is a process: its main       *)
(* thread, the detached thread that waits for a termination signal, the    *)
(* event-monitor thread and the watcher thread.  Agents share the path of  *)
(* the Unix socket.  The kernel and gRPC are external: bind replaces the   *)
(* file, connect succeeds if the file's listener lives, exit closes it.    *)
(***************************************************************************)
EXTENDS Naturals, FiniteSets

CONSTANTS
    Agents,        \* processes
    Transports,    \* Transports[a]: how a may be started, "uds" (-s) or "tcp"
    Backend,       \* Backend[a]: "amdsmi" or "wslamdsmi"
    MaxStarts      \* bound: how often each agent is started

ASSUME LifeAssumption ==
    /\ Agents \cap {"no file", "stale"} = {}
    /\ Transports \in [Agents -> SUBSET {"uds", "tcp"}]
    /\ Backend \in [Agents -> {"amdsmi", "wslamdsmi"}]
    /\ MaxStarts \in [Agents -> Nat]

VARIABLES
    proc,        \* agent -> its main thread and the globals of the process
    signalled,   \* agent -> the signal thread
    smi_thread,  \* agent -> [mon, wat]: event-monitor and watcher thread
    socket_file, \* who bound the file at the path, Stale, or NoFile
    raced,       \* agents that started while another one was starting or running
    starts       \* bound counter

lifeVars == <<proc, signalled, smi_thread, socket_file, raced, starts>>

NoFile == "no file"
Stale  == "stale"     \* a socket file nobody listens on
Threads == {"mon", "wat"}
DeadProc == [main |-> "dead", uds |-> FALSE, g_socket_path |-> FALSE, smi_up |-> FALSE, initialized |-> FALSE]

LifeTypeOK ==
    /\ proc \in [Agents -> [main: {"dead", "main", "refused", "stale", "prepared", "api", "smi", "spawn",
                                   "objects", "bind", "serve", "failed"},
                            uds: BOOLEAN, g_socket_path: BOOLEAN, smi_up: BOOLEAN, initialized: BOOLEAN]]
    /\ signalled \in [Agents -> {"wait", "teardown", "join mon", "join wat", "shutdown",
                                 "unlink", "raise"}]
    /\ smi_thread \in [Agents -> [Threads -> {"none", "run", "callback", "last callback", "exit", "gone"}]]
    /\ socket_file \in {NoFile, Stale} \union Agents
    /\ \A a \in Agents :
         signalled[a] \in {"join mon", "join wat", "shutdown"} => proc[a].initialized
    /\ raced \subseteq Agents
    /\ starts \in [Agents -> Nat] /\ \A a \in Agents : starts[a] <= MaxStarts[a]

Alive(a)     == proc[a].main # "dead"
Listening(a) == proc[a].main = "serve"
\* UDS agents that passed the check of prepare_unix_socket and may still touch
\* the path.
Contenders   == {a \in Agents : /\ proc[a].uds
                                /\ proc[a].main \notin {"dead", "main", "refused"}
                                /\ signalled[a] # "raise" \/ proc[a].main = "stale"}

\* The end of a process: its threads vanish, its listener closes.
Die(a) ==
    /\ proc' = [proc EXCEPT ![a] = DeadProc]
    /\ signalled' = [signalled EXCEPT ![a] = "wait"]
    /\ smi_thread' = [smi_thread EXCEPT ![a] = [th \in Threads |-> "none"]]
    /\ socket_file' = IF socket_file = a THEN Stale ELSE socket_file
    /\ raced' = raced \ {a}
    /\ UNCHANGED starts

-----------------------------------------------------------------------------
\* main up to the fork of the signal thread: the options choose the transport.
Start(a) ==
    /\ ~Alive(a)
    /\ starts[a] < MaxStarts[a]
    /\ starts' = [starts EXCEPT ![a] = @ + 1]
    /\ \E t \in Transports[a] : proc' = [proc EXCEPT ![a].main = "main", ![a].uds = (t = "uds")]
    /\ UNCHANGED <<signalled, smi_thread, socket_file, raced>>

\* Mutant of prepare_unix_socket: the path is set before the check.
prepare_unix_socketMutant(a) ==
    \/ /\ socket_file \in Agents /\ Listening(socket_file)
       /\ proc' = [proc EXCEPT ![a].main = "refused", ![a].g_socket_path = TRUE]
    \/ /\ socket_file # NoFile
       /\ ~(socket_file \in Agents /\ Listening(socket_file))
       /\ proc' = [proc EXCEPT ![a].main = "stale", ![a].g_socket_path = TRUE]
    \/ /\ socket_file = NoFile
       /\ proc' = [proc EXCEPT ![a].main = "prepared", ![a].g_socket_path = TRUE]

\* prepare_unix_socket: a socket somebody listens on is another instance; one
\* that refuses the connection is stale.  The path for the clean-up is set when
\* the function has returned.
prepare_unix_socket(a) ==
    \/ /\ socket_file \in Agents /\ Listening(socket_file)
       /\ proc' = [proc EXCEPT ![a].main = "refused"]
    \/ /\ socket_file # NoFile
       /\ ~(socket_file \in Agents /\ Listening(socket_file))
       /\ proc' = [proc EXCEPT ![a].main = "stale"]
    \/ /\ socket_file = NoFile
       /\ proc' = [proc EXCEPT ![a].main = "prepared", ![a].g_socket_path = TRUE]

\* ... and is removed, whoever bound it in the meantime; if it is gone by then,
\* unlink fails.
unlink_stale(a) ==
    /\ proc[a].main = "stale"
    /\ proc' = IF socket_file = NoFile
               THEN [proc EXCEPT ![a].main = "refused"]
               ELSE [proc EXCEPT ![a].main = "prepared", ![a].g_socket_path = TRUE]
    /\ socket_file' = NoFile
    /\ UNCHANGED <<signalled, smi_thread, raced, starts>>

\* main, the rest: a TCP agent removes the default socket whoever owns it.
Prepare(a) ==
    /\ proc[a].main = "main"
    /\ \/ /\ proc[a].uds
          /\ prepare_unix_socket(a)
          /\ UNCHANGED <<socket_file, raced>>
       \/ /\ ~proc[a].uds
          /\ proc' = [proc EXCEPT ![a].main = "prepared"]
          /\ socket_file' = NoFile
          /\ raced' = raced \union Contenders
    /\ UNCHANGED <<signalled, smi_thread, starts>>

\* exit(1) after a refusal, a failure of create_gpus (SDK_ASSERT) or of the server.
ExitOne(a) ==
    /\ proc[a].main \in {"refused", "failed"}
    /\ Die(a)

\* aga_api_init: the state and the API thread, then smi_init, whose result
\* aga_init does not look at.
aga_api_init(a) ==
    /\ proc[a].main = "prepared"
    /\ proc' = [proc EXCEPT ![a].main = "api"]
    /\ UNCHANGED <<signalled, smi_thread, socket_file, raced, starts>>

\* smi_state::init: the library, the GPUs, then both threads.
smi_init(a) ==
    /\ proc[a].main = "api"
    /\ \/ proc' = [proc EXCEPT ![a].main = "smi", ![a].smi_up = TRUE]
       \/ proc' = [proc EXCEPT ![a].main = "objects"]   \* the library failed
       \/ proc' = [proc EXCEPT ![a].main = "objects", ![a].smi_up = TRUE]  \* the discovery failed
    /\ UNCHANGED <<signalled, smi_thread, socket_file, raced, starts>>

\* smi_state::init of the WSL2 back end: the same behind a check of the host.
wsl_smi_init(a) ==
    \/ smi_init(a)
    \/ /\ proc[a].main = "api"
       /\ proc' = [proc EXCEPT ![a].main = "objects"]   \* WSL2 not detected
       /\ UNCHANGED <<signalled, smi_thread, socket_file, raced, starts>>

\* spawn_event_monitor_thread_: created and started; its init runs before its loop.
spawn_event_monitor_thread(a) ==
    /\ proc[a].main = "smi"
    /\ smi_thread' = [smi_thread EXCEPT ![a].mon = "run"]
    /\ proc' = [proc EXCEPT ![a].main = "spawn"]
    /\ UNCHANGED <<signalled, socket_file, raced, starts>>

\* spawn_watcher_thread_, and initialized_.
spawn_watcher_thread(a) ==
    /\ proc[a].main = "spawn"
    /\ smi_thread' = [smi_thread EXCEPT ![a].wat = "run"]
    /\ proc' = [proc EXCEPT ![a].main = "objects", ![a].initialized = TRUE]
    /\ UNCHANGED <<signalled, socket_file, raced, starts>>

\* create_gpus: fails without the library.
create_gpus(a) ==
    /\ proc[a].main = "objects"
    /\ proc' = [proc EXCEPT ![a].main = IF proc[a].smi_up THEN "bind" ELSE "failed"]
    /\ UNCHANGED <<signalled, smi_thread, socket_file, raced, starts>>

\* grpc_server_start: a UDS server replaces the file at its path.
grpc_server_start(a) ==
    /\ proc[a].main = "bind"
    /\ \/ /\ proc' = [proc EXCEPT ![a].main = "serve"]
          /\ socket_file' = IF proc[a].uds THEN a ELSE socket_file
          /\ raced' = IF proc[a].uds /\ Contenders \ {a} # {}
                      THEN raced \union Contenders ELSE raced
       \/ /\ proc' = [proc EXCEPT ![a].main = "failed"]
          /\ UNCHANGED <<socket_file, raced>>
    /\ UNCHANGED <<signalled, smi_thread, starts>>

-----------------------------------------------------------------------------
\* The timer of either thread fires: watch_timer_cb_ and event_monitor_timer_cb_
\* call the SMI library.  A stopped thread leaves its loop after the callback.
TimerCallback(a, th) ==
    /\ smi_thread[a][th] = "run"
    /\ smi_thread' = [smi_thread EXCEPT ![a][th] = "callback"]
    /\ UNCHANGED <<proc, signalled, socket_file, raced, starts>>

CallbackDone(a, th) ==
    /\ smi_thread[a][th] \in {"callback", "last callback"}
    /\ smi_thread' = [smi_thread EXCEPT ![a][th] = IF @ = "callback" THEN "run" ELSE "exit"]
    /\ UNCHANGED <<proc, signalled, socket_file, raced, starts>>

\* event_monitor_thread_exit_ (and event_monitor_cleanup), watcher_thread_exit_:
\* run by the thread when its loop has ended.
ThreadExit(a, th) ==
    /\ smi_thread[a][th] = "exit"
    /\ smi_thread' = [smi_thread EXCEPT ![a][th] = "gone"]
    /\ UNCHANGED <<proc, signalled, socket_file, raced, starts>>

-----------------------------------------------------------------------------
\* event_thread::stop: ends the loop, after the callback under way.
stop(a, th) ==
    smi_thread' = [smi_thread EXCEPT ![a][th] =
                     CASE @ = "run"      -> "exit"
                       [] @ = "callback" -> "last callback"
                       [] OTHER          -> @]

\* signal_wait_thread: a termination signal arrives.
Signal(a) ==
    /\ Alive(a)
    /\ signalled[a] = "wait"
    /\ signalled' = [signalled EXCEPT ![a] = "teardown"]
    /\ UNCHANGED <<proc, smi_thread, socket_file, raced, starts>>

\* Mutant of teardown: the library is shut down before the watcher is stopped.
teardownMutant(a) ==
    /\ signalled' = [signalled EXCEPT ![a] = "shutdown"]
    /\ UNCHANGED smi_thread

\* smi_state::teardown of amdsmi: stops the watcher and waits for it.
teardown(a) ==
    /\ stop(a, "wat")
    /\ signalled' = [signalled EXCEPT ![a] = "join wat"]

\* ... and of wslamdsmi: the event monitor first.
wsl_teardown(a) ==
    /\ stop(a, "mon")
    /\ signalled' = [signalled EXCEPT ![a] = "join mon"]

\* aga_api_teardown: nothing to do unless init came to its end.
aga_api_teardown(a) ==
    /\ signalled[a] = "teardown"
    /\ \/ /\ ~proc[a].initialized
          /\ signalled' = [signalled EXCEPT ![a] = "unlink"]
          /\ UNCHANGED smi_thread
       \/ /\ proc[a].initialized
          /\ \/ Backend[a] = "amdsmi" /\ teardown(a)
             \/ Backend[a] = "wslamdsmi" /\ wsl_teardown(a)
    /\ UNCHANGED <<proc, socket_file, raced, starts>>

\* event_thread_->wait(): joined; the WSL2 back end goes on to the watcher.
JoinMonitor(a) ==
    /\ signalled[a] = "join mon"
    /\ smi_thread[a].mon = "gone"
    /\ teardown(a)
    /\ UNCHANGED <<proc, socket_file, raced, starts>>

JoinWatcher(a) ==
    /\ signalled[a] = "join wat"
    /\ smi_thread[a].wat = "gone"
    /\ signalled' = [signalled EXCEPT ![a] = "shutdown"]
    /\ UNCHANGED <<proc, smi_thread, socket_file, raced, starts>>

\* amdsmi_shut_down.
ShutDown(a) ==
    /\ signalled[a] = "shutdown"
    /\ proc' = [proc EXCEPT ![a].smi_up = FALSE]
    /\ signalled' = [signalled EXCEPT ![a] = "unlink"]
    /\ UNCHANGED <<smi_thread, socket_file, raced, starts>>

\* clean_unix_socket, if the path was set: the file goes, whoever bound it.
CleanSocket(a) ==
    /\ signalled[a] = "unlink"
    /\ socket_file' = IF proc[a].g_socket_path THEN NoFile ELSE socket_file
    /\ signalled' = [signalled EXCEPT ![a] = "raise"]
    /\ UNCHANGED <<proc, smi_thread, raced, starts>>

\* The signal is raised again and ends the process; SIGKILL does so at any time.
Raise(a) == signalled[a] = "raise" /\ Die(a)
Kill(a)  == Alive(a) /\ Die(a)

LifeInit ==
    /\ proc = [a \in Agents |-> DeadProc]
    /\ signalled = [a \in Agents |-> "wait"]
    /\ smi_thread = [a \in Agents |-> [th \in Threads |-> "none"]]
    /\ socket_file = NoFile
    /\ raced = {}
    /\ starts = [a \in Agents |-> 0]

LifeNext ==
    \E a \in Agents :
      \/ Start(a) \/ Prepare(a) \/ unlink_stale(a) \/ ExitOne(a) \/ aga_api_init(a)
      \/ Backend[a] = "amdsmi" /\ smi_init(a)
      \/ Backend[a] = "wslamdsmi" /\ wsl_smi_init(a)
      \/ spawn_event_monitor_thread(a) \/ spawn_watcher_thread(a)
      \/ create_gpus(a) \/ grpc_server_start(a)
      \/ \E th \in Threads : TimerCallback(a, th) \/ CallbackDone(a, th) \/ ThreadExit(a, th)
      \/ Signal(a) \/ aga_api_teardown(a) \/ JoinMonitor(a) \/ JoinWatcher(a)
      \/ ShutDown(a) \/ CleanSocket(a) \/ Raise(a) \/ Kill(a)

LifeSpec == LifeInit /\ [][LifeNext]_lifeVars

-----------------------------------------------------------------------------
\* No timer callback runs, and no thread cleans up, in an SMI library that was
\* shut down (smi_state::teardown): for the watcher with both back ends, for the
\* event monitor with the WSL2 back end, which is the only one that stops it.
LibraryOutlivesCallbacks ==
    \A a \in Agents, th \in Threads :
        smi_thread[a][th] \in {"callback", "last callback", "exit"} /\ ~proc[a].smi_up =>
            th = "mon" /\ Backend[a] = "amdsmi"

\* An agent that serves on the Unix socket can be reached there, unless it and
\* another agent started while neither was listening yet, or a TCP agent was
\* started on the host (prepare_unix_socket, clean_unix_socket).  In particular
\* an agent that was refused, or is signalled while it starts, takes nobody's
\* socket with it, and a socket left by a crash does not keep the next one away.
ServesOnItsSocket ==
    \A a \in Agents :
        Listening(a) /\ proc[a].uds /\ signalled[a] # "raise" /\ a \notin raced =>
            socket_file = a
=============================================================================

