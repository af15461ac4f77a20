-------------------------------- MODULE Ipc ---------------------------------
(***************************************************************************)
(* Requests and replies between threads (lib/ipc).  One thread serves: its *)
(* event loop polls the ZMQ socket's descriptor and two eventfds.  The     *)
(* callers are threads with a synchronous service, which block for their   *)
(* reply (the gRPC threads of gpuagent), and event-loop threads with an    *)
(* asynchronous one.                                                       *)
(*                                                                         *)
(* ZMQ is external.  Its descriptor tells of arrivals only: it is readable *)
(* from an arrival until the next operation on the socket, whatever is     *)
(* still queued.                                                           *)
(***************************************************************************)
EXTENDS Naturals, Sequences, FiniteSets

CONSTANTS
    SyncCallers,    \* threads with an ipc_service_sync
    AsyncCallers,   \* threads with an ipc_service_async
    MaxSerial       \* bound: calls of each thread, of all its kinds

ASSUME IpcAssumption ==
    /\ SyncCallers \intersect AsyncCallers = {}
    /\ MaxSerial \in [SyncCallers \union AsyncCallers -> Nat]

VARIABLES
    call,        \* caller -> the calls it has made and what it waits for
    promise,     \* caller -> call -> what the caller was told
    to_server,   \* caller -> messages on their way to the server's socket
    to_caller,   \* caller -> replies on their way back
    server,      \* the serving thread
    caller_fd    \* async caller -> descriptor and eventfd of its client socket

ipcVars == <<call, promise, to_server, to_caller, server, caller_fd>>

Callers == SyncCallers \union AsyncCallers
Serials == UNION {1 .. MaxSerial[c] : c \in Callers}
Kinds   == {"blocked", "oneshot", "broadcast"}
Msgs    == [from: Callers, serial: Serials, kind: Kinds]

IpcTypeOK ==
    /\ call \in [Callers -> [serial: {0} \union Serials, blocked: BOOLEAN, timed: BOOLEAN,
                             contexts: SUBSET Serials, timers: SUBSET Serials, receiving: BOOLEAN]]
    /\ \A c \in Callers : call[c].timers \subseteq call[c].contexts   \* or timer_handler reads freed memory
    /\ promise \in [Callers -> [Serials -> {"none", "sent", "answered", "timed out", "wrong answer"}]]
    /\ to_server \in [Callers -> Seq(Msgs)]
    /\ to_caller \in [Callers -> Seq(Serials)]
    /\ server \in [pc: {"poll", "receive"}, fd: BOOLEAN, receive_eventfd: BOOLEAN,
                   eventfd: BOOLEAN, serializing: BOOLEAN, in_flight: BOOLEAN,
                   hold_queue: Seq(Msgs), handling: SUBSET Msgs, dropped: BOOLEAN]
    /\ caller_fd \in [AsyncCallers -> [fd: BOOLEAN, eventfd: BOOLEAN]]

\* A caller that is not inside an IPC call.
Free(c) == ~call[c].blocked /\ ~call[c].receiving

-----------------------------------------------------------------------------
\* send_msg of a client socket: a message is queued at the server.
send_msg(c, kind) ==
    /\ to_server' = [to_server EXCEPT ![c] =
                       Append(@, [from |-> c, serial |-> call[c].serial + 1, kind |-> kind])]
    /\ server' = [server EXCEPT !.fd = TRUE]

\* blocked_request and zmq_ipc_client_sync::send_recv: sent, then blocked.
SendRecv(c, timed) ==
    /\ Free(c) /\ call[c].serial < MaxSerial[c]
    /\ send_msg(c, "blocked")
    /\ call' = [call EXCEPT ![c].serial = @ + 1, ![c].blocked = TRUE, ![c].timed = timed]
    /\ promise' = [promise EXCEPT ![c][call[c].serial + 1] = "sent"]
    /\ UNCHANGED <<to_caller, caller_fd>>

\* The call returns with the first reply on the socket.
BlockedReply(c) ==
    /\ call[c].blocked
    /\ to_caller[c] # <<>>
    /\ LET reply == Head(to_caller[c])
           mine  == call[c].serial
       IN  /\ promise' = [promise EXCEPT ![c][mine] =
                            IF reply = mine THEN "answered" ELSE "wrong answer"]
    /\ call' = [call EXCEPT ![c].blocked = FALSE]
    /\ to_caller' = [to_caller EXCEPT ![c] = Tail(@)]
    /\ UNCHANGED <<to_server, server>>

\* An async service then asks itself to check the socket it just read.
BlockedReplySync(c) ==
    /\ c \in SyncCallers
    /\ BlockedReply(c)
    /\ UNCHANGED caller_fd
BlockedReplyAsync(c) ==
    /\ c \in AsyncCallers
    /\ BlockedReply(c)
    /\ caller_fd' = [caller_fd EXCEPT ![c] = [fd |-> FALSE, eventfd |-> TRUE]]

\* ZMQ_RCVTIMEO expires: the caller gets a null message; the reply may still come.
BlockedTimeout(c) ==
    /\ call[c].blocked /\ call[c].timed
    /\ to_caller[c] = <<>>
    /\ promise' = [promise EXCEPT ![c][call[c].serial] = "timed out"]
    /\ call' = [call EXCEPT ![c].blocked = FALSE]
    /\ caller_fd' = [x \in AsyncCallers |-> IF x = c THEN [fd |-> FALSE, eventfd |-> TRUE]
                                                      ELSE caller_fd[x]]
    /\ UNCHANGED <<to_server, to_caller, server>>

\* ipc_service_async::request: a context, a timer if asked for, the message, and
\* a check of the socket, whose descriptor the send may have silenced.
AsyncRequest(c, timed) ==
    /\ c \in AsyncCallers
    /\ Free(c) /\ call[c].serial < MaxSerial[c]
    /\ send_msg(c, "oneshot")
    /\ LET s == call[c].serial + 1 IN
         call' = [call EXCEPT ![c].serial = s, ![c].contexts = @ \union {s},
                              ![c].timers = IF timed THEN @ \union {s} ELSE @]
    /\ promise' = [promise EXCEPT ![c][call[c].serial + 1] = "sent"]
    /\ caller_fd' = [caller_fd EXCEPT ![c] = [fd |-> FALSE, eventfd |-> TRUE]]
    /\ UNCHANGED to_caller

\* broadcast: to the subscriber; nobody waits for it.  The send may silence the
\* descriptor, so an async service goes on into client_receive at once; a sync
\* one has nothing to receive.
Broadcast(c) ==
    /\ Free(c) /\ call[c].serial < MaxSerial[c]
    /\ send_msg(c, "broadcast")
    /\ call' = [call EXCEPT ![c].serial = @ + 1, ![c].receiving = c \in AsyncCallers]
    /\ caller_fd' = [x \in AsyncCallers |-> IF x = c THEN [fd |-> FALSE, eventfd |-> FALSE]
                                                      ELSE caller_fd[x]]
    /\ UNCHANGED <<promise, to_caller>>

-----------------------------------------------------------------------------
\* The loop of an async caller calls client_receive.
ClientReceive(c) ==
    /\ Free(c)
    /\ caller_fd[c].fd \/ caller_fd[c].eventfd
    /\ call' = [call EXCEPT ![c].receiving = TRUE]
    /\ caller_fd' = [caller_fd EXCEPT ![c].eventfd = FALSE]
    /\ UNCHANGED <<promise, to_server, to_caller, server>>

\* Mutant of ClientReply: the context stays after the callback.
ClientReplyMutant(c) ==
    /\ call[c].receiving
    /\ to_caller[c] # <<>>
    /\ to_caller' = [to_caller EXCEPT ![c] = Tail(@)]
    /\ caller_fd' = [caller_fd EXCEPT ![c].fd = FALSE]
    /\ LET reply == Head(to_caller[c]) IN
         /\ promise' = IF reply \in call[c].contexts
                       THEN [promise EXCEPT ![c][reply] = "answered"] ELSE promise
    /\ UNCHANGED <<call, to_server, server>>

\* Mutant of ClientReply: the timer is not deleted with the context.
ClientReplyTimer(c) ==
    /\ call[c].receiving
    /\ to_caller[c] # <<>>
    /\ to_caller' = [to_caller EXCEPT ![c] = Tail(@)]
    /\ caller_fd' = [caller_fd EXCEPT ![c].fd = FALSE]
    /\ LET reply == Head(to_caller[c]) IN
         /\ promise' = IF reply \in call[c].contexts
                       THEN [promise EXCEPT ![c][reply] = "answered"] ELSE promise
         /\ call' = [call EXCEPT ![c].contexts = @ \ {reply}]
    /\ UNCHANGED <<to_server, server>>

\* One reply: its context goes and the callback runs; without a context it is
\* ignored.
ClientReply(c) ==
    /\ call[c].receiving
    /\ to_caller[c] # <<>>
    /\ to_caller' = [to_caller EXCEPT ![c] = Tail(@)]
    /\ caller_fd' = [caller_fd EXCEPT ![c].fd = FALSE]
    /\ LET reply == Head(to_caller[c]) IN
         /\ promise' = IF reply \in call[c].contexts
                       THEN [promise EXCEPT ![c][reply] = "answered"] ELSE promise
         /\ call' = [call EXCEPT ![c].contexts = @ \ {reply}, ![c].timers = @ \ {reply}]
    /\ UNCHANGED <<to_server, server>>

\* No reply is pending: back to the loop.
ClientReceived(c) ==
    /\ call[c].receiving
    /\ to_caller[c] = <<>>
    /\ call' = [call EXCEPT ![c].receiving = FALSE]
    /\ caller_fd' = [caller_fd EXCEPT ![c].fd = FALSE]
    /\ UNCHANGED <<promise, to_server, to_caller, server>>

\* timer_expired: the callback runs with a null message, if the context is there.
timer_expired(c, s) ==
    /\ c \in AsyncCallers
    /\ Free(c)
    /\ s \in call[c].timers \intersect call[c].contexts
    /\ promise' = [promise EXCEPT ![c][s] = "timed out"]
    /\ call' = [call EXCEPT ![c].contexts = @ \ {s}, ![c].timers = @ \ {s}]
    /\ UNCHANGED <<to_server, to_caller, server, caller_fd>>

-----------------------------------------------------------------------------
\* Mutant of Respond: the receive socket is not checked again.
RespondMutant(srv, m) ==
    /\ server' = [srv EXCEPT !.fd = FALSE, !.in_flight = FALSE,
                             !.handling = @ \ {m},
                             !.eventfd = @ \/ srv.hold_queue # <<>>]
    /\ to_caller' = [to_caller EXCEPT ![m.from] = Append(@, m.serial)]
    /\ caller_fd' = [x \in AsyncCallers |-> IF x = m.from THEN [caller_fd[x] EXCEPT !.fd = TRUE]
                                                           ELSE caller_fd[x]]

\* Mutant of Respond: the message is not done with, and is answered again.
RespondTwice(srv, m) ==
    /\ server' = [srv EXCEPT !.fd = FALSE, !.receive_eventfd = TRUE, !.in_flight = FALSE,
                             !.eventfd = @ \/ srv.hold_queue # <<>>]
    /\ to_caller' = [to_caller EXCEPT ![m.from] = Append(@, m.serial)]
    /\ caller_fd' = [x \in AsyncCallers |-> IF x = m.from THEN [caller_fd[x] EXCEPT !.fd = TRUE]
                                                           ELSE caller_fd[x]]

\* respond: the reply goes out, the receive socket is to be checked, and a held
\* message is due (deserialize_).
Respond(srv, m) ==
    /\ server' = [srv EXCEPT !.fd = FALSE, !.receive_eventfd = TRUE, !.in_flight = FALSE,
                             !.handling = @ \ {m},
                             !.eventfd = @ \/ srv.hold_queue # <<>>]
    /\ to_caller' = [to_caller EXCEPT ![m.from] = Append(@, m.serial)]
    /\ caller_fd' = [x \in AsyncCallers |-> IF x = m.from THEN [caller_fd[x] EXCEPT !.fd = TRUE]
                                                           ELSE caller_fd[x]]

\* broadcast_handled: as respond, without a reply.
BroadcastHandled(srv, m) ==
    /\ server' = [srv EXCEPT !.in_flight = FALSE, !.handling = @ \ {m},
                             !.eventfd = @ \/ srv.hold_queue # <<>>]
    /\ UNCHANGED <<to_caller, caller_fd>>

Finish(srv, m) == IF m.kind = "broadcast" THEN BroadcastHandled(srv, m) ELSE Respond(srv, m)

\* deliver_: the handler finishes with the message at once or keeps it for later;
\* or nobody handles it, for want of a subscription ("a race condition during
\* recovery") or of a callback, and nobody looks at the messages held behind it.
deliver(srv, m) ==
    LET delivered == [srv EXCEPT !.in_flight = TRUE, !.handling = @ \union {m}] IN
    \/ Finish(delivered, m)
    \/ /\ server' = delivered
       /\ UNCHANGED <<to_caller, caller_fd>>
    \/ /\ server' = [srv EXCEPT !.dropped = srv.hold_queue # <<>>]
       /\ UNCHANGED <<to_caller, caller_fd>>

\* should_serialize_
should_serialize(srv) == srv.serializing /\ (srv.in_flight \/ srv.hold_queue # <<>>)

\* server_receive: both descriptors lead here; the eventfd is read empty.
ServerReceive ==
    /\ server.pc = "poll"
    /\ server.fd \/ server.receive_eventfd
    /\ server' = [server EXCEPT !.pc = "receive", !.receive_eventfd = FALSE]
    /\ UNCHANGED <<call, promise, to_server, to_caller, caller_fd>>

\* ... one message, held back or delivered.
ServerMessage(c) ==
    /\ server.pc = "receive"
    /\ to_server[c] # <<>>
    /\ to_server' = [to_server EXCEPT ![c] = Tail(@)]
    /\ LET m   == Head(to_server[c])
           srv == [server EXCEPT !.fd = FALSE]
       IN  \/ /\ should_serialize(srv)
              /\ server' = [srv EXCEPT !.hold_queue = Append(@, m)]
              /\ UNCHANGED <<to_caller, caller_fd>>
           \/ /\ ~should_serialize(srv)
              /\ deliver(srv, m)
    /\ UNCHANGED <<call, promise>>

\* ... and none left.
ServerReceived ==
    /\ server.pc = "receive"
    /\ \A c \in Callers : to_server[c] = <<>>
    /\ server' = [server EXCEPT !.pc = "poll", !.fd = FALSE]
    /\ UNCHANGED <<call, promise, to_server, to_caller, caller_fd>>

\* eventfd_receive: one held message is delivered.
eventfd_receive ==
    /\ server.pc = "poll"
    /\ server.eventfd
    /\ server.hold_queue # <<>>   \* it returns otherwise; the eventfd is not written then
    /\ deliver([server EXCEPT !.eventfd = FALSE, !.hold_queue = Tail(@)], Head(server.hold_queue))
    /\ UNCHANGED <<call, promise, to_server>>

\* The handler's thread finishes with a message it kept.
FinishLater(m) ==
    /\ server.pc = "poll"
    /\ m \in server.handling
    /\ Finish(server, m)
    /\ UNCHANGED <<call, promise, to_server>>

IpcInit ==
    /\ call = [c \in Callers |-> [serial |-> 0, blocked |-> FALSE, timed |-> FALSE, contexts |-> {},
                                  timers |-> {}, receiving |-> FALSE]]
    /\ promise = [c \in Callers |-> [s \in Serials |-> "none"]]
    /\ to_server = [c \in Callers |-> <<>>]
    /\ to_caller = [c \in Callers |-> <<>>]
    /\ \E serializing \in BOOLEAN :   \* set_drip_feeding
         server = [pc |-> "poll", fd |-> FALSE, receive_eventfd |-> TRUE, eventfd |-> FALSE,
                   serializing |-> serializing, in_flight |-> FALSE, hold_queue |-> <<>>,
                   handling |-> {}, dropped |-> FALSE]
    /\ caller_fd = [c \in AsyncCallers |-> [fd |-> FALSE, eventfd |-> FALSE]]

IpcNext ==
    \/ \E c \in Callers, timed \in BOOLEAN : SendRecv(c, timed) \/ AsyncRequest(c, timed)
    \/ \E c \in Callers : \/ BlockedReplySync(c) \/ BlockedReplyAsync(c) \/ BlockedTimeout(c)
                          \/ Broadcast(c) \/ ServerMessage(c)
    \/ \E c \in AsyncCallers : ClientReceive(c) \/ ClientReply(c) \/ ClientReceived(c)
    \/ \E c \in Callers, s \in Serials : timer_expired(c, s)
    \/ ServerReceive \/ ServerReceived \/ eventfd_receive
    \/ \E m \in server.handling : FinishLater(m)

IpcSpec == IpcInit /\ [][IpcNext]_ipcVars

-----------------------------------------------------------------------------
\* No message is stranded in a socket while its owner sleeps in its event loop:
\* the descriptor or an eventfd will wake it.  This is what the eventfd writes of
\* respond, request and blocked_request are for ("zmq requires us to check for
\* incoming messages every time we perform an action on the zmq_socket").
NothingStranded ==
    /\ server.pc = "poll" /\ (\E c \in Callers : to_server[c] # <<>>) =>
         server.fd \/ server.receive_eventfd
    /\ \A c \in AsyncCallers : Free(c) /\ to_caller[c] # <<>> =>
         caller_fd[c].fd \/ caller_fd[c].eventfd

\* A held message is waiting for the one in flight, or about to be delivered, and
\* with drip feeding at most one message is in the handlers' hands.  The one
\* exception is what deliver_broadcast_ and deliver_direct_ do with a held
\* message that nobody handles: they leave those behind it where they are, with
\* nothing in flight and nothing written to the eventfd, and every later message
\* joins them.
HeldIsDelivered ==
    /\ server.hold_queue # <<>> => server.in_flight \/ server.eventfd \/ server.dropped
    /\ server.serializing => Cardinality(server.handling) <= 1

\* A blocked call is answered with its own reply, unless the thread had another
\* call on the socket whose reply it had not read: one that timed out, or one
\* made with request.  gpuagent's threads wait without a timeout.
OwnReply ==
    \A c \in Callers, s \in Serials : promise[c][s] = "wrong answer" =>
        \E t \in 1 .. s - 1 : promise[c][t] \in {"sent", "timed out", "wrong answer"}
                               \/ t \in call[c].contexts

-----------------------------------------------------------------------------
Promised == INSTANCE Requests WITH Callers <- Callers, Serials <- Serials, promise <- promise

\* Whatever replies, timers and time-outs cross each other (client_receive,
\* timer_expired, send_recv), a caller is told once how each of its requests ended.
IpcPromise == Promised!Spec

\* Every message a server has, in its socket or held back, has something that
\* will bring it to a handler (receive, hold_queue_ of ipc.cc).
NothingForgotten == NothingStranded /\ HeldIsDelivered
=============================================================================
