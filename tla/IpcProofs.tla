----------------------------- MODULE IpcProofs ------------------------------
(***************************************************************************)
(* What the calls between threads promise, for any number of callers and   *)
(* of requests: Ipc implements Requests, a caller is told what became of   *)
(* a request once, and no wake-up of the server is lost.                   *)
(*                                                                         *)
(* The sockets alone do not say it.  A request is in one place: in the     *)
(* server's socket, held back, or in a handler's hands, and its reply is   *)
(* not under way at the same time (IpcPlaces, IpcUnread).  And who was     *)
(* given a wrong answer has left the answer to an earlier request unread   *)
(* for good: nothing of that request is left on its way, and the caller    *)
(* does not wait for it (Past).  That is why what a caller takes for the   *)
(* answer to a request is one answer, though maybe not its own.            *)
(***************************************************************************)
EXTENDS Ipc, SequenceTheorems, FiniteSetTheorems, TLAPS

\* What is in a sequence, and whether it is there once.
In(q)     == {q[i] : i \in 1 .. Len(q)}
Once(q)   == \A i, j \in 1 .. Len(q) : q[i] = q[j] => i = j

\* The requests the server has: in its socket, held back, in its handlers' hands.
InSocket  == UNION {In(to_server[c]) : c \in Callers}
Present   == InSocket \union In(server.hold_queue) \union server.handling

\* Where a request is, it is once.
IpcPlaces ==
    /\ \A c \in Callers : /\ \A m \in In(to_server[c]) : m.from = c
                          /\ Once(to_server[c]) /\ Once(to_caller[c])
    /\ Once(server.hold_queue)
    /\ InSocket \intersect In(server.hold_queue) = {}
    /\ InSocket \intersect server.handling = {}
    /\ In(server.hold_queue) \intersect server.handling = {}

\* What the callers wait for.
AwaitedAt(c, r, told) ==
    /\ r.serial \in 0 .. MaxSerial[c]
    /\ \A s \in Serials : s > r.serial => told[s] = "none"
    /\ r.blocked => r.serial \in Serials /\ r.serial \notin r.contexts /\ told[r.serial] = "sent"
    /\ \A s \in r.contexts : s <= r.serial /\ told[s] = "sent"
    /\ r.timers \subseteq r.contexts

IpcAwaited == \A c \in Callers : AwaitedAt(c, call[c], promise[c])

\* A request that was made and has not been answered.
Unread(c, s) == promise[c][s] \in {"sent", "timed out", "wrong answer"}
\* ... and of which nothing is left on its way.
Past(c, s)   == /\ Unread(c, s)
                /\ s \notin In(to_caller[c])
                /\ \A m \in Present : ~(m.from = c /\ m.serial = s)

\* A request and its reply are not both on their way; what is on its way was
\* made and not answered; a wrong answer has left an answer unread for good.
IpcUnread ==
    /\ \A m, n \in Present : m.from = n.from /\ m.serial = n.serial => m = n
    /\ \A m \in Present : /\ m.serial \notin In(to_caller[m.from])
                          /\ m.serial <= call[m.from].serial
                          /\ m.kind # "broadcast" => Unread(m.from, m.serial)
    /\ \A c \in Callers : \A s \in In(to_caller[c]) : s <= call[c].serial /\ Unread(c, s)
    /\ \A c \in Callers, s \in Serials : promise[c][s] = "wrong answer" =>
         \E t \in Serials : t < s /\ Past(c, t)

\* What is held back waits for the message in flight, or was passed over when
\* nobody handled the one before it.
IpcHeld ==
    /\ server.hold_queue # <<>> => server.in_flight \/ server.eventfd \/ server.dropped
    /\ ~server.serializing => server.hold_queue = <<>>
    /\ server.eventfd => ~server.in_flight /\ server.hold_queue # <<>>
    /\ server.serializing =>
         \/ ~server.in_flight /\ server.handling = {}
         \/ server.in_flight /\ \E m \in Msgs : server.handling = {m}

CallRecords == [serial: {0} \union Serials, blocked: BOOLEAN, timed: BOOLEAN,
                contexts: SUBSET Serials, timers: SUBSET Serials, receiving: BOOLEAN]
CallerEnds  == {"none", "sent", "answered", "timed out", "wrong answer"}
Servers     == [pc: {"poll", "receive"}, fd: BOOLEAN, receive_eventfd: BOOLEAN,
                eventfd: BOOLEAN, serializing: BOOLEAN, in_flight: BOOLEAN,
                hold_queue: Seq(Msgs), handling: SUBSET Msgs, dropped: BOOLEAN]

IpcTyped ==
    /\ call \in [Callers -> CallRecords]
    /\ promise \in [Callers -> [Serials -> CallerEnds]]
    /\ to_server \in [Callers -> Seq(Msgs)]
    /\ to_caller \in [Callers -> Seq(Serials)]
    /\ server \in Servers
    /\ caller_fd \in [AsyncCallers -> [fd: BOOLEAN, eventfd: BOOLEAN]]

-----------------------------------------------------------------------------
LEMMA SerialsAreNumbers == Serials \subseteq Nat /\ \A c \in Callers : 1 .. MaxSerial[c] \subseteq Serials
BY IpcAssumption DEF Serials, Callers

LEMMA EarlierSerials == \A x, y \in Serials : x < y => x \in 1 .. y - 1
<1>1. \A x, y \in Nat : 1 <= x /\ x < y => x \in 1 .. y - 1
  OBVIOUS
<1>2. ASSUME NEW x \in Serials PROVE x \in Nat /\ 1 <= x
  <2>1. PICK d \in Callers : x \in 1 .. MaxSerial[d]
    BY DEF Serials
  <2>2. MaxSerial[d] \in Nat
    BY IpcAssumption DEF Callers
  <2> QED
    BY <2>1, <2>2
<1> QED
  BY <1>1, <1>2

LEMMA Below == \A x, y \in Nat : x <= y /\ x # y => x < y
OBVIOUS

LEMMA InSeq ==
  ASSUME NEW S, NEW q \in Seq(S)
  PROVE  In(q) \subseteq S
BY LenProperties, ElementOfSeq DEF In

\* A sequence with an element more, or with one less.
LEMMA OneMore ==
  ASSUME NEW S, NEW q \in Seq(S), NEW x \in S
  PROVE  /\ Append(q, x) \in Seq(S) /\ Append(q, x) # <<>>
         /\ In(Append(q, x)) = In(q) \union {x}
         /\ Once(q) /\ x \notin In(q) => Once(Append(q, x))
<1>1. /\ Append(q, x) \in Seq(S) /\ Len(Append(q, x)) = Len(q) + 1 /\ Len(q) \in Nat
      /\ \A i \in 1 .. Len(q) : Append(q, x)[i] = q[i]
      /\ Append(q, x)[Len(q) + 1] = x
  BY AppendProperties, LenProperties
<1>2. Append(q, x) # <<>>
  BY <1>1
<1>3. In(Append(q, x)) = In(q) \union {x}
  <2>1. ASSUME NEW y \in In(Append(q, x)) PROVE y \in In(q) \union {x}
    <3>1. PICK i \in 1 .. Len(q) + 1 : y = Append(q, x)[i]
      BY <1>1, <2>1 DEF In
    <3> QED
      BY <1>1, <3>1 DEF In
  <2>2. ASSUME NEW y \in In(q) \union {x} PROVE y \in In(Append(q, x))
    BY <1>1, <2>2 DEF In
  <2> QED
    BY <2>1, <2>2
<1>4. ASSUME Once(q), x \notin In(q), NEW i \in 1 .. Len(q) + 1, NEW j \in 1 .. Len(q) + 1,
             Append(q, x)[i] = Append(q, x)[j]
      PROVE  i = j
  BY <1>1, <1>4 DEF In, Once
<1> QED
  BY <1>1, <1>2, <1>3, <1>4 DEF Once

LEMMA OneLess ==
  ASSUME NEW S, NEW q \in Seq(S), q # <<>>
  PROVE  /\ Tail(q) \in Seq(S) /\ Head(q) \in S
         /\ In(q) = In(Tail(q)) \union {Head(q)}
         /\ Once(q) => Once(Tail(q)) /\ Head(q) \notin In(Tail(q))
<1>1. /\ Tail(q) \in Seq(S) /\ Head(q) \in S /\ Head(q) = q[1]
      /\ Len(q) \in Nat /\ Len(q) > 0 /\ Len(Tail(q)) = Len(q) - 1
      /\ \A i \in 1 .. Len(Tail(q)) : Tail(q)[i] = q[i + 1]
  BY HeadTailProperties, LenProperties, EmptySeq
<1>2. In(q) = In(Tail(q)) \union {Head(q)}
  <2>1. ASSUME NEW y \in In(q) PROVE y \in In(Tail(q)) \union {Head(q)}
    <3>1. PICK i \in 1 .. Len(q) : y = q[i]
      BY <2>1 DEF In
    <3>2. CASE i = 1
      BY <1>1, <3>1, <3>2
    <3>3. CASE i # 1
      <4>1. i - 1 \in 1 .. Len(Tail(q)) /\ Tail(q)[i - 1] = q[i]
        BY <1>1, <3>1, <3>3
      <4> QED
        BY <3>1, <4>1 DEF In
    <3> QED
      BY <3>2, <3>3
  <2>2. ASSUME NEW y \in In(Tail(q)) \union {Head(q)} PROVE y \in In(q)
    BY <1>1, <2>2 DEF In
  <2> QED
    BY <2>1, <2>2
<1>3. ASSUME Once(q) PROVE Once(Tail(q)) /\ Head(q) \notin In(Tail(q))
  BY <1>1, <1>3 DEF Once, In
<1> QED
  BY <1>1, <1>2, <1>3

\* A caller's step changes what it waits for and what it was told.
LEMMA CallerStep ==
  ASSUME IpcTyped, IpcAwaited, NEW c \in Callers, NEW r \in CallRecords,
         NEW told \in [Serials -> CallerEnds], AwaitedAt(c, r, told),
         call' = [call EXCEPT ![c] = r], promise' = [promise EXCEPT ![c] = told]
  PROVE  /\ call' \in [Callers -> CallRecords] /\ promise' \in [Callers -> [Serials -> CallerEnds]]
         /\ IpcAwaited'
         /\ \A d \in Callers : d # c => call'[d] = call[d] /\ promise'[d] = promise[d]
         /\ call'[c] = r /\ promise'[c] = told
<1>1. /\ call' \in [Callers -> CallRecords] /\ promise' \in [Callers -> [Serials -> CallerEnds]]
      /\ \A d \in Callers : d # c => call'[d] = call[d] /\ promise'[d] = promise[d]
      /\ call'[c] = r /\ promise'[c] = told
  BY DEF IpcTyped
<1>2. ASSUME NEW d \in Callers PROVE AwaitedAt(d, call'[d], promise'[d])
  <2>1. CASE d = c
    BY <1>1, <2>1
  <2>2. CASE d # c
    BY <1>1, <2>2 DEF IpcAwaited
  <2> QED
    BY <2>1, <2>2
<1> QED
  BY <1>1, <1>2 DEF IpcAwaited

-----------------------------------------------------------------------------
IpcControl == IpcTyped /\ IpcAwaited /\ NothingStranded /\ IpcHeld

\* A message more in the server's socket.
LEMMA SendControls ==
  ASSUME IpcControl, NEW c \in Callers, NEW kind \in Kinds, call[c].serial < MaxSerial[c],
         send_msg(c, kind)
  PROVE  /\ call[c].serial + 1 \in Serials
         /\ [from |-> c, serial |-> call[c].serial + 1, kind |-> kind] \in Msgs
         /\ to_server' \in [Callers -> Seq(Msgs)] /\ server' \in Servers
         /\ server'.fd /\ IpcHeld'
<1>1. /\ call[c].serial \in Nat /\ MaxSerial[c] \in Nat
      /\ 1 .. MaxSerial[c] \subseteq Serials
  BY IpcAssumption, SerialsAreNumbers DEF IpcControl, IpcAwaited, AwaitedAt, Callers
<1>2. call[c].serial + 1 \in Serials
  BY <1>1
<1>3. [from |-> c, serial |-> call[c].serial + 1, kind |-> kind] \in Msgs
  BY <1>2 DEF Msgs
<1>4. to_server' \in [Callers -> Seq(Msgs)]
  BY <1>3, OneMore DEF IpcControl, IpcTyped, send_msg
<1>5. /\ server' \in Servers /\ server'.fd
      /\ server'.hold_queue = server.hold_queue /\ server'.in_flight = server.in_flight
      /\ server'.eventfd = server.eventfd /\ server'.serializing = server.serializing
      /\ server'.handling = server.handling /\ server'.dropped = server.dropped
  BY DEF IpcControl, IpcTyped, send_msg, Servers
<1>6. IpcHeld'
  BY <1>5 DEF IpcControl, IpcHeld
<1> QED
  BY <1>2, <1>3, <1>4, <1>5, <1>6

\* A request goes out: blocked_request, request, broadcast.
LEMMA SendStep ==
  ASSUME IpcControl, NEW c \in Callers, NEW timed \in BOOLEAN,
         SendRecv(c, timed) \/ AsyncRequest(c, timed) \/ Broadcast(c)
  PROVE  IpcControl' /\ (Promised!Next \/ promise' = promise)
<1>1. IpcTyped /\ IpcAwaited /\ NothingStranded
  BY DEF IpcControl
<1>2. Free(c) /\ call[c].serial < MaxSerial[c] /\ to_caller' = to_caller
  BY DEF SendRecv, AsyncRequest, Broadcast
<1>3. PICK n : n = call[c].serial + 1
  OBVIOUS
<1>4. PICK kind \in Kinds : send_msg(c, kind)
  BY DEF SendRecv, AsyncRequest, Broadcast, Kinds
<1>5. /\ n \in Serials /\ to_server' \in [Callers -> Seq(Msgs)] /\ server' \in Servers
      /\ server'.fd /\ IpcHeld'
  BY <1>2, <1>3, <1>4, SendControls
<1>6. /\ call[c] \in CallRecords /\ AwaitedAt(c, call[c], promise[c])
      /\ promise[c] \in [Serials -> CallerEnds] /\ n \in 1 .. MaxSerial[c] /\ Serials \subseteq Nat
      /\ call[c].serial \in Nat /\ n > call[c].serial
  BY <1>1, <1>2, <1>3, IpcAssumption, SerialsAreNumbers DEF IpcTyped, IpcAwaited, AwaitedAt, Callers
<1>7. promise[c][n] = "none"
  BY <1>5, <1>6 DEF AwaitedAt
<1> DEFINE Made(r, told) ==
      /\ r.serial = n /\ r.timers \subseteq r.contexts
      /\ \/ /\ r.blocked /\ r.contexts = call[c].contexts
            /\ told = [promise[c] EXCEPT ![n] = "sent"]
         \/ /\ ~r.blocked /\ r.contexts = call[c].contexts \union {n}
            /\ told = [promise[c] EXCEPT ![n] = "sent"]
         \/ /\ ~r.blocked /\ r.contexts = call[c].contexts
            /\ told = promise[c]
<1>8. \E r \in CallRecords, told \in [Serials -> CallerEnds] :
        /\ call' = [call EXCEPT ![c] = r] /\ promise' = [promise EXCEPT ![c] = told]
        /\ Made(r, told)
  <2>1. CASE SendRecv(c, timed)
    <3> DEFINE r    == [call[c] EXCEPT !.serial = n, !.blocked = TRUE, !.timed = timed]
               told == [promise[c] EXCEPT ![n] = "sent"]
    <3>1. r \in CallRecords /\ told \in [Serials -> CallerEnds]
      BY <1>5, <1>6 DEF CallRecords, CallerEnds
    <3>2. call' = [call EXCEPT ![c] = r] /\ promise' = [promise EXCEPT ![c] = told]
      BY <1>1, <1>3, <1>6, <2>1 DEF SendRecv, IpcTyped, CallRecords
    <3>3. r.serial = n /\ r.blocked /\ r.timers = call[c].timers /\ r.contexts = call[c].contexts
      BY <1>6 DEF CallRecords
    <3>4. Made(r, told)
      BY <1>6, <3>3 DEF AwaitedAt
    <3> QED
      BY <3>1, <3>2, <3>4
  <2>2. CASE AsyncRequest(c, timed)
    <3> DEFINE r    == [call[c] EXCEPT !.serial = n, !.contexts = @ \union {n},
                                       !.timers = IF timed THEN @ \union {n} ELSE @]
               told == [promise[c] EXCEPT ![n] = "sent"]
    <3>1. r \in CallRecords /\ told \in [Serials -> CallerEnds]
      BY <1>5, <1>6 DEF CallRecords, CallerEnds
    <3>2. call' = [call EXCEPT ![c] = r] /\ promise' = [promise EXCEPT ![c] = told]
      BY <1>1, <1>3, <1>6, <2>2 DEF AsyncRequest, IpcTyped, CallRecords
    <3>3. r.serial = n /\ ~r.blocked /\ r.timers \subseteq call[c].timers \union {n}
          /\ r.contexts = call[c].contexts \union {n}
      BY <1>2, <1>6 DEF CallRecords, Free
    <3>4. call[c].timers \subseteq call[c].contexts
      BY <1>6 DEF AwaitedAt
    <3>5. Made(r, told)
      BY <3>3, <3>4
    <3> QED
      BY <3>1, <3>2, <3>5
  <2>3. CASE Broadcast(c)
    <3>1. PICK async \in BOOLEAN : async <=> c \in AsyncCallers
      OBVIOUS
    <3> DEFINE r == [call[c] EXCEPT !.serial = n, !.receiving = async]
    <3>2. /\ r \in CallRecords
          /\ r.serial = n /\ ~r.blocked /\ r.timers = call[c].timers /\ r.contexts = call[c].contexts
      BY <1>2, <1>5, <1>6 DEF CallRecords, Free
    <3>3. /\ call' = [call EXCEPT ![c].serial = n, ![c].receiving = async]
          /\ promise' = promise
      <4>1. /\ call' = [call EXCEPT ![c].serial = @ + 1, ![c].receiving = c \in AsyncCallers]
            /\ promise' = promise
        BY <2>3 DEF Broadcast
      <4>2. (c \in AsyncCallers) = async
        BY <3>1
      <4> QED
        BY <1>1, <1>3, <4>1, <4>2 DEF IpcTyped, CallRecords
    <3>5. call' = [call EXCEPT ![c] = r] /\ promise' = [promise EXCEPT ![c] = promise[c]]
      BY <1>1, <1>6, <3>3 DEF IpcTyped, CallRecords
    <3>4. Made(r, promise[c])
      BY <1>6, <3>2 DEF AwaitedAt
    <3> QED
      BY <1>6, <3>2, <3>4, <3>5
  <2> QED
    BY <2>1, <2>2, <2>3
<1>9. PICK r \in CallRecords, told \in [Serials -> CallerEnds] :
        /\ call' = [call EXCEPT ![c] = r] /\ promise' = [promise EXCEPT ![c] = told]
        /\ Made(r, told)
  BY <1>8
<1>10. AwaitedAt(c, r, told)
  <2>1. /\ r.serial \in 0 .. MaxSerial[c] /\ r.timers \subseteq r.contexts
        /\ r.contexts \subseteq Serials
    BY <1>6, <1>9 DEF CallRecords
  <2>2. n \notin call[c].contexts
    BY <1>6 DEF AwaitedAt
  <2>3. ASSUME NEW s \in Serials, s > n PROVE told[s] = "none"
    BY <1>5, <1>6, <1>9, <2>3 DEF AwaitedAt
  <2>4. r.blocked => n \notin r.contexts /\ told[n] = "sent"
    BY <1>5, <1>6, <1>9, <2>2
  <2>5. ASSUME NEW s \in r.contexts PROVE s <= n /\ told[s] = "sent"
    <3>1. s \in Nat /\ n \in Nat
      <4>1. s \in Serials /\ n \in Serials
        BY <1>5, <2>1, <2>5
      <4> QED
        BY <1>6, <4>1
    <3>2. CASE s = n
      <4>1. told = [promise[c] EXCEPT ![n] = "sent"]
        BY <1>9, <2>2, <2>5, <3>2
      <4>2. told[n] = "sent"
        BY <1>5, <1>6, <4>1
      <4> QED
        BY <3>1, <3>2, <4>2
    <3>3. CASE s # n
      <4>1. s \in call[c].contexts /\ told[s] = promise[c][s]
        <5>1. s \in call[c].contexts
          BY <1>9, <2>5, <3>3
        <5>2. s \in Serials
          BY <2>1, <2>5
        <5> QED
          BY <1>6, <1>9, <3>3, <5>1, <5>2
      <4>2. s <= call[c].serial /\ promise[c][s] = "sent"
        BY <1>6, <4>1 DEF AwaitedAt
      <4> QED
        BY <1>6, <3>1, <4>1, <4>2
    <3> QED
      BY <3>2, <3>3
  <2> QED
    BY <1>5, <1>9, <2>1, <2>3, <2>4, <2>5 DEF AwaitedAt
<1>11. /\ call' \in [Callers -> CallRecords] /\ promise' \in [Callers -> [Serials -> CallerEnds]]
       /\ IpcAwaited' /\ \A d \in Callers : d # c => call'[d] = call[d] /\ promise'[d] = promise[d]
       /\ call'[c] = r /\ promise'[c] = told
  BY <1>1, <1>9, <1>10, CallerStep
<1>12. /\ caller_fd' \in [AsyncCallers -> [fd: BOOLEAN, eventfd: BOOLEAN]]
       /\ \A d \in AsyncCallers : \/ caller_fd'[d] = caller_fd[d]
                                  \/ d = c /\ (caller_fd'[d].eventfd \/ ~Free(d)')
  <2>1. CASE caller_fd' = caller_fd
    BY <1>1, <2>1 DEF IpcTyped
  <2>2. CASE caller_fd' = [caller_fd EXCEPT ![c] = [fd |-> FALSE, eventfd |-> TRUE]]
    BY <1>1, <2>2 DEF IpcTyped
  <2>3. CASE Broadcast(c)
    <3>1. /\ call' = [call EXCEPT ![c].serial = @ + 1, ![c].receiving = c \in AsyncCallers]
          /\ caller_fd' = [x \in AsyncCallers |-> IF x = c THEN [fd |-> FALSE, eventfd |-> FALSE]
                                                            ELSE caller_fd[x]]
      BY <2>3 DEF Broadcast
    <3>2. c \in AsyncCallers => call'[c].receiving
      BY <1>1, <3>1 DEF IpcTyped, CallRecords
    <3>3. c \in AsyncCallers => ~Free(c)'
      BY <3>2 DEF Free
    <3> QED
      BY <1>1, <3>1, <3>3 DEF IpcTyped
  <2> QED
    BY <2>1, <2>2, <2>3 DEF SendRecv, AsyncRequest
<1>13. NothingStranded'
  <2>1. ASSUME NEW d \in AsyncCallers, Free(d)', to_caller'[d] # <<>>
        PROVE  caller_fd'[d].fd \/ caller_fd'[d].eventfd
    <3>1. CASE d = c
      BY <1>1, <1>2, <1>12, <2>1, <3>1 DEF NothingStranded
    <3>2. CASE d # c
      <4>1. Free(d)
        BY <1>11, <2>1, <3>2 DEF Free, Callers
      <4> QED
        BY <1>1, <1>2, <1>12, <2>1, <3>2, <4>1 DEF NothingStranded
    <3> QED
      BY <3>1, <3>2
  <2> QED
    BY <1>5, <2>1 DEF NothingStranded
<1>14. IpcTyped'
  BY <1>1, <1>2, <1>5, <1>11, <1>12 DEF IpcTyped
<1>15. Promised!Next \/ promise' = promise
  <2>1. CASE told = promise[c]
    BY <1>1, <1>9, <2>1 DEF IpcTyped
  <2>2. CASE told # promise[c]
    <3>1. told = [promise[c] EXCEPT ![n] = "sent"]
      BY <1>9, <2>2
    <3>2. promise' = [promise EXCEPT ![c][n] = "sent"]
      BY <1>1, <1>9, <3>1 DEF IpcTyped
    <3>3. Promised!Ask(c, n)
      BY <1>7, <3>2 DEF Promised!Ask
    <3> QED
      BY <1>5, <3>3 DEF Promised!Next
  <2> QED
    BY <2>1, <2>2
<1> QED
  BY <1>5, <1>11, <1>13, <1>14, <1>15 DEF IpcControl

\* A caller is told how one of its requests ended, or nothing.
LEMMA AnswerStep ==
  ASSUME IpcControl, NEW c \in Callers, NEW r \in CallRecords, NEW s \in Serials, NEW e \in Promised!Ends,
         r.serial = call[c].serial, r.contexts \subseteq call[c].contexts,
         r.timers \subseteq r.contexts, r.blocked => call[c].blocked,
         call' = [call EXCEPT ![c] = r],
         \/ promise' = promise
         \/ /\ promise[c][s] = "sent" /\ promise' = [promise EXCEPT ![c][s] = e]
            /\ s \notin r.contexts /\ (r.blocked => s # call[c].serial)
  PROVE  /\ call' \in [Callers -> CallRecords] /\ promise' \in [Callers -> [Serials -> CallerEnds]]
         /\ IpcAwaited'
         /\ \A d \in Callers : d # c => call'[d] = call[d]
         /\ call'[c] = r
         /\ Promised!Next \/ promise' = promise
<1>1. /\ IpcTyped /\ IpcAwaited /\ promise[c] \in [Serials -> CallerEnds]
      /\ AwaitedAt(c, call[c], promise[c])
  BY DEF IpcControl, IpcTyped, IpcAwaited
<1>2. CASE promise' = promise
  <2>1. AwaitedAt(c, r, promise[c])
    BY <1>1 DEF AwaitedAt
  <2>2. promise' = [promise EXCEPT ![c] = promise[c]]
    BY <1>1, <1>2 DEF IpcTyped
  <2> QED
    BY <1>1, <1>2, <2>1, <2>2, CallerStep
<1>3. CASE /\ promise[c][s] = "sent" /\ promise' = [promise EXCEPT ![c][s] = e]
           /\ s \notin r.contexts /\ (r.blocked => s # call[c].serial)
  <2> DEFINE told == [promise[c] EXCEPT ![s] = e]
  <2>1. told \in [Serials -> CallerEnds] /\ promise' = [promise EXCEPT ![c] = told]
    BY <1>1, <1>3 DEF IpcTyped, CallerEnds, Promised!Ends
  <2>2. ~(s > call[c].serial)
    BY <1>1, <1>3 DEF AwaitedAt
  <2>3. AwaitedAt(c, r, told)
    <3>1. r.serial \in 0 .. MaxSerial[c] /\ r.timers \subseteq r.contexts
      BY <1>1 DEF AwaitedAt
    <3>2. ASSUME NEW x \in Serials, x > r.serial PROVE told[x] = "none"
      BY <1>1, <2>2, <3>2 DEF AwaitedAt
    <3>3. ASSUME r.blocked
          PROVE  r.serial \in Serials /\ r.serial \notin r.contexts /\ told[r.serial] = "sent"
      BY <1>1, <1>3, <3>3 DEF AwaitedAt
    <3>4. ASSUME NEW x \in r.contexts PROVE x <= r.serial /\ told[x] = "sent"
      <4>1. x \in Serials /\ x # s
        BY <1>3 DEF CallRecords
      <4> QED
        BY <1>1, <4>1 DEF AwaitedAt
    <3> QED
      BY <3>1, <3>2, <3>3, <3>4 DEF AwaitedAt
  <2>4. Promised!Tell(c, s, e)
    BY <1>3 DEF Promised!Tell
  <2>5. Promised!Next
    BY <2>4 DEF Promised!Next
  <2> QED
    BY <1>1, <2>1, <2>3, <2>5, CallerStep
<1> QED
  BY <1>2, <1>3

\* The rest of a caller's step: the server's side stands still.
LEMMA CallerControls ==
  ASSUME IpcControl, NEW c \in Callers, UNCHANGED to_server, UNCHANGED server,
         call' \in [Callers -> CallRecords], promise' \in [Callers -> [Serials -> CallerEnds]],
         IpcAwaited', to_caller' \in [Callers -> Seq(Serials)],
         caller_fd' \in [AsyncCallers -> [fd: BOOLEAN, eventfd: BOOLEAN]],
         \A d \in Callers : d # c => call'[d] = call[d] /\ to_caller'[d] = to_caller[d],
         \A d \in AsyncCallers : d # c => caller_fd'[d] = caller_fd[d],
         \/ c \notin AsyncCallers \/ call'[c].blocked \/ call'[c].receiving
         \/ to_caller'[c] = <<>> \/ caller_fd'[c].eventfd \/ caller_fd'[c].fd
  PROVE  IpcControl'
<1>1. IpcTyped /\ NothingStranded /\ IpcHeld
  BY DEF IpcControl
<1>2. IpcTyped'
  BY <1>1 DEF IpcTyped
<1>3. IpcHeld'
  BY <1>1 DEF IpcHeld
<1>4. NothingStranded'
  <2>1. ASSUME NEW d \in AsyncCallers, Free(d)', to_caller'[d] # <<>>
        PROVE  caller_fd'[d].fd \/ caller_fd'[d].eventfd
    <3>1. CASE d = c
      BY <2>1, <3>1 DEF Free
    <3>2. CASE d # c
      <4>1. Free(d) /\ to_caller[d] # <<>> /\ caller_fd'[d] = caller_fd[d]
        BY <2>1, <3>2 DEF Free, Callers
      <4> QED
        BY <1>1, <4>1 DEF NothingStranded
    <3> QED
      BY <3>1, <3>2
  <2>2. server'.pc = "poll" /\ (\E d \in Callers : to_server'[d] # <<>>) =>
          server'.fd \/ server'.receive_eventfd
    BY <1>1 DEF NothingStranded
  <2> QED
    BY <2>1, <2>2 DEF NothingStranded
<1> QED
  BY <1>2, <1>3, <1>4 DEF IpcControl

\* A reply taken out of the caller's socket.
LEMMA ReplyTaken ==
  ASSUME IpcTyped, NEW c \in Callers, to_caller[c] # <<>>,
         to_caller' = [to_caller EXCEPT ![c] = Tail(@)]
  PROVE  /\ to_caller' \in [Callers -> Seq(Serials)] /\ Head(to_caller[c]) \in Serials
         /\ to_caller'[c] = Tail(to_caller[c])
         /\ \A d \in Callers : d # c => to_caller'[d] = to_caller[d]
<1>1. to_caller[c] \in Seq(Serials)
  BY DEF IpcTyped
<1>2. Tail(to_caller[c]) \in Seq(Serials) /\ Head(to_caller[c]) \in Serials
  BY <1>1, OneLess
<1> QED
  BY <1>2 DEF IpcTyped

\* A blocked call returns, with a reply or without (send_recv).
LEMMA BlockedStep ==
  ASSUME IpcControl, NEW c \in Callers,
         BlockedReplySync(c) \/ BlockedReplyAsync(c) \/ BlockedTimeout(c)
  PROVE  IpcControl' /\ (Promised!Next \/ promise' = promise)
<1>1. /\ IpcTyped /\ call[c] \in CallRecords /\ AwaitedAt(c, call[c], promise[c])
      /\ promise[c] \in [Serials -> CallerEnds]
  BY DEF IpcControl, IpcTyped, IpcAwaited
<1>2. call[c].blocked /\ call' = [call EXCEPT ![c].blocked = FALSE] /\ UNCHANGED <<to_server, server>>
  BY DEF BlockedReplySync, BlockedReplyAsync, BlockedReply, BlockedTimeout
<1>3. PICK mine : mine = call[c].serial
  OBVIOUS
<1>4. mine \in Serials /\ mine \notin call[c].contexts /\ promise[c][mine] = "sent"
  BY <1>1, <1>2, <1>3 DEF AwaitedAt
<1>5. PICK r \in CallRecords :
        /\ call' = [call EXCEPT ![c] = r] /\ r.serial = mine /\ ~r.blocked
        /\ r.contexts = call[c].contexts /\ r.timers = call[c].timers
  <2> DEFINE r == [call[c] EXCEPT !.blocked = FALSE]
  <2>1. /\ r \in CallRecords /\ r.serial = mine /\ ~r.blocked
        /\ r.contexts = call[c].contexts /\ r.timers = call[c].timers
    BY <1>1, <1>3 DEF CallRecords
  <2>2. call' = [call EXCEPT ![c] = r]
    BY <1>1, <1>2 DEF IpcTyped
  <2> QED
    BY <2>1, <2>2
<1>6. PICK e \in Promised!Ends : promise' = [promise EXCEPT ![c][mine] = e]
  <2>1. CASE BlockedReply(c)
    BY <1>3, <2>1 DEF BlockedReply, Promised!Ends
  <2>2. CASE BlockedTimeout(c)
    BY <1>3, <2>2 DEF BlockedTimeout, Promised!Ends
  <2> QED
    BY <2>1, <2>2 DEF BlockedReplySync, BlockedReplyAsync
<1>7. r.timers \subseteq r.contexts
  BY <1>1, <1>5 DEF AwaitedAt
<1>8. /\ call' \in [Callers -> CallRecords] /\ promise' \in [Callers -> [Serials -> CallerEnds]]
      /\ IpcAwaited' /\ \A d \in Callers : d # c => call'[d] = call[d]
      /\ Promised!Next \/ promise' = promise
  BY <1>3, <1>4, <1>5, <1>6, <1>7, AnswerStep
<1>9. /\ to_caller' \in [Callers -> Seq(Serials)]
      /\ \A d \in Callers : d # c => to_caller'[d] = to_caller[d]
  <2>1. CASE BlockedReply(c)
    BY <1>1, <2>1, ReplyTaken DEF BlockedReply
  <2>2. CASE BlockedTimeout(c)
    BY <1>1, <2>2 DEF BlockedTimeout, IpcTyped
  <2> QED
    BY <2>1, <2>2 DEF BlockedReplySync, BlockedReplyAsync
<1>10. /\ caller_fd' \in [AsyncCallers -> [fd: BOOLEAN, eventfd: BOOLEAN]]
       /\ \A d \in AsyncCallers : d # c => caller_fd'[d] = caller_fd[d]
       /\ c \in AsyncCallers => caller_fd'[c].eventfd
  <2>1. CASE BlockedReplySync(c)
    BY <1>1, <2>1, IpcAssumption DEF BlockedReplySync, IpcTyped
  <2>2. CASE BlockedReplyAsync(c)
    BY <1>1, <2>2 DEF BlockedReplyAsync, IpcTyped
  <2>3. CASE BlockedTimeout(c)
    BY <1>1, <2>3 DEF BlockedTimeout, IpcTyped
  <2> QED
    BY <2>1, <2>2, <2>3
<1> QED
  BY <1>2, <1>8, <1>9, <1>10, CallerControls

\* client_receive, from the event loop until the socket is empty.
LEMMA ReceiveStep ==
  ASSUME IpcControl, NEW c \in AsyncCallers,
         ClientReceive(c) \/ ClientReply(c) \/ ClientReceived(c)
  PROVE  IpcControl' /\ (Promised!Next \/ promise' = promise)
<1>1. /\ IpcTyped /\ call[c] \in CallRecords /\ AwaitedAt(c, call[c], promise[c])
      /\ promise[c] \in [Serials -> CallerEnds] /\ c \in Callers
      /\ caller_fd[c] \in [fd: BOOLEAN, eventfd: BOOLEAN]
  BY DEF IpcControl, IpcTyped, IpcAwaited, Callers
<1>2. call[c].timers \subseteq call[c].contexts
  BY <1>1 DEF AwaitedAt
<1>3. UNCHANGED to_server /\ UNCHANGED server
  BY DEF ClientReceive, ClientReply, ClientReceived
<1>4. /\ caller_fd' \in [AsyncCallers -> [fd: BOOLEAN, eventfd: BOOLEAN]]
      /\ \A d \in AsyncCallers : d # c => caller_fd'[d] = caller_fd[d]
  <2>1. CASE ClientReceive(c)
    BY <1>1, <2>1 DEF ClientReceive, IpcTyped
  <2>2. CASE ClientReply(c) \/ ClientReceived(c)
    <3>1. caller_fd' = [caller_fd EXCEPT ![c].fd = FALSE]
      BY <2>2 DEF ClientReply, ClientReceived
    <3> QED
      BY <1>1, <3>1 DEF IpcTyped
  <2> QED
    BY <2>1, <2>2
<1>5. CASE ClientReply(c)
  <2>1. /\ call[c].receiving /\ to_caller[c] # <<>>
        /\ to_caller' = [to_caller EXCEPT ![c] = Tail(@)]
    BY <1>5 DEF ClientReply
  <2>2. /\ to_caller' \in [Callers -> Seq(Serials)] /\ Head(to_caller[c]) \in Serials
        /\ \A d \in Callers : d # c => to_caller'[d] = to_caller[d]
    BY <1>1, <2>1, ReplyTaken
  <2>3. PICK reply \in Serials : reply = Head(to_caller[c])
    BY <2>2
  <2>4. /\ call' = [call EXCEPT ![c].contexts = @ \ {reply}, ![c].timers = @ \ {reply}]
        /\ promise' = IF reply \in call[c].contexts
                      THEN [promise EXCEPT ![c][reply] = "answered"] ELSE promise
    BY <1>5, <2>3 DEF ClientReply
  <2>5. PICK r \in CallRecords :
          /\ call' = [call EXCEPT ![c] = r] /\ r.serial = call[c].serial
          /\ r.blocked = call[c].blocked /\ r.receiving
          /\ r.contexts = call[c].contexts \ {reply} /\ r.timers = call[c].timers \ {reply}
    <3> DEFINE r == [call[c] EXCEPT !.contexts = @ \ {reply}, !.timers = @ \ {reply}]
    <3>1. /\ r \in CallRecords /\ r.serial = call[c].serial
          /\ r.blocked = call[c].blocked /\ r.receiving
          /\ r.contexts = call[c].contexts \ {reply} /\ r.timers = call[c].timers \ {reply}
      BY <1>1, <2>1 DEF CallRecords
    <3>2. call' = [call EXCEPT ![c] = r]
      BY <1>1, <2>4 DEF IpcTyped
    <3> QED
      BY <3>1, <3>2
  <2>6. reply \in call[c].contexts =>
          promise[c][reply] = "sent" /\ (r.blocked => reply # call[c].serial)
    BY <1>1, <2>5 DEF AwaitedAt
  <2>7. "answered" \in Promised!Ends
    BY DEF Promised!Ends
  <2>8. /\ call' \in [Callers -> CallRecords] /\ promise' \in [Callers -> [Serials -> CallerEnds]]
        /\ IpcAwaited' /\ \A d \in Callers : d # c => call'[d] = call[d]
        /\ call'[c] = r
        /\ Promised!Next \/ promise' = promise
    <3>1. r.contexts \subseteq call[c].contexts /\ r.timers \subseteq r.contexts
      BY <1>2, <2>5
    <3>2. \/ promise' = promise
          \/ /\ promise[c][reply] = "sent" /\ promise' = [promise EXCEPT ![c][reply] = "answered"]
             /\ reply \notin r.contexts /\ (r.blocked => reply # call[c].serial)
      BY <2>4, <2>5, <2>6
    <3> QED
      BY <1>1, <2>5, <2>7, <3>1, <3>2, AnswerStep
  <2> QED
    BY <1>1, <1>3, <1>4, <2>2, <2>5, <2>8, CallerControls
<1>6. CASE ClientReceive(c) \/ ClientReceived(c)
  <2>1. /\ to_caller' = to_caller /\ promise' = promise
        /\ \/ call' = [call EXCEPT ![c].receiving = TRUE]
           \/ call' = [call EXCEPT ![c].receiving = FALSE] /\ to_caller[c] = <<>>
    BY <1>6 DEF ClientReceive, ClientReceived
  <2>2. PICK r \in CallRecords :
          /\ call' = [call EXCEPT ![c] = r] /\ r.serial = call[c].serial
          /\ r.blocked = call[c].blocked /\ r.contexts = call[c].contexts
          /\ r.timers = call[c].timers /\ (r.receiving \/ to_caller[c] = <<>>)
    <3>1. PICK b \in BOOLEAN : call' = [call EXCEPT ![c].receiving = b] /\ (b \/ to_caller[c] = <<>>)
      BY <2>1
    <3> DEFINE r == [call[c] EXCEPT !.receiving = b]
    <3>2. /\ r \in CallRecords /\ r.serial = call[c].serial
          /\ r.blocked = call[c].blocked /\ r.contexts = call[c].contexts
          /\ r.timers = call[c].timers /\ r.receiving = b
      BY <1>1 DEF CallRecords
    <3>3. call' = [call EXCEPT ![c] = r]
      BY <1>1, <3>1 DEF IpcTyped
    <3> QED
      BY <3>1, <3>2, <3>3
  <2>3. AwaitedAt(c, r, promise[c])
    BY <1>1, <2>2 DEF AwaitedAt
  <2>4. promise' = [promise EXCEPT ![c] = promise[c]]
    BY <1>1, <2>1 DEF IpcTyped
  <2>5. /\ call' \in [Callers -> CallRecords] /\ promise' \in [Callers -> [Serials -> CallerEnds]]
        /\ IpcAwaited' /\ \A d \in Callers : d # c => call'[d] = call[d]
        /\ call'[c] = r
    BY <1>1, <2>2, <2>3, <2>4, CallerStep DEF IpcControl
  <2>6. to_caller' \in [Callers -> Seq(Serials)] /\ (call'[c].receiving \/ to_caller'[c] = <<>>)
    BY <1>1, <2>1, <2>2, <2>5 DEF IpcTyped
  <2> QED
    BY <1>1, <1>3, <1>4, <2>1, <2>5, <2>6, CallerControls
<1> QED
  BY <1>5, <1>6

\* A timer runs out before the reply (timer_expired).
LEMMA TimerStep ==
  ASSUME IpcControl, NEW c \in Callers, NEW s \in Serials, timer_expired(c, s)
  PROVE  IpcControl' /\ (Promised!Next \/ promise' = promise)
<1>1. /\ IpcTyped /\ call[c] \in CallRecords /\ AwaitedAt(c, call[c], promise[c])
  BY DEF IpcControl, IpcTyped, IpcAwaited
<1>2. /\ Free(c) /\ s \in call[c].contexts /\ c \in AsyncCallers
      /\ promise' = [promise EXCEPT ![c][s] = "timed out"]
      /\ call' = [call EXCEPT ![c].contexts = @ \ {s}, ![c].timers = @ \ {s}]
      /\ UNCHANGED to_server /\ UNCHANGED server /\ to_caller' = to_caller /\ caller_fd' = caller_fd
  BY DEF timer_expired
<1>3. PICK r \in CallRecords :
        /\ call' = [call EXCEPT ![c] = r] /\ r.serial = call[c].serial
        /\ ~r.blocked /\ ~r.receiving
        /\ r.contexts = call[c].contexts \ {s} /\ r.timers = call[c].timers \ {s}
  <2> DEFINE r == [call[c] EXCEPT !.contexts = @ \ {s}, !.timers = @ \ {s}]
  <2>1. /\ r \in CallRecords /\ r.serial = call[c].serial
        /\ ~r.blocked /\ ~r.receiving
        /\ r.contexts = call[c].contexts \ {s} /\ r.timers = call[c].timers \ {s}
    BY <1>1, <1>2 DEF CallRecords, Free
  <2>2. call' = [call EXCEPT ![c] = r]
    BY <1>1, <1>2 DEF IpcTyped
  <2> QED
    BY <2>1, <2>2
<1>4. /\ promise[c][s] = "sent" /\ r.timers \subseteq r.contexts
      /\ r.contexts \subseteq call[c].contexts /\ s \notin r.contexts
  BY <1>1, <1>2, <1>3 DEF AwaitedAt
<1>5. "timed out" \in Promised!Ends
  BY DEF Promised!Ends
<1>6. /\ call' \in [Callers -> CallRecords] /\ promise' \in [Callers -> [Serials -> CallerEnds]]
      /\ IpcAwaited' /\ \A d \in Callers : d # c => call'[d] = call[d]
      /\ call'[c] = r
      /\ Promised!Next \/ promise' = promise
  BY <1>2, <1>3, <1>4, <1>5, AnswerStep
<1>7. to_caller[c] = <<>> \/ caller_fd[c].eventfd \/ caller_fd[c].fd
  BY <1>2 DEF IpcControl, NothingStranded
<1>8. /\ to_caller' \in [Callers -> Seq(Serials)]
      /\ caller_fd' \in [AsyncCallers -> [fd: BOOLEAN, eventfd: BOOLEAN]]
      /\ to_caller'[c] = <<>> \/ caller_fd'[c].eventfd \/ caller_fd'[c].fd
  BY <1>1, <1>2, <1>7 DEF IpcTyped
<1>9. /\ \A d \in Callers : d # c => call'[d] = call[d] /\ to_caller'[d] = to_caller[d]
      /\ \A d \in AsyncCallers : d # c => caller_fd'[d] = caller_fd[d]
  BY <1>2, <1>6
<1> QED
  BY <1>2, <1>6, <1>8, <1>9, CallerControls

\* A handler is done with a message: answered, or, if it was broadcast, only
\* counted off; a held message is due.
LEMMA FinishEffect ==
  ASSUME IpcTyped, NEW srv \in Servers, NEW m \in Msgs, Finish(srv, m)
  PROVE  /\ server' \in Servers /\ server'.pc = srv.pc /\ server'.serializing = srv.serializing
         /\ server'.hold_queue = srv.hold_queue /\ server'.handling = srv.handling \ {m}
         /\ ~server'.in_flight /\ server'.eventfd = (srv.eventfd \/ srv.hold_queue # <<>>)
         /\ server'.receive_eventfd \/ (server'.fd = srv.fd /\ server'.receive_eventfd = srv.receive_eventfd)
         /\ to_caller' \in [Callers -> Seq(Serials)]
         /\ caller_fd' \in [AsyncCallers -> [fd: BOOLEAN, eventfd: BOOLEAN]]
         /\ \A d \in AsyncCallers : \/ to_caller'[d] = to_caller[d] /\ caller_fd'[d] = caller_fd[d]
                                    \/ caller_fd'[d].fd
         /\ \/ m.kind = "broadcast" /\ to_caller' = to_caller
            \/ m.kind # "broadcast" /\ to_caller' = [to_caller EXCEPT ![m.from] = Append(@, m.serial)]
<1>1. m.from \in Callers /\ m.serial \in Serials
  BY DEF Msgs
<1>2. CASE m.kind = "broadcast"
  <2>1. BroadcastHandled(srv, m)
    BY <1>2 DEF Finish
  <2>2. /\ to_caller' = to_caller /\ caller_fd' = caller_fd
        /\ server' = [srv EXCEPT !.in_flight = FALSE, !.handling = @ \ {m},
                                 !.eventfd = @ \/ srv.hold_queue # <<>>]
    BY <2>1 DEF BroadcastHandled
  <2>3. /\ server' \in Servers /\ server'.pc = srv.pc /\ server'.serializing = srv.serializing
        /\ server'.hold_queue = srv.hold_queue /\ server'.handling = srv.handling \ {m}
        /\ ~server'.in_flight /\ server'.eventfd = (srv.eventfd \/ srv.hold_queue # <<>>)
        /\ server'.fd = srv.fd /\ server'.receive_eventfd = srv.receive_eventfd
    BY <2>2 DEF Servers
  <2> QED
    BY <1>2, <2>2, <2>3 DEF IpcTyped
<1>3. CASE m.kind # "broadcast"
  <2>1. Respond(srv, m)
    BY <1>3 DEF Finish
  <2>2. /\ to_caller' = [to_caller EXCEPT ![m.from] = Append(@, m.serial)]
        /\ caller_fd' = [x \in AsyncCallers |-> IF x = m.from THEN [caller_fd[x] EXCEPT !.fd = TRUE]
                                                              ELSE caller_fd[x]]
        /\ server' = [srv EXCEPT !.fd = FALSE, !.receive_eventfd = TRUE, !.in_flight = FALSE,
                                 !.handling = @ \ {m},
                                 !.eventfd = @ \/ srv.hold_queue # <<>>]
    BY <2>1 DEF Respond
  <2>3. /\ server' \in Servers /\ server'.pc = srv.pc /\ server'.serializing = srv.serializing
        /\ server'.hold_queue = srv.hold_queue /\ server'.handling = srv.handling \ {m}
        /\ ~server'.in_flight /\ server'.eventfd = (srv.eventfd \/ srv.hold_queue # <<>>)
        /\ server'.receive_eventfd
    BY <2>2 DEF Servers
  <2>4. to_caller' \in [Callers -> Seq(Serials)]
    <3>1. Append(to_caller[m.from], m.serial) \in Seq(Serials)
      BY <1>1, OneMore DEF IpcTyped
    <3> QED
      BY <1>1, <2>2, <3>1 DEF IpcTyped
  <2>5. /\ caller_fd' \in [AsyncCallers -> [fd: BOOLEAN, eventfd: BOOLEAN]]
        /\ \A d \in AsyncCallers : \/ to_caller'[d] = to_caller[d] /\ caller_fd'[d] = caller_fd[d]
                                   \/ caller_fd'[d].fd
    BY <1>1, <2>2 DEF IpcTyped, Callers
  <2> QED
    BY <1>3, <2>2, <2>3, <2>4, <2>5
<1> QED
  BY <1>2, <1>3

\* deliver_: the handler has the message, is done with it already, or never
\* gets it.
LEMMA DeliverEffect ==
  ASSUME IpcTyped, NEW srv \in Servers, NEW m \in Msgs, deliver(srv, m)
  PROVE  /\ server' \in Servers /\ server'.pc = srv.pc /\ server'.serializing = srv.serializing
         /\ server'.hold_queue = srv.hold_queue
         /\ server'.receive_eventfd \/ (server'.fd = srv.fd /\ server'.receive_eventfd = srv.receive_eventfd)
         /\ to_caller' \in [Callers -> Seq(Serials)]
         /\ caller_fd' \in [AsyncCallers -> [fd: BOOLEAN, eventfd: BOOLEAN]]
         /\ \A d \in AsyncCallers : \/ to_caller'[d] = to_caller[d] /\ caller_fd'[d] = caller_fd[d]
                                    \/ caller_fd'[d].fd
         /\ \/ /\ server'.handling = srv.handling \union {m} /\ server'.in_flight
               /\ server'.eventfd = srv.eventfd /\ to_caller' = to_caller
            \/ /\ server'.handling = srv.handling \ {m} /\ ~server'.in_flight
               /\ server'.eventfd = (srv.eventfd \/ srv.hold_queue # <<>>)
               /\ \/ m.kind = "broadcast" /\ to_caller' = to_caller
                  \/ /\ m.kind # "broadcast"
                     /\ to_caller' = [to_caller EXCEPT ![m.from] = Append(@, m.serial)]
            \/ /\ server'.handling = srv.handling /\ server'.in_flight = srv.in_flight
               /\ server'.eventfd = srv.eventfd /\ to_caller' = to_caller
               /\ server'.dropped = (srv.hold_queue # <<>>)
<1>1. PICK given \in Servers : given = [srv EXCEPT !.in_flight = TRUE, !.handling = @ \union {m}]
  BY DEF Servers
<1>2. /\ given.pc = srv.pc /\ given.serializing = srv.serializing /\ given.hold_queue = srv.hold_queue
      /\ given.fd = srv.fd /\ given.receive_eventfd = srv.receive_eventfd
      /\ given.eventfd = srv.eventfd /\ given.handling = srv.handling \union {m} /\ given.in_flight
  BY <1>1 DEF Servers
<1>3. CASE Finish(given, m)
  <2>1. /\ server' \in Servers /\ server'.pc = given.pc /\ server'.serializing = given.serializing
        /\ server'.hold_queue = given.hold_queue /\ server'.handling = given.handling \ {m}
        /\ ~server'.in_flight /\ server'.eventfd = (given.eventfd \/ given.hold_queue # <<>>)
        /\ server'.receive_eventfd
             \/ (server'.fd = given.fd /\ server'.receive_eventfd = given.receive_eventfd)
        /\ to_caller' \in [Callers -> Seq(Serials)]
        /\ caller_fd' \in [AsyncCallers -> [fd: BOOLEAN, eventfd: BOOLEAN]]
        /\ \A d \in AsyncCallers : \/ to_caller'[d] = to_caller[d] /\ caller_fd'[d] = caller_fd[d]
                                   \/ caller_fd'[d].fd
        /\ \/ m.kind = "broadcast" /\ to_caller' = to_caller
           \/ m.kind # "broadcast" /\ to_caller' = [to_caller EXCEPT ![m.from] = Append(@, m.serial)]
    BY <1>3, FinishEffect
  <2>2. (srv.handling \union {m}) \ {m} = srv.handling \ {m}
    OBVIOUS
  <2>3. server'.handling = srv.handling \ {m}
    BY <1>2, <2>1, <2>2
  <2> QED
    BY <1>2, <2>1, <2>3
<1>4. CASE server' = given /\ UNCHANGED <<to_caller, caller_fd>>
  BY <1>2, <1>4 DEF IpcTyped
<1>5. CASE /\ server' = [srv EXCEPT !.dropped = srv.hold_queue # <<>>]
           /\ UNCHANGED <<to_caller, caller_fd>>
  <2>1. /\ server' \in Servers /\ server'.pc = srv.pc /\ server'.serializing = srv.serializing
        /\ server'.hold_queue = srv.hold_queue /\ server'.handling = srv.handling
        /\ server'.in_flight = srv.in_flight /\ server'.eventfd = srv.eventfd
        /\ server'.fd = srv.fd /\ server'.receive_eventfd = srv.receive_eventfd
        /\ server'.dropped = (srv.hold_queue # <<>>)
    BY <1>5 DEF Servers
  <2> QED
    BY <1>5, <2>1 DEF IpcTyped
<1> QED
  BY <1>1, <1>3, <1>4, <1>5 DEF deliver

\* The rest of a step of the server: the callers stand still.
LEMMA ServerControls ==
  ASSUME IpcControl, UNCHANGED call, UNCHANGED promise,
         to_server' \in [Callers -> Seq(Msgs)], server' \in Servers,
         to_caller' \in [Callers -> Seq(Serials)],
         caller_fd' \in [AsyncCallers -> [fd: BOOLEAN, eventfd: BOOLEAN]],
         \A d \in AsyncCallers : \/ to_caller'[d] = to_caller[d] /\ caller_fd'[d] = caller_fd[d]
                                 \/ caller_fd'[d].fd,
         \/ server'.pc = "receive" \/ server'.receive_eventfd
         \/ \A d \in Callers : to_server'[d] = <<>>
         \/ /\ server.pc = "poll" /\ to_server' = to_server
            /\ server'.fd = server.fd /\ server'.receive_eventfd = server.receive_eventfd,
         IpcHeld'
  PROVE  IpcControl' /\ promise' = promise
<1>1. IpcTyped /\ IpcAwaited /\ NothingStranded
  BY DEF IpcControl
<1>2. IpcTyped' /\ IpcAwaited'
  BY <1>1 DEF IpcTyped, IpcAwaited, AwaitedAt
<1>3. NothingStranded'
  <2>1. ASSUME NEW d \in AsyncCallers, Free(d)', to_caller'[d] # <<>>
        PROVE  caller_fd'[d].fd \/ caller_fd'[d].eventfd
    <3>1. Free(d)
      BY <2>1 DEF Free
    <3> QED
      BY <1>1, <2>1, <3>1 DEF NothingStranded
  <2>2. server'.pc = "poll" /\ (\E d \in Callers : to_server'[d] # <<>>) =>
          server'.fd \/ server'.receive_eventfd
    BY <1>1 DEF NothingStranded
  <2> QED
    BY <2>1, <2>2 DEF NothingStranded
<1> QED
  BY <1>2, <1>3 DEF IpcControl

\* client_receive and server_receive of the serving thread.
LEMMA ServerStep ==
  ASSUME IpcControl,
         \/ ServerReceive \/ ServerReceived \/ eventfd_receive
         \/ \E c \in Callers : ServerMessage(c)
         \/ \E m \in server.handling : FinishLater(m)
  PROVE  IpcControl' /\ promise' = promise
<1>1. /\ IpcTyped /\ NothingStranded /\ IpcHeld
      /\ server \in Servers /\ server.hold_queue \in Seq(Msgs)
      /\ server.pc \in {"poll", "receive"} /\ server.eventfd \in BOOLEAN
  BY DEF IpcControl, IpcTyped, Servers
<1>2. CASE ServerReceive \/ ServerReceived
  <2>1. /\ UNCHANGED call /\ UNCHANGED promise /\ to_server' = to_server
        /\ to_caller' = to_caller /\ caller_fd' = caller_fd
    BY <1>2 DEF ServerReceive, ServerReceived
  <2>2. /\ server' \in Servers /\ server'.hold_queue = server.hold_queue
        /\ server'.in_flight = server.in_flight /\ server'.eventfd = server.eventfd
        /\ server'.serializing = server.serializing /\ server'.handling = server.handling
        /\ server'.dropped = server.dropped
        /\ server'.pc = "receive" \/ \A d \in Callers : to_server'[d] = <<>>
    <3>1. CASE ServerReceive
      BY <1>1, <3>1 DEF ServerReceive, Servers
    <3>2. CASE ServerReceived
      BY <1>1, <3>2 DEF ServerReceived, Servers
    <3> QED
      BY <1>2, <3>1, <3>2
  <2>3. IpcHeld'
    BY <1>1, <2>2 DEF IpcHeld
  <2>4. /\ to_server' \in [Callers -> Seq(Msgs)] /\ to_caller' \in [Callers -> Seq(Serials)]
        /\ caller_fd' \in [AsyncCallers -> [fd: BOOLEAN, eventfd: BOOLEAN]]
    BY <1>1, <2>1 DEF IpcTyped
  <2> QED
    BY <2>1, <2>2, <2>3, <2>4, ServerControls
<1>3. ASSUME NEW c \in Callers, ServerMessage(c) PROVE IpcControl' /\ promise' = promise
  <2>1. /\ server.pc = "receive" /\ to_server[c] # <<>>
        /\ to_server' = [to_server EXCEPT ![c] = Tail(@)] /\ UNCHANGED call /\ UNCHANGED promise
    BY <1>3 DEF ServerMessage
  <2>2. to_server[c] \in Seq(Msgs)
    BY <1>1 DEF IpcTyped
  <2>3. PICK m \in Msgs : m = Head(to_server[c])
    BY <2>1, <2>2, OneLess
  <2>4. to_server' \in [Callers -> Seq(Msgs)]
    BY <1>1, <2>1, <2>2, OneLess DEF IpcTyped
  <2>5. PICK srv \in Servers : srv = [server EXCEPT !.fd = FALSE]
    BY <1>1 DEF Servers
  <2>6. /\ srv.pc = "receive" /\ srv.hold_queue = server.hold_queue /\ srv.handling = server.handling
        /\ srv.in_flight = server.in_flight /\ srv.eventfd = server.eventfd
        /\ srv.serializing = server.serializing /\ srv.dropped = server.dropped
    BY <1>1, <2>1, <2>5 DEF Servers
  <2>7. \/ /\ should_serialize(srv) /\ server' = [srv EXCEPT !.hold_queue = Append(@, m)]
           /\ to_caller' = to_caller /\ caller_fd' = caller_fd
        \/ ~should_serialize(srv) /\ deliver(srv, m)
    BY <1>3, <2>3, <2>5 DEF ServerMessage
  <2>8. CASE /\ should_serialize(srv) /\ server' = [srv EXCEPT !.hold_queue = Append(@, m)]
             /\ to_caller' = to_caller /\ caller_fd' = caller_fd
    <3>1. Append(srv.hold_queue, m) \in Seq(Msgs) /\ Append(srv.hold_queue, m) # <<>>
      BY <1>1, <2>6, OneMore
    <3>2. /\ server' \in Servers /\ server'.hold_queue = Append(srv.hold_queue, m)
          /\ server'.in_flight = server.in_flight /\ server'.eventfd = server.eventfd
          /\ server'.serializing = server.serializing /\ server'.handling = server.handling
          /\ server'.pc = "receive" /\ server'.dropped = server.dropped
      BY <2>6, <2>8, <3>1 DEF Servers
    <3>3. server.serializing /\ (server.in_flight \/ server.hold_queue # <<>>)
      BY <2>6, <2>8 DEF should_serialize
    <3>4. IpcHeld'
      BY <1>1, <3>1, <3>2, <3>3 DEF IpcHeld
    <3>5. /\ to_caller' \in [Callers -> Seq(Serials)]
          /\ caller_fd' \in [AsyncCallers -> [fd: BOOLEAN, eventfd: BOOLEAN]]
      BY <1>1, <2>8 DEF IpcTyped
    <3> QED
      BY <2>1, <2>4, <2>8, <3>2, <3>4, <3>5, ServerControls
  <2>9. CASE ~should_serialize(srv) /\ deliver(srv, m)
    <3>1. /\ server' \in Servers /\ server'.pc = "receive" /\ server'.serializing = server.serializing
          /\ server'.hold_queue = server.hold_queue
          /\ to_caller' \in [Callers -> Seq(Serials)]
          /\ caller_fd' \in [AsyncCallers -> [fd: BOOLEAN, eventfd: BOOLEAN]]
          /\ \A d \in AsyncCallers : \/ to_caller'[d] = to_caller[d] /\ caller_fd'[d] = caller_fd[d]
                                     \/ caller_fd'[d].fd
          /\ \/ /\ server'.handling = server.handling \union {m} /\ server'.in_flight
                /\ server'.eventfd = server.eventfd
             \/ /\ server'.handling = server.handling \ {m} /\ ~server'.in_flight
                /\ server'.eventfd = (server.eventfd \/ server.hold_queue # <<>>)
             \/ /\ server'.handling = server.handling /\ server'.in_flight = server.in_flight
                /\ server'.eventfd = server.eventfd
      BY <1>1, <2>6, <2>9, DeliverEffect
    <3>2. ~server.eventfd /\ server.hold_queue = <<>>
          /\ (server.serializing => ~server.in_flight /\ server.handling = {})
      BY <1>1, <2>6, <2>9 DEF should_serialize, IpcHeld
    <3>3. server.serializing =>
            \/ ~server'.in_flight /\ server'.handling = {}
            \/ server'.in_flight /\ server'.handling = {m}
      BY <3>1, <3>2
    <3>4. IpcHeld'
      BY <3>1, <3>2, <3>3 DEF IpcHeld
    <3> QED
      BY <2>1, <2>4, <3>1, <3>4, ServerControls
  <2> QED
    BY <2>7, <2>8, <2>9
<1>4. CASE eventfd_receive
  <2>1. /\ server.pc = "poll" /\ server.eventfd /\ server.hold_queue # <<>>
        /\ UNCHANGED call /\ UNCHANGED promise /\ to_server' = to_server
    BY <1>4 DEF eventfd_receive
  <2>2. PICK m \in Msgs : m = Head(server.hold_queue)
    BY <1>1, <2>1, OneLess
  <2>3. Tail(server.hold_queue) \in Seq(Msgs)
    BY <1>1, <2>1, OneLess
  <2>4. PICK srv \in Servers : srv = [server EXCEPT !.eventfd = FALSE, !.hold_queue = Tail(@)]
    BY <1>1, <2>3 DEF Servers
  <2>5. /\ srv.pc = "poll" /\ srv.hold_queue = Tail(server.hold_queue)
        /\ srv.handling = server.handling /\ ~srv.eventfd /\ srv.fd = server.fd
        /\ srv.receive_eventfd = server.receive_eventfd /\ srv.serializing = server.serializing
        /\ srv.in_flight = server.in_flight
    BY <1>1, <2>1, <2>4 DEF Servers
  <2>6. deliver(srv, m)
    BY <1>4, <2>2, <2>4 DEF eventfd_receive
  <2>7. /\ server' \in Servers /\ server'.pc = "poll" /\ server'.serializing = server.serializing
        /\ server'.hold_queue = srv.hold_queue
        /\ server'.receive_eventfd
             \/ (server'.fd = server.fd /\ server'.receive_eventfd = server.receive_eventfd)
        /\ to_caller' \in [Callers -> Seq(Serials)]
        /\ caller_fd' \in [AsyncCallers -> [fd: BOOLEAN, eventfd: BOOLEAN]]
        /\ \A d \in AsyncCallers : \/ to_caller'[d] = to_caller[d] /\ caller_fd'[d] = caller_fd[d]
                                   \/ caller_fd'[d].fd
        /\ \/ /\ server'.handling = server.handling \union {m} /\ server'.in_flight
              /\ server'.eventfd = srv.eventfd
           \/ /\ server'.handling = server.handling \ {m} /\ ~server'.in_flight
              /\ server'.eventfd = (srv.eventfd \/ srv.hold_queue # <<>>)
           \/ /\ server'.handling = server.handling /\ server'.in_flight = server.in_flight
              /\ server'.eventfd = srv.eventfd /\ server'.dropped = (srv.hold_queue # <<>>)
    BY <1>1, <2>5, <2>6, DeliverEffect
  <2>8. server.serializing /\ ~server.in_flight /\ server.handling = {}
    BY <1>1, <2>1 DEF IpcHeld
  <2>9. \/ ~server'.in_flight /\ server'.handling = {}
        \/ server'.in_flight /\ server'.handling = {m}
    BY <2>7, <2>8
  <2>10. IpcHeld'
    <3>1. /\ server'.hold_queue # <<>> =>
                server'.in_flight \/ server'.eventfd \/ server'.dropped
          /\ server'.eventfd => ~server'.in_flight /\ server'.hold_queue # <<>>
      BY <2>5, <2>7
    <3> QED
      BY <2>7, <2>8, <2>9, <3>1 DEF IpcHeld
  <2>11. to_server' \in [Callers -> Seq(Msgs)]
    BY <1>1, <2>1 DEF IpcTyped
  <2> QED
    BY <2>1, <2>7, <2>10, <2>11, ServerControls
<1>5. ASSUME NEW m \in server.handling, FinishLater(m) PROVE IpcControl' /\ promise' = promise
  <2>1. /\ server.pc = "poll" /\ Finish(server, m)
        /\ UNCHANGED call /\ UNCHANGED promise /\ to_server' = to_server
    BY <1>5 DEF FinishLater
  <2>2. m \in Msgs
    BY <1>1 DEF Servers
  <2>3. PICK srv \in Servers : srv = server
    BY <1>1
  <2>4. Finish(srv, m)
    BY <2>1, <2>3
  <2>5. /\ server' \in Servers /\ server'.pc = "poll" /\ server'.serializing = server.serializing
        /\ server'.hold_queue = server.hold_queue /\ server'.handling = server.handling \ {m}
        /\ ~server'.in_flight /\ server'.eventfd = (server.eventfd \/ server.hold_queue # <<>>)
        /\ server'.receive_eventfd
             \/ (server'.fd = server.fd /\ server'.receive_eventfd = server.receive_eventfd)
        /\ to_caller' \in [Callers -> Seq(Serials)]
        /\ caller_fd' \in [AsyncCallers -> [fd: BOOLEAN, eventfd: BOOLEAN]]
        /\ \A d \in AsyncCallers : \/ to_caller'[d] = to_caller[d] /\ caller_fd'[d] = caller_fd[d]
                                   \/ caller_fd'[d].fd
    BY <1>1, <2>1, <2>2, <2>3, <2>4, FinishEffect
  <2>6. server.serializing => server'.handling = {}
    BY <1>1, <2>5 DEF IpcHeld
  <2>7. IpcHeld'
    BY <1>1, <2>5, <2>6 DEF IpcHeld
  <2>8. to_server' \in [Callers -> Seq(Msgs)]
    BY <1>1, <2>1 DEF IpcTyped
  <2> QED
    BY <2>1, <2>5, <2>7, <2>8, ServerControls
<1> QED
  BY <1>2, <1>3, <1>4, <1>5

LEMMA IpcControlStarts ==
  ASSUME IpcInit
  PROVE  IpcControl /\ Promised!Init
<1>1. /\ \A c \in Callers : MaxSerial[c] \in Nat
      /\ <<>> \in Seq(Msgs) /\ <<>> \in Seq(Serials)
  BY IpcAssumption DEF Callers
<1>2. /\ call \in [Callers -> CallRecords]
      /\ \A c \in Callers : /\ call[c].serial = 0 /\ call[c].contexts = {} /\ call[c].timers = {}
                            /\ ~call[c].blocked
  BY DEF IpcInit, CallRecords
<1>3. /\ promise \in [Callers -> [Serials -> CallerEnds]] /\ Promised!Init
      /\ \A c \in Callers, s \in Serials : promise[c][s] = "none"
  BY DEF IpcInit, CallerEnds, Promised!Init
<1>4. /\ server \in Servers /\ server.receive_eventfd /\ server.hold_queue = <<>>
      /\ ~server.eventfd /\ server.handling = {} /\ ~server.in_flight
  BY <1>1 DEF IpcInit, Servers
<1>5. /\ to_server \in [Callers -> Seq(Msgs)] /\ to_caller \in [Callers -> Seq(Serials)]
      /\ \A c \in Callers : to_server[c] = <<>> /\ to_caller[c] = <<>>
  BY <1>1 DEF IpcInit
<1>6. caller_fd \in [AsyncCallers -> [fd: BOOLEAN, eventfd: BOOLEAN]]
  BY DEF IpcInit
<1>7. IpcTyped
  BY <1>2, <1>3, <1>4, <1>5, <1>6 DEF IpcTyped
<1>8. IpcAwaited
  BY <1>1, <1>2, <1>3 DEF IpcAwaited, AwaitedAt
<1>9. NothingStranded /\ IpcHeld
  BY <1>4, <1>5 DEF NothingStranded, IpcHeld, Callers
<1> QED
  BY <1>3, <1>7, <1>8, <1>9 DEF IpcControl

LEMMA IpcControlKept ==
  ASSUME IpcControl, [IpcNext]_ipcVars
  PROVE  IpcControl' /\ (Promised!Next \/ promise' = promise)
<1>1. CASE IpcNext
  <2>1. ASSUME NEW c \in Callers, NEW timed \in BOOLEAN, SendRecv(c, timed) \/ AsyncRequest(c, timed)
        PROVE  IpcControl' /\ (Promised!Next \/ promise' = promise)
    BY <2>1, SendStep
  <2>2. ASSUME NEW c \in Callers, Broadcast(c)
        PROVE  IpcControl' /\ (Promised!Next \/ promise' = promise)
    BY <2>2, SendStep
  <2>3. ASSUME NEW c \in Callers, BlockedReplySync(c) \/ BlockedReplyAsync(c) \/ BlockedTimeout(c)
        PROVE  IpcControl' /\ (Promised!Next \/ promise' = promise)
    BY <2>3, BlockedStep
  <2>4. ASSUME NEW c \in AsyncCallers, ClientReceive(c) \/ ClientReply(c) \/ ClientReceived(c)
        PROVE  IpcControl' /\ (Promised!Next \/ promise' = promise)
    BY <2>4, ReceiveStep
  <2>5. ASSUME NEW c \in Callers, NEW s \in Serials, timer_expired(c, s)
        PROVE  IpcControl' /\ (Promised!Next \/ promise' = promise)
    BY <2>5, TimerStep
  <2>6. CASE \/ ServerReceive \/ ServerReceived \/ eventfd_receive
             \/ \E c \in Callers : ServerMessage(c)
             \/ \E m \in server.handling : FinishLater(m)
    BY <2>6, ServerStep
  <2> QED
    BY <1>1, <2>1, <2>2, <2>3, <2>4, <2>5, <2>6 DEF IpcNext
<1>2. CASE UNCHANGED ipcVars
  <2>1. /\ UNCHANGED call /\ UNCHANGED promise /\ UNCHANGED to_server /\ UNCHANGED to_caller
        /\ UNCHANGED server /\ UNCHANGED caller_fd
    BY <1>2 DEF ipcVars
  <2>2. IpcTyped' /\ IpcAwaited' /\ IpcHeld'
    BY <2>1 DEF IpcControl, IpcTyped, IpcAwaited, AwaitedAt, IpcHeld
  <2>3. NothingStranded'
    BY <2>1 DEF IpcControl, NothingStranded, Free
  <2> QED
    BY <2>1, <2>2, <2>3 DEF IpcControl
<1> QED
  BY <1>1, <1>2

-----------------------------------------------------------------------------
LEMMA PresentTyped ==
  ASSUME IpcTyped
  PROVE  Present \subseteq Msgs
<1>1. /\ server.hold_queue \in Seq(Msgs) /\ server.handling \subseteq Msgs
      /\ to_server \in [Callers -> Seq(Msgs)]
  BY DEF IpcTyped, Servers
<1>2. In(server.hold_queue) \subseteq Msgs
  BY <1>1, InSeq
<1>3. \A d \in Callers : In(to_server[d]) \subseteq Msgs
  BY <1>1, InSeq
<1> QED
  BY <1>1, <1>2, <1>3 DEF Present, InSocket

\* Nothing of the places changes but replies that are read, and what callers
\* are told.
LEMMA AnswerUnread ==
  ASSUME IpcControl, IpcPlaces, IpcUnread, to_server' = to_server, server' = server,
         NEW c \in Callers, NEW s \in Serials, NEW e \in Promised!Ends,
         \A d \in Callers : call'[d].serial = call[d].serial,
         \/ promise' = promise
         \/ promise[c][s] = "sent" /\ promise' = [promise EXCEPT ![c][s] = e],
         \/ to_caller' = to_caller /\ (e = "timed out" \/ promise' = promise)
         \/ /\ to_caller[c] # <<>> /\ to_caller' = [to_caller EXCEPT ![c] = Tail(@)]
            /\ e = "answered" => s = Head(to_caller[c])
            /\ e = "wrong answer" => s = call[c].serial /\ s # Head(to_caller[c])
  PROVE  IpcPlaces' /\ IpcUnread'
<1>1. /\ IpcTyped /\ IpcAwaited /\ to_caller \in [Callers -> Seq(Serials)]
      /\ promise \in [Callers -> [Serials -> CallerEnds]] /\ Present \subseteq Msgs
      /\ Serials \subseteq Nat
  <2>1. IpcTyped /\ IpcAwaited
    BY DEF IpcControl
  <2> QED
    BY <2>1, PresentTyped, SerialsAreNumbers DEF IpcTyped
<1>2. Present' = Present /\ InSocket' = InSocket
  <2>1. InSocket' = InSocket
    BY DEF InSocket
  <2>2. In(server.hold_queue)' = In(server.hold_queue)
    BY DEF In
  <2> QED
    BY <2>1, <2>2 DEF Present
<1>3. /\ \A d \in Callers : In(to_caller'[d]) \subseteq In(to_caller[d]) /\ Once(to_caller'[d])
      /\ In(to_caller[c]) \subseteq Serials
      /\ \/ to_caller' = to_caller
         \/ /\ Head(to_caller[c]) \in In(to_caller[c])
            /\ Head(to_caller[c]) \notin In(to_caller'[c])
  <2>1. to_caller[c] \in Seq(Serials) /\ Once(to_caller[c])
        /\ \A d \in Callers : Once(to_caller[d])
    BY <1>1 DEF IpcPlaces
  <2>2. In(to_caller[c]) \subseteq Serials
    BY <2>1, InSeq
  <2>3. CASE to_caller' = to_caller
    BY <2>1, <2>2, <2>3
  <2>4. CASE to_caller[c] # <<>> /\ to_caller' = [to_caller EXCEPT ![c] = Tail(@)]
    <3>1. /\ In(to_caller[c]) = In(Tail(to_caller[c])) \union {Head(to_caller[c])}
          /\ Once(Tail(to_caller[c])) /\ Head(to_caller[c]) \notin In(Tail(to_caller[c]))
      BY <2>1, <2>4, OneLess
    <3>2. to_caller'[c] = Tail(to_caller[c]) /\ \A d \in Callers : d # c => to_caller'[d] = to_caller[d]
      BY <1>1, <2>4
    <3> QED
      BY <2>1, <2>2, <3>1, <3>2
  <2> QED
    BY <2>3, <2>4
<1>4. IpcPlaces'
  BY <1>2, <1>3 DEF IpcPlaces
<1> DEFINE Read == /\ to_caller[c] # <<>>
                   /\ e = "answered" => s = Head(to_caller[c])
                   /\ e = "wrong answer" => s = call[c].serial /\ s # Head(to_caller[c])
                   /\ Head(to_caller[c]) \in In(to_caller[c])
                   /\ Head(to_caller[c]) \notin In(to_caller'[c])
<1>13. ASSUME NEW d \in Callers, NEW t \in Serials, promise'[d][t] # promise[d][t]
       PROVE  /\ d = c /\ t = s /\ promise'[d][t] = e
              /\ e = "timed out" \/ Read
  <2>1. promise' # promise
    BY <1>13
  <2>2. promise' = [promise EXCEPT ![c][s] = e]
    BY <2>1
  <2>3. d = c /\ t = s /\ promise'[d][t] = e
    BY <1>1, <1>13, <2>2
  <2>4. e = "timed out" \/ Read
    <3>1. CASE to_caller' = to_caller /\ (e = "timed out" \/ promise' = promise)
      BY <2>1, <3>1
    <3>2. CASE /\ to_caller[c] # <<>> /\ to_caller' = [to_caller EXCEPT ![c] = Tail(@)]
               /\ e = "answered" => s = Head(to_caller[c])
               /\ e = "wrong answer" => s = call[c].serial /\ s # Head(to_caller[c])
      <4>1. /\ Head(to_caller[c]) \in In(to_caller[c])
            /\ Head(to_caller[c]) \notin In(Tail(to_caller[c]))
        <5>1. to_caller[c] \in Seq(Serials) /\ Once(to_caller[c])
          BY <1>1 DEF IpcPlaces
        <5>2. PICK q \in Seq(Serials) : q = to_caller[c]
          BY <5>1
        <5>3. q # <<>> /\ Once(q)
          BY <3>2, <5>1, <5>2
        <5>4. In(q) = In(Tail(q)) \union {Head(q)} /\ Head(q) \notin In(Tail(q))
          BY <5>3, OneLess
        <5>5. Head(q) \in In(q) /\ Head(q) \notin In(Tail(q))
          BY <5>4
        <5> QED
          BY <5>2, <5>5
      <4>2. to_caller'[c] = Tail(to_caller[c])
        BY <1>1, <3>2
      <4> QED
        BY <3>2, <4>1, <4>2
    <3> QED
      BY <3>1, <3>2
  <2> QED
    BY <2>3, <2>4
<1>5. \A d \in Callers, t \in Serials :
        Unread(d, t) => \/ Unread(d, t)'
                        \/ /\ d = c /\ t = s /\ e = "answered" /\ s = Head(to_caller[c])
                           /\ s \in In(to_caller[c]) /\ s \notin In(to_caller'[c])
  <2>1. SUFFICES ASSUME NEW d \in Callers, NEW t \in Serials, Unread(d, t),
                        ~(/\ d = c /\ t = s /\ e = "answered" /\ s = Head(to_caller[c])
                          /\ s \in In(to_caller[c]) /\ s \notin In(to_caller'[c]))
                 PROVE  Unread(d, t)'
    OBVIOUS
  <2>2. CASE promise'[d][t] = promise[d][t]
    BY <2>1, <2>2 DEF Unread
  <2>3. CASE promise'[d][t] # promise[d][t]
    <3>1. d = c /\ t = s /\ promise'[d][t] = e /\ (e = "timed out" \/ Read)
      BY <1>13, <2>3
    <3>2. e # "answered"
      BY <2>1, <3>1
    <3> QED
      BY <3>1, <3>2 DEF Unread, Promised!Ends
  <2> QED
    BY <2>2, <2>3
<1>6. ASSUME NEW m \in Present
      PROVE  /\ m.serial \notin In(to_caller'[m.from]) /\ m.serial <= call'[m.from].serial
             /\ m.kind # "broadcast" => Unread(m.from, m.serial)'
  <2>1. m.from \in Callers /\ m.serial \in Serials
    BY <1>1 DEF Msgs
  <2> QED
    BY <1>3, <1>5, <2>1 DEF IpcUnread
<1>7. ASSUME NEW d \in Callers, NEW t \in In(to_caller'[d])
      PROVE  t <= call'[d].serial /\ Unread(d, t)'
  <2>1. t \in In(to_caller[d]) /\ t \in Serials
    <3>1. t \in In(to_caller[d]) /\ to_caller[d] \in Seq(Serials)
      BY <1>1, <1>3
    <3> QED
      BY <3>1, InSeq
  <2> QED
    BY <1>3, <1>5, <1>7, <2>1 DEF IpcUnread
<1>8. ASSUME NEW d \in Callers, NEW t \in Serials, Past(d, t) PROVE Past(d, t)'
  <2>1. Unread(d, t) /\ t \notin In(to_caller[d]) /\ \A m \in Present : ~(m.from = d /\ m.serial = t)
    BY <1>8 DEF Past
  <2> QED
    BY <1>2, <1>3, <1>5, <2>1 DEF Past
<1>9. ASSUME NEW d \in Callers, NEW x \in Serials, promise'[d][x] = "wrong answer"
      PROVE  \E t \in Serials : t < x /\ Past(d, t)'
  <2>1. CASE promise[d][x] = "wrong answer"
    BY <1>8, <2>1 DEF IpcUnread
  <2>2. CASE promise[d][x] # "wrong answer"
    <3>1. d = c /\ x = s /\ e = "wrong answer" /\ Read
      BY <1>9, <1>13, <2>2
    <3>2. /\ s = call[c].serial /\ s # Head(to_caller[c]) /\ Head(to_caller[c]) \in In(to_caller[c])
          /\ Head(to_caller[c]) \notin In(to_caller'[c])
      BY <3>1
    <3>3. PICK t \in Serials : t = Head(to_caller[c])
      BY <1>3, <3>2
    <3>4. t <= s /\ t # s /\ Unread(c, t) /\ \A m \in Present : ~(m.from = c /\ m.serial = t)
      BY <3>2, <3>3 DEF IpcUnread
    <3>5. t < s /\ Unread(c, t)'
      <4>1. t < s
        <5>1. t \in Nat /\ s \in Nat
          BY <1>1
        <5>2. t <= s /\ t # s
          BY <3>4
        <5> QED
          BY <5>1, <5>2, Below, Zenon
      <4>2. Unread(c, t)'
        BY <1>5, <3>1, <3>4
      <4> QED
        BY <4>1, <4>2
    <3>6. Past(c, t)'
      BY <1>2, <3>2, <3>3, <3>4, <3>5 DEF Past
    <3> QED
      BY <3>1, <3>5, <3>6
  <2> QED
    BY <2>1, <2>2
<1>10. \A m, n \in Present : m.from = n.from /\ m.serial = n.serial => m = n
  BY DEF IpcUnread
<1>11. IpcUnread'
  BY <1>2, <1>6, <1>7, <1>9, <1>10 DEF IpcUnread
<1> QED
  BY <1>4, <1>11

\* Nothing moves.
LEMMA PlacesStill ==
  ASSUME IpcTyped, IpcPlaces, IpcUnread, promise' = promise, to_server' = to_server,
         to_caller' = to_caller, server'.hold_queue = server.hold_queue,
         server'.handling = server.handling,
         \A d \in Callers : call'[d].serial = call[d].serial
  PROVE  IpcPlaces' /\ IpcUnread'
<1>1. Present' = Present /\ InSocket' = InSocket
  <2>1. InSocket' = InSocket
    BY DEF InSocket
  <2>2. In(server.hold_queue)' = In(server.hold_queue)
    BY DEF In
  <2> QED
    BY <2>1, <2>2 DEF Present
<1>2. IpcPlaces'
  BY <1>1 DEF IpcPlaces
<1>3. \A d, t : Unread(d, t)' = Unread(d, t)
  BY DEF Unread
<1>4. \A d, t : Past(d, t)' = Past(d, t)
  BY <1>1, <1>3 DEF Past
<1>5. \A m \in Present : m.from \in Callers
  BY PresentTyped DEF Msgs
<1>6. IpcUnread'
  BY <1>1, <1>3, <1>4, <1>5 DEF IpcUnread
<1> QED
  BY <1>2, <1>6

LEMMA CallerUnread ==
  ASSUME IpcControl, IpcPlaces, IpcUnread, NEW c \in Callers,
         \/ BlockedReplySync(c) \/ BlockedReplyAsync(c) \/ BlockedTimeout(c)
         \/ ClientReceive(c) \/ ClientReply(c) \/ ClientReceived(c)
         \/ \E s \in Serials : timer_expired(c, s)
  PROVE  IpcPlaces' /\ IpcUnread'
<1>1. /\ to_server' = to_server /\ server' = server
      /\ \A d \in Callers : call'[d].serial = call[d].serial
  <2>1. call \in [Callers -> CallRecords]
    BY DEF IpcControl, IpcTyped
  <2>2. CASE BlockedReplySync(c) \/ BlockedReplyAsync(c) \/ BlockedTimeout(c)
    <3>1. /\ to_server' = to_server /\ server' = server
          /\ call' = [call EXCEPT ![c].blocked = FALSE]
      BY <2>2 DEF BlockedReplySync, BlockedReplyAsync, BlockedReply, BlockedTimeout
    <3> QED
      BY <2>1, <3>1 DEF CallRecords
  <2>3. CASE ClientReceive(c) \/ ClientReceived(c)
    <3>1. /\ to_server' = to_server /\ server' = server
          /\ \E b \in BOOLEAN : call' = [call EXCEPT ![c].receiving = b]
      BY <2>3 DEF ClientReceive, ClientReceived
    <3> QED
      BY <2>1, <3>1 DEF CallRecords
  <2>4. CASE ClientReply(c) \/ \E s \in Serials : timer_expired(c, s)
    <3>1. /\ to_server' = to_server /\ server' = server
          /\ \E s : call' = [call EXCEPT ![c].contexts = @ \ {s}, ![c].timers = @ \ {s}]
      BY <2>4 DEF ClientReply, timer_expired
    <3> QED
      BY <2>1, <3>1 DEF CallRecords
  <2> QED
    BY <2>2, <2>3, <2>4
<1>2. /\ IpcTyped /\ AwaitedAt(c, call[c], promise[c])
  BY DEF IpcControl, IpcAwaited
<1>3. CASE ClientReceive(c) \/ ClientReceived(c)
  <2>1. promise' = promise /\ to_caller' = to_caller
    BY <1>3 DEF ClientReceive, ClientReceived
  <2> QED
    BY <1>1, <1>2, <2>1, PlacesStill
<1>4. CASE BlockedReplySync(c) \/ BlockedReplyAsync(c)
  <2>1. BlockedReply(c)
    BY <1>4 DEF BlockedReplySync, BlockedReplyAsync
  <2>2. PICK s \in Serials : s = call[c].serial /\ promise[c][s] = "sent"
    BY <1>2, <2>1 DEF BlockedReply, AwaitedAt
  <2>3. PICK e \in Promised!Ends : e = IF Head(to_caller[c]) = s THEN "answered" ELSE "wrong answer"
    BY DEF Promised!Ends
  <2>4. /\ to_caller[c] # <<>> /\ to_caller' = [to_caller EXCEPT ![c] = Tail(@)]
        /\ promise' = [promise EXCEPT ![c][s] = e]
    BY <2>1, <2>2, <2>3 DEF BlockedReply
  <2>5. /\ e = "answered" => s = Head(to_caller[c])
        /\ e = "wrong answer" => s = call[c].serial /\ s # Head(to_caller[c])
    BY <2>2, <2>3
  <2> QED
    BY <1>1, <2>2, <2>4, <2>5, AnswerUnread
<1>5. CASE BlockedTimeout(c) \/ \E s \in Serials : timer_expired(c, s)
  <2>1. PICK s \in Serials : /\ promise[c][s] = "sent" /\ to_caller' = to_caller
                             /\ promise' = [promise EXCEPT ![c][s] = "timed out"]
    <3>1. CASE BlockedTimeout(c)
      BY <1>2, <3>1 DEF BlockedTimeout, AwaitedAt
    <3>2. CASE \E s \in Serials : timer_expired(c, s)
      BY <1>2, <3>2 DEF timer_expired, AwaitedAt
    <3> QED
      BY <1>5, <3>1, <3>2
  <2>2. "timed out" \in Promised!Ends
    BY DEF Promised!Ends
  <2> QED
    BY <1>1, <2>1, <2>2, AnswerUnread
<1>6. CASE ClientReply(c)
  <2>1. PICK s \in Serials : s = Head(to_caller[c])
    BY <1>2, <1>6, ReplyTaken DEF ClientReply
  <2>2. PICK e \in Promised!Ends : e = "answered"
    BY DEF Promised!Ends
  <2>3. /\ to_caller[c] # <<>> /\ to_caller' = [to_caller EXCEPT ![c] = Tail(@)]
        /\ \/ promise' = promise
           \/ promise[c][s] = "sent" /\ promise' = [promise EXCEPT ![c][s] = e]
    BY <1>2, <1>6, <2>1, <2>2 DEF ClientReply, AwaitedAt
  <2>4. /\ e = "answered" => s = Head(to_caller[c])
        /\ e = "wrong answer" => s = call[c].serial /\ s # Head(to_caller[c])
    BY <2>1, <2>2
  <2>5. CASE promise' = promise
    BY <1>1, <2>3, <2>4, <2>5, AnswerUnread
  <2>6. CASE promise[c][s] = "sent" /\ promise' = [promise EXCEPT ![c][s] = e]
    BY <1>1, <2>3, <2>4, <2>6, AnswerUnread
  <2> QED
    BY <2>3, <2>5, <2>6
<1> QED
  BY <1>3, <1>4, <1>5, <1>6

\* One request more in the server's socket, or one less.
LEMMA SocketMore ==
  ASSUME IpcTyped, IpcPlaces, NEW c \in Callers, NEW m \in Msgs, m.from = c, m \notin InSocket,
         to_server' = [to_server EXCEPT ![c] = Append(@, m)]
  PROVE  /\ InSocket' = InSocket \union {m}
         /\ \A d \in Callers : (\A x \in In(to_server'[d]) : x.from = d) /\ Once(to_server'[d])
<1>1. PICK q \in Seq(Msgs) : q = to_server[c]
  BY DEF IpcTyped
<1>2. /\ to_server'[c] = Append(q, m)
      /\ \A d \in Callers : d # c => to_server'[d] = to_server[d]
  BY <1>1 DEF IpcTyped
<1>3. Once(q) /\ m \notin In(q) /\ \A x \in In(q) : x.from = c
  BY <1>1 DEF IpcPlaces, InSocket
<1>4. In(Append(q, m)) = In(q) \union {m} /\ Once(Append(q, m))
  BY <1>3, OneMore
<1>5. InSocket' = InSocket \union {m}
  <2>1. InSocket' = UNION {In(to_server'[d]) : d \in Callers}
    BY DEF InSocket
  <2>2. ASSUME NEW x \in InSocket' PROVE x \in InSocket \union {m}
    BY <1>1, <1>2, <1>4, <2>1, <2>2 DEF InSocket
  <2>3. ASSUME NEW x \in InSocket \union {m} PROVE x \in InSocket'
    <3>1. CASE x = m
      <4>1. m \in In(to_server'[c])
        BY <1>2, <1>4
      <4> QED
        BY <2>1, <3>1, <4>1
    <3>2. CASE x \in InSocket
      <4>1. PICK d \in Callers : x \in In(to_server[d])
        BY <3>2 DEF InSocket
      <4>2. x \in In(to_server'[d])
        BY <1>1, <1>2, <1>4, <4>1
      <4> QED
        BY <2>1, <4>2
    <3> QED
      BY <2>3, <3>1, <3>2
  <2> QED
    BY <2>2, <2>3
<1>6. ASSUME NEW d \in Callers PROVE (\A x \in In(to_server'[d]) : x.from = d) /\ Once(to_server'[d])
  <2>1. CASE d = c
    BY <1>2, <1>3, <1>4, <2>1
  <2>2. CASE d # c
    BY <1>2, <2>2 DEF IpcPlaces
  <2> QED
    BY <2>1, <2>2
<1> QED
  BY <1>5, <1>6

LEMMA SocketLess ==
  ASSUME IpcTyped, IpcPlaces, NEW c \in Callers, to_server[c] # <<>>,
         to_server' = [to_server EXCEPT ![c] = Tail(@)]
  PROVE  /\ InSocket' = InSocket \ {Head(to_server[c])} /\ Head(to_server[c]) \in InSocket
         /\ Head(to_server[c]) \in Msgs
         /\ \A d \in Callers : (\A x \in In(to_server'[d]) : x.from = d) /\ Once(to_server'[d])
<1>1. PICK q \in Seq(Msgs) : q = to_server[c]
  BY DEF IpcTyped
<1>2. /\ to_server'[c] = Tail(q)
      /\ \A d \in Callers : d # c => to_server'[d] = to_server[d]
  BY <1>1 DEF IpcTyped
<1>3. Once(q) /\ \A x \in In(q) : x.from = c
  BY <1>1 DEF IpcPlaces
<1>4. /\ In(q) = In(Tail(q)) \union {Head(q)} /\ Once(Tail(q)) /\ Head(q) \notin In(Tail(q))
      /\ Head(q) \in Msgs
  BY <1>1, <1>3, OneLess
<1>5. PICK m \in Msgs : m = Head(q)
  BY <1>4
<1>6. m \in In(q) /\ m.from = c
  BY <1>3, <1>4, <1>5
<1>7. InSocket' = InSocket \ {m} /\ m \in InSocket
  <2>1. InSocket' = UNION {In(to_server'[d]) : d \in Callers}
    BY DEF InSocket
  <2>2. ASSUME NEW x \in InSocket' PROVE x \in InSocket \ {m}
    <3>1. PICK d \in Callers : x \in In(to_server'[d])
      BY <2>1, <2>2
    <3>2. CASE d = c
      BY <1>1, <1>2, <1>4, <1>5, <3>1, <3>2 DEF InSocket
    <3>3. CASE d # c
      <4>1. x \in In(to_server[d])
        BY <1>2, <3>1, <3>3
      <4>2. x.from = d
        BY <4>1 DEF IpcPlaces
      <4> QED
        BY <1>6, <3>3, <4>1, <4>2 DEF InSocket
    <3> QED
      BY <3>2, <3>3
  <2>3. ASSUME NEW x \in InSocket \ {m} PROVE x \in InSocket'
    <3>1. PICK d \in Callers : x \in In(to_server[d])
      BY <2>3 DEF InSocket
    <3>2. x \in In(to_server'[d])
      BY <1>1, <1>2, <1>4, <1>5, <2>3, <3>1
    <3> QED
      BY <2>1, <3>2
  <2>4. m \in InSocket
    BY <1>1, <1>6 DEF InSocket
  <2> QED
    BY <2>2, <2>3, <2>4
<1>8. ASSUME NEW d \in Callers PROVE (\A x \in In(to_server'[d]) : x.from = d) /\ Once(to_server'[d])
  <2>1. CASE d = c
    BY <1>2, <1>3, <1>4, <2>1
  <2>2. CASE d # c
    BY <1>2, <2>2 DEF IpcPlaces
  <2> QED
    BY <2>1, <2>2
<1> QED
  BY <1>1, <1>5, <1>7, <1>8

\* A request goes out: it is new to every place.
LEMMA SendUnread ==
  ASSUME IpcControl, IpcPlaces, IpcUnread, NEW c \in Callers, NEW timed \in BOOLEAN,
         SendRecv(c, timed) \/ AsyncRequest(c, timed) \/ Broadcast(c)
  PROVE  IpcPlaces' /\ IpcUnread'
<1>1. /\ IpcTyped /\ call \in [Callers -> CallRecords] /\ AwaitedAt(c, call[c], promise[c])
      /\ promise \in [Callers -> [Serials -> CallerEnds]] /\ Serials \subseteq Nat
      /\ Present \subseteq Msgs /\ server \in Servers /\ call[c].serial \in Nat
  BY PresentTyped, SerialsAreNumbers, IpcAssumption
     DEF IpcControl, IpcTyped, IpcAwaited, AwaitedAt, Callers
<1>2. Free(c) /\ call[c].serial < MaxSerial[c] /\ to_caller' = to_caller
  BY DEF SendRecv, AsyncRequest, Broadcast
<1>3. PICK kind \in Kinds :
        /\ send_msg(c, kind)
        /\ \/ promise' = promise /\ kind = "broadcast"
           \/ promise' = [promise EXCEPT ![c][call[c].serial + 1] = "sent"]
  BY DEF SendRecv, AsyncRequest, Broadcast, Kinds
<1>4. call[c].serial + 1 \in Serials
      /\ [from |-> c, serial |-> call[c].serial + 1, kind |-> kind] \in Msgs
  BY <1>2, <1>3, SendControls
<1>5. PICK n \in Serials : n = call[c].serial + 1
  BY <1>4
<1>6. PICK m \in Msgs : m = [from |-> c, serial |-> n, kind |-> kind]
  BY <1>4, <1>5
<1>7. m.from = c /\ m.serial = n /\ m.kind = kind
  BY <1>6
<1>9. call'[c].serial = n
  <2>2. CASE SendRecv(c, timed)
    BY <1>1, <1>5, <2>2 DEF SendRecv, CallRecords
  <2>3. CASE AsyncRequest(c, timed)
    BY <1>1, <1>5, <2>3 DEF AsyncRequest, CallRecords
  <2>4. CASE Broadcast(c)
    BY <1>1, <1>5, <2>4 DEF Broadcast, CallRecords
  <2> QED
    BY <2>2, <2>3, <2>4
<1>8. \A d \in Callers : /\ call[d].serial \in Nat /\ call'[d].serial \in Nat
                         /\ call'[d].serial >= call[d].serial
  <2>1. ASSUME NEW d \in Callers PROVE call[d].serial \in Nat
    <3>1. call[d] \in CallRecords
      BY <1>1
    <3>2. call[d].serial \in {0} \union Serials
      BY <3>1 DEF CallRecords
    <3>3. {0} \union Serials \subseteq Nat
      BY <1>1
    <3> QED
      BY <3>2, <3>3
  <2>2. ASSUME NEW d \in Callers, d # c PROVE call'[d] = call[d]
    BY <1>1, <2>2 DEF SendRecv, AsyncRequest, Broadcast
  <2>3. call'[c].serial \in Nat /\ call'[c].serial >= call[c].serial
    BY <1>1, <1>5, <1>9
  <2> QED
    BY <2>1, <2>2, <2>3
<1>10. n \in Nat /\ n > call[c].serial /\ promise[c][n] = "none"
  <2>1. n \in Nat /\ n > call[c].serial
    BY <1>1, <1>5
  <2> QED
    BY <1>1, <2>1 DEF AwaitedAt
<1>11. \A x \in Present : ~(x.from = c /\ x.serial = n)
  <2>1. SUFFICES ASSUME NEW x \in Present, x.from = c, x.serial = n PROVE FALSE
    OBVIOUS
  <2>2. n <= call[c].serial
    BY <2>1 DEF IpcUnread
  <2> QED
    BY <1>1, <1>10, <2>2
<1>12. n \notin In(to_caller[c])
  <2>1. SUFFICES ASSUME n \in In(to_caller[c]) PROVE FALSE
    OBVIOUS
  <2>2. n <= call[c].serial
    BY <2>1 DEF IpcUnread
  <2> QED
    BY <1>1, <1>10, <2>2
<1>13. /\ m \notin Present
       /\ to_server' = [to_server EXCEPT ![c] = Append(@, m)]
       /\ server'.hold_queue = server.hold_queue /\ server'.handling = server.handling
  BY <1>1, <1>3, <1>5, <1>6, <1>7, <1>11 DEF send_msg, Servers
<1>14. /\ InSocket' = InSocket \union {m}
       /\ \A d \in Callers : (\A x \in In(to_server'[d]) : x.from = d) /\ Once(to_server'[d])
  BY <1>1, <1>7, <1>13, SocketMore DEF Present
<1>15. Present' = Present \union {m} /\ In(server.hold_queue)' = In(server.hold_queue)
  <2>1. In(server.hold_queue)' = In(server.hold_queue)
    BY <1>13 DEF In
  <2> QED
    BY <1>13, <1>14, <2>1 DEF Present
<1>16. IpcPlaces'
  <2>1. m \notin In(server.hold_queue) /\ m \notin server.handling
    BY <1>13 DEF Present
  <2>2. Once(server'.hold_queue)
    BY <1>13 DEF IpcPlaces
  <2>3. \A d \in Callers : Once(to_caller'[d])
    BY <1>2 DEF IpcPlaces
  <2>4. /\ InSocket' \intersect In(server.hold_queue) = {}
        /\ InSocket' \intersect server.handling = {}
        /\ In(server.hold_queue) \intersect server.handling = {}
    BY <1>14, <2>1 DEF IpcPlaces
  <2> QED
    BY <1>13, <1>14, <1>15, <2>2, <2>3, <2>4 DEF IpcPlaces
<1>17. /\ \A d \in Callers, t \in Serials : ~(d = c /\ t = n) => promise'[d][t] = promise[d][t]
       /\ kind # "broadcast" => promise'[c][n] = "sent"
       /\ promise'[c][n] # "wrong answer"
  BY <1>1, <1>3, <1>5, <1>10
<1>18. /\ \A d \in Callers, t \in Serials : Unread(d, t) => Unread(d, t)' /\ ~(d = c /\ t = n)
       /\ kind # "broadcast" => Unread(c, n)'
  BY <1>10, <1>17 DEF Unread
<1>19. ASSUME NEW d \in Callers, NEW t \in Serials, Past(d, t) PROVE Past(d, t)'
  <2>1. Unread(d, t)' /\ ~(d = c /\ t = n)
    BY <1>18, <1>19 DEF Past
  <2>2. t \notin In(to_caller'[d])
    BY <1>2, <1>19 DEF Past
  <2>3. \A x \in Present \union {m} : ~(x.from = d /\ x.serial = t)
    BY <1>7, <1>19, <2>1 DEF Past
  <2> QED
    BY <1>15, <2>1, <2>2, <2>3 DEF Past
<1>20. \A x, y \in Present' : x.from = y.from /\ x.serial = y.serial => x = y
  BY <1>7, <1>11, <1>15 DEF IpcUnread
<1>21. ASSUME NEW x \in Present'
       PROVE  /\ x.serial \notin In(to_caller'[x.from]) /\ x.serial <= call'[x.from].serial
              /\ x.kind # "broadcast" => Unread(x.from, x.serial)'
  <2>1. CASE x = m
    BY <1>2, <1>7, <1>9, <1>10, <1>12, <1>18, <2>1
  <2>2. CASE x # m
    <3>1. x \in Present /\ x.from \in Callers /\ x.serial \in Serials /\ x.serial \in Nat
      BY <1>1, <1>15, <2>2 DEF Msgs
    <3>2. x.serial <= call[x.from].serial /\ x.serial \notin In(to_caller[x.from])
      BY <3>1 DEF IpcUnread
    <3>3. call[x.from].serial \in Nat /\ call'[x.from].serial \in Nat
      BY <1>8, <3>1
    <3>4. x.serial <= call'[x.from].serial
      BY <1>8, <3>1, <3>2, <3>3
    <3>5. x.kind # "broadcast" => Unread(x.from, x.serial)'
      BY <1>18, <3>1 DEF IpcUnread
    <3> QED
      BY <1>2, <3>2, <3>4, <3>5
  <2> QED
    BY <2>1, <2>2
<1>22. ASSUME NEW d \in Callers, NEW t \in In(to_caller'[d])
       PROVE  t <= call'[d].serial /\ Unread(d, t)'
  <2>1. t \in In(to_caller[d]) /\ to_caller[d] \in Seq(Serials)
    BY <1>1, <1>2, <1>22 DEF IpcTyped
  <2>2. t \in Serials /\ t \in Nat
    BY <1>1, <2>1, InSeq
  <2>3. t <= call[d].serial /\ Unread(d, t)
    BY <2>1 DEF IpcUnread
  <2>4. call[d].serial \in Nat /\ call'[d].serial \in Nat
    BY <1>8
  <2>5. t <= call'[d].serial
    BY <1>8, <2>2, <2>3, <2>4
  <2> QED
    BY <1>18, <2>2, <2>3, <2>5
<1>23. ASSUME NEW d \in Callers, NEW x \in Serials, promise'[d][x] = "wrong answer"
       PROVE  \E t \in Serials : t < x /\ Past(d, t)'
  <2>1. promise[d][x] = "wrong answer"
    BY <1>17, <1>23
  <2> QED
    BY <1>19, <2>1 DEF IpcUnread
<1>24. IpcUnread'
  BY <1>20, <1>21, <1>22, <1>23 DEF IpcUnread
<1> QED
  BY <1>16, <1>24

\* A request goes from place to place, or its reply takes its place.
LEMMA MoveUnread ==
  ASSUME IpcControl, IpcPlaces, IpcUnread, UNCHANGED call, UNCHANGED promise, NEW m \in Present,
         Present' \subseteq Present,
         \/ to_caller' = to_caller
         \/ /\ m.kind # "broadcast" /\ m \notin Present'
            /\ to_caller' = [to_caller EXCEPT ![m.from] = Append(@, m.serial)]
  PROVE  IpcUnread' /\ \A d \in Callers : Once(to_caller'[d])
<1>1. /\ IpcTyped /\ Present \subseteq Msgs /\ to_caller \in [Callers -> Seq(Serials)]
      /\ m.from \in Callers /\ m.serial \in Serials
  BY PresentTyped DEF IpcControl, IpcTyped, Msgs
<1>2. /\ \A d, t : Unread(d, t)' = Unread(d, t)
  BY DEF Unread
<1>3. /\ \A d \in Callers : Once(to_caller'[d])
      /\ \A d \in Callers, t \in Serials : t \in In(to_caller'[d]) =>
           \/ t \in In(to_caller[d])
           \/ d = m.from /\ t = m.serial /\ m.kind # "broadcast" /\ m \notin Present'
  <2>1. CASE to_caller' = to_caller
    BY <2>1 DEF IpcPlaces
  <2>2. CASE /\ m.kind # "broadcast" /\ m \notin Present'
             /\ to_caller' = [to_caller EXCEPT ![m.from] = Append(@, m.serial)]
    <3>1. PICK q \in Seq(Serials) : q = to_caller[m.from]
      BY <1>1
    <3>2. Once(q) /\ m.serial \notin In(q)
      BY <1>1, <3>1 DEF IpcPlaces, IpcUnread
    <3>3. In(Append(q, m.serial)) = In(q) \union {m.serial} /\ Once(Append(q, m.serial))
      BY <1>1, <3>2, OneMore
    <3>4. /\ to_caller'[m.from] = Append(q, m.serial)
          /\ \A d \in Callers : d # m.from => to_caller'[d] = to_caller[d]
      BY <1>1, <2>2, <3>1
    <3>5. ASSUME NEW d \in Callers PROVE Once(to_caller'[d])
      <4>1. CASE d = m.from
        BY <3>3, <3>4, <4>1
      <4>2. CASE d # m.from
        BY <3>4, <4>2 DEF IpcPlaces
      <4> QED
        BY <4>1, <4>2
    <3>6. ASSUME NEW d \in Callers, NEW t \in Serials, t \in In(to_caller'[d])
          PROVE  t \in In(to_caller[d]) \/ (d = m.from /\ t = m.serial)
      <4>1. CASE d = m.from
        <5>1. t \in In(q) \union {m.serial}
          BY <3>3, <3>4, <3>6, <4>1
        <5> QED
          BY <3>1, <4>1, <5>1
      <4>2. CASE d # m.from
        BY <3>4, <3>6, <4>2
      <4> QED
        BY <4>1, <4>2
    <3> QED
      BY <2>2, <3>5, <3>6
  <2> QED
    BY <2>1, <2>2
<1>4. /\ \A d \in Callers : to_caller'[d] \in Seq(Serials)
  <2>1. Append(to_caller[m.from], m.serial) \in Seq(Serials)
    BY <1>1, OneMore
  <2> QED
    BY <1>1, <2>1
<1>5. \A x, y \in Present' : x.from = y.from /\ x.serial = y.serial => x = y
  BY DEF IpcUnread
<1>6. ASSUME NEW x \in Present'
      PROVE  /\ x.serial \notin In(to_caller'[x.from]) /\ x.serial <= call'[x.from].serial
             /\ x.kind # "broadcast" => Unread(x.from, x.serial)'
  <2>1. x \in Present /\ x.from \in Callers /\ x.serial \in Serials
    BY <1>1, <1>6 DEF Msgs
  <2>2. /\ x.serial \notin In(to_caller[x.from]) /\ x.serial <= call[x.from].serial
        /\ x.kind # "broadcast" => Unread(x.from, x.serial)
    BY <2>1 DEF IpcUnread
  <2>3. ~(x.from = m.from /\ x.serial = m.serial /\ m \notin Present')
    BY <1>6, <2>1 DEF IpcUnread
  <2>4. x.serial \notin In(to_caller'[x.from])
    BY <1>3, <2>1, <2>2, <2>3
  <2> QED
    BY <1>2, <2>2, <2>4
<1>7. ASSUME NEW d \in Callers, NEW t \in In(to_caller'[d])
      PROVE  t <= call'[d].serial /\ Unread(d, t)'
  <2>1. t \in Serials
    BY <1>4, InSeq
  <2>2. CASE t \in In(to_caller[d])
    BY <1>2, <2>2 DEF IpcUnread
  <2>3. CASE d = m.from /\ t = m.serial /\ m.kind # "broadcast"
    BY <1>2, <2>3 DEF IpcUnread
  <2> QED
    BY <1>3, <1>7, <2>1, <2>2, <2>3
<1>8. ASSUME NEW d \in Callers, NEW t \in Serials, Past(d, t) PROVE Past(d, t)'
  <2>1. /\ Unread(d, t) /\ t \notin In(to_caller[d])
        /\ \A x \in Present : ~(x.from = d /\ x.serial = t)
    BY <1>8 DEF Past
  <2>2. t \notin In(to_caller'[d])
    BY <1>3, <2>1
  <2> QED
    BY <1>2, <2>1, <2>2 DEF Past
<1>9. \A d \in Callers, x \in Serials : promise'[d][x] = "wrong answer" =>
        \E t \in Serials : t < x /\ Past(d, t)'
  BY <1>8 DEF IpcUnread
<1>10. IpcUnread'
  BY <1>5, <1>6, <1>7, <1>9 DEF IpcUnread
<1> QED
  BY <1>3, <1>10

LEMMA ServerUnread ==
  ASSUME IpcControl, IpcPlaces, IpcUnread,
         \/ ServerReceive \/ ServerReceived \/ eventfd_receive
         \/ \E c \in Callers : ServerMessage(c)
         \/ \E m \in server.handling : FinishLater(m)
  PROVE  IpcPlaces' /\ IpcUnread'
<1>1. /\ IpcTyped /\ server \in Servers /\ server.hold_queue \in Seq(Msgs)
      /\ server.handling \subseteq Msgs /\ Present \subseteq Msgs
      /\ Once(server.hold_queue)
      /\ InSocket \intersect In(server.hold_queue) = {}
      /\ InSocket \intersect server.handling = {}
      /\ In(server.hold_queue) \intersect server.handling = {}
      /\ \A d \in Callers : (\A x \in In(to_server[d]) : x.from = d) /\ Once(to_server[d])
  BY PresentTyped DEF IpcControl, IpcTyped, Servers, IpcPlaces
<1>2. UNCHANGED call /\ UNCHANGED promise
  BY DEF ServerReceive, ServerReceived, eventfd_receive, ServerMessage, FinishLater
<1>3. CASE ServerReceive \/ ServerReceived
  <2>1. /\ to_server' = to_server /\ to_caller' = to_caller
        /\ server'.hold_queue = server.hold_queue /\ server'.handling = server.handling
    <3>1. CASE ServerReceive
      BY <1>1, <3>1 DEF ServerReceive, Servers
    <3>2. CASE ServerReceived
      BY <1>1, <3>2 DEF ServerReceived, Servers
    <3> QED
      BY <1>3, <3>1, <3>2
  <2> QED
    BY <1>1, <1>2, <2>1, PlacesStill
<1>4. ASSUME NEW m \in Present, Present' \subseteq Present,
             \/ to_caller' = to_caller
             \/ /\ m.kind # "broadcast" /\ m \notin Present'
                /\ to_caller' = [to_caller EXCEPT ![m.from] = Append(@, m.serial)],
             Once(server'.hold_queue),
             InSocket' \intersect In(server'.hold_queue) = {},
             InSocket' \intersect server'.handling = {},
             In(server'.hold_queue) \intersect server'.handling = {},
             \A d \in Callers : (\A x \in In(to_server'[d]) : x.from = d) /\ Once(to_server'[d])
      PROVE  IpcPlaces' /\ IpcUnread'
  <2>1. IpcUnread' /\ \A d \in Callers : Once(to_caller'[d])
    BY <1>2, <1>4, MoveUnread
  <2>2. IpcPlaces'
    BY <1>4, <2>1 DEF IpcPlaces
  <2> QED
    BY <2>1, <2>2
<1>5. Present' = (InSocket' \union In(server'.hold_queue)) \union server'.handling
  BY DEF Present, In
<1>6. ASSUME NEW c \in Callers, ServerMessage(c) PROVE IpcPlaces' /\ IpcUnread'
  <2>1. to_server[c] # <<>> /\ to_server' = [to_server EXCEPT ![c] = Tail(@)]
    BY <1>6 DEF ServerMessage
  <2>2. PICK m : m = Head(to_server[c])
    OBVIOUS
  <2>3. /\ InSocket' = InSocket \ {m} /\ m \in InSocket /\ m \in Msgs
        /\ \A d \in Callers : (\A x \in In(to_server'[d]) : x.from = d) /\ Once(to_server'[d])
    BY <1>1, <2>1, <2>2, SocketLess
  <2>4. m \notin In(server.hold_queue) /\ m \notin server.handling /\ m \in Present
    BY <1>1, <2>3 DEF Present
  <2>5. PICK srv \in Servers : srv = [server EXCEPT !.fd = FALSE]
    BY <1>1 DEF Servers
  <2>6. srv.hold_queue = server.hold_queue /\ srv.handling = server.handling
    BY <1>1, <2>5 DEF Servers
  <2>7. \/ /\ server' = [srv EXCEPT !.hold_queue = Append(@, m)]
           /\ to_caller' = to_caller
        \/ deliver(srv, m)
    BY <1>6, <2>2, <2>5 DEF ServerMessage
  <2>8. CASE server' = [srv EXCEPT !.hold_queue = Append(@, m)] /\ to_caller' = to_caller
    <3>1. server'.hold_queue = Append(server.hold_queue, m) /\ server'.handling = server.handling
      BY <2>6, <2>8 DEF Servers
    <3>2. PICK q \in Seq(Msgs) : q = server.hold_queue
      BY <1>1
    <3>3. In(Append(q, m)) = In(q) \union {m} /\ Once(Append(q, m))
      BY <1>1, <2>3, <2>4, <3>2, OneMore
    <3>4. In(server'.hold_queue) = In(server.hold_queue) \union {m} /\ Once(server'.hold_queue)
      BY <3>1, <3>2, <3>3
    <3>5. Present' \subseteq Present
      BY <1>5, <2>3, <3>1, <3>4 DEF Present
    <3>6. /\ InSocket' \intersect In(server'.hold_queue) = {}
          /\ InSocket' \intersect server'.handling = {}
          /\ In(server'.hold_queue) \intersect server'.handling = {}
      BY <1>1, <2>3, <2>4, <3>1, <3>4
    <3> QED
      BY <1>4, <2>3, <2>4, <2>8, <3>4, <3>5, <3>6
  <2>9. CASE deliver(srv, m)
    <3>1. /\ server'.hold_queue = server.hold_queue
          /\ \/ server'.handling = server.handling \union {m} /\ to_caller' = to_caller
             \/ /\ server'.handling = server.handling \ {m}
                /\ \/ to_caller' = to_caller
                   \/ /\ m.kind # "broadcast"
                      /\ to_caller' = [to_caller EXCEPT ![m.from] = Append(@, m.serial)]
             \/ server'.handling = server.handling /\ to_caller' = to_caller
      BY <1>1, <2>3, <2>6, <2>9, DeliverEffect
    <3>2. In(server'.hold_queue) = In(server.hold_queue) /\ Once(server'.hold_queue)
      BY <1>1, <3>1
    <3>3. Present' \subseteq Present
      BY <1>5, <2>3, <3>1, <3>2 DEF Present
    <3>4. server'.handling = server.handling \ {m} => m \notin Present'
      BY <1>5, <2>3, <2>4, <3>2
    <3>5. /\ InSocket' \intersect In(server'.hold_queue) = {}
          /\ InSocket' \intersect server'.handling = {}
          /\ In(server'.hold_queue) \intersect server'.handling = {}
      BY <1>1, <2>3, <2>4, <3>1, <3>2
    <3>6. \/ to_caller' = to_caller
          \/ /\ m.kind # "broadcast" /\ m \notin Present'
             /\ to_caller' = [to_caller EXCEPT ![m.from] = Append(@, m.serial)]
      BY <3>1, <3>4
    <3> QED
      BY <1>4, <2>3, <2>4, <3>2, <3>3, <3>5, <3>6
  <2> QED
    BY <2>7, <2>8, <2>9
<1>7. CASE eventfd_receive
  <2>1. server.hold_queue # <<>> /\ to_server' = to_server
    BY <1>7 DEF eventfd_receive
  <2>2. PICK q \in Seq(Msgs) : q = server.hold_queue
    BY <1>1
  <2>3. PICK m \in Msgs : m = Head(q)
    BY <2>1, <2>2, OneLess
  <2>4. /\ In(q) = In(Tail(q)) \union {m} /\ Once(Tail(q)) /\ m \notin In(Tail(q))
        /\ Tail(q) \in Seq(Msgs)
    BY <1>1, <2>1, <2>2, <2>3, OneLess
  <2>5. PICK srv \in Servers : srv = [server EXCEPT !.eventfd = FALSE, !.hold_queue = Tail(@)]
    BY <1>1, <2>2, <2>4 DEF Servers
  <2>6. srv.hold_queue = Tail(q) /\ srv.handling = server.handling
    BY <1>1, <2>2, <2>5 DEF Servers
  <2>7. deliver(srv, m)
    BY <1>7, <2>2, <2>3, <2>5 DEF eventfd_receive
  <2>8. /\ server'.hold_queue = Tail(q)
        /\ \/ server'.handling = server.handling \union {m} /\ to_caller' = to_caller
           \/ /\ server'.handling = server.handling \ {m}
              /\ \/ to_caller' = to_caller
                 \/ /\ m.kind # "broadcast"
                    /\ to_caller' = [to_caller EXCEPT ![m.from] = Append(@, m.serial)]
           \/ server'.handling = server.handling /\ to_caller' = to_caller
    BY <1>1, <2>6, <2>7, DeliverEffect
  <2>9. /\ In(server'.hold_queue) = In(server.hold_queue) \ {m} /\ Once(server'.hold_queue)
        /\ m \in In(server.hold_queue)
    BY <2>2, <2>4, <2>8
  <2>10. InSocket' = InSocket
    BY <2>1 DEF InSocket
  <2>11. m \notin InSocket /\ m \notin server.handling /\ m \in Present
    BY <1>1, <2>9 DEF Present
  <2>12. Present' \subseteq Present
    BY <1>5, <2>8, <2>9, <2>10 DEF Present
  <2>13. server'.handling = server.handling \ {m} => m \notin Present'
    BY <1>5, <2>9, <2>10, <2>11
  <2>14. /\ InSocket' \intersect In(server'.hold_queue) = {}
         /\ InSocket' \intersect server'.handling = {}
         /\ In(server'.hold_queue) \intersect server'.handling = {}
    BY <1>1, <2>8, <2>9, <2>10, <2>11
  <2>15. \/ to_caller' = to_caller
         \/ /\ m.kind # "broadcast" /\ m \notin Present'
            /\ to_caller' = [to_caller EXCEPT ![m.from] = Append(@, m.serial)]
    BY <2>8, <2>13
  <2>16. \A d \in Callers : (\A x \in In(to_server'[d]) : x.from = d) /\ Once(to_server'[d])
    BY <1>1, <2>1
  <2> QED
    BY <1>4, <2>9, <2>11, <2>12, <2>14, <2>15, <2>16
<1>8. ASSUME NEW m \in server.handling, FinishLater(m) PROVE IpcPlaces' /\ IpcUnread'
  <2>1. to_server' = to_server /\ Finish(server, m) /\ m \in Msgs
    BY <1>1, <1>8 DEF FinishLater
  <2>2. PICK srv \in Servers : srv = server
    BY <1>1
  <2>3. PICK n \in Msgs : n = m
    BY <2>1
  <2>4. Finish(srv, n)
    BY <2>1, <2>2, <2>3
  <2>5. /\ server'.hold_queue = server.hold_queue /\ server'.handling = server.handling \ {n}
        /\ \/ to_caller' = to_caller
           \/ /\ n.kind # "broadcast"
              /\ to_caller' = [to_caller EXCEPT ![n.from] = Append(@, n.serial)]
    BY <1>1, <2>2, <2>4, FinishEffect
  <2>6. In(server'.hold_queue) = In(server.hold_queue) /\ Once(server'.hold_queue)
    BY <1>1, <2>5
  <2>7. InSocket' = InSocket
    BY <2>1 DEF InSocket
  <2>8. n \in server.handling /\ n \in Present /\ n \notin InSocket /\ n \notin In(server.hold_queue)
    BY <1>1, <1>8, <2>3 DEF Present
  <2>9. Present' \subseteq Present /\ n \notin Present'
    BY <1>5, <2>5, <2>6, <2>7, <2>8 DEF Present
  <2>10. /\ InSocket' \intersect In(server'.hold_queue) = {}
         /\ InSocket' \intersect server'.handling = {}
         /\ In(server'.hold_queue) \intersect server'.handling = {}
    BY <1>1, <2>5, <2>6, <2>7
  <2>11. \A d \in Callers : (\A x \in In(to_server'[d]) : x.from = d) /\ Once(to_server'[d])
    BY <1>1, <2>1
  <2> QED
    BY <1>4, <2>5, <2>6, <2>8, <2>9, <2>10, <2>11
<1> QED
  BY <1>3, <1>6, <1>7, <1>8

\* What is kept of the requests and replies under way.
IpcKept == IpcControl /\ IpcPlaces /\ IpcUnread

LEMMA IpcKeptStarts ==
  ASSUME IpcInit
  PROVE  IpcKept
<1>1. IpcControl
  BY IpcControlStarts
<1>2. /\ server.hold_queue = <<>> /\ server.handling = {}
      /\ \A c \in Callers : to_server[c] = <<>> /\ to_caller[c] = <<>>
      /\ \A c \in Callers, s \in Serials : promise[c][s] = "none"
  BY DEF IpcInit
<1>3. In(<<>>) = {} /\ Once(<<>>)
  BY DEF In, Once
<1>4. InSocket = {}
  BY <1>2, <1>3 DEF InSocket
<1>5. Present = {}
  BY <1>2, <1>3, <1>4 DEF Present
<1>6. IpcPlaces
  BY <1>2, <1>3, <1>4 DEF IpcPlaces
<1>7. IpcUnread
  BY <1>2, <1>3, <1>5 DEF IpcUnread
<1> QED
  BY <1>1, <1>6, <1>7 DEF IpcKept

LEMMA IpcKeptKept ==
  ASSUME IpcKept, [IpcNext]_ipcVars
  PROVE  IpcKept'
<1>1. IpcControl /\ IpcPlaces /\ IpcUnread
  BY DEF IpcKept
<1>2. IpcControl'
  BY <1>1, IpcControlKept
<1>3. CASE IpcNext
  <2>1. ASSUME NEW c \in Callers, NEW timed \in BOOLEAN,
               SendRecv(c, timed) \/ AsyncRequest(c, timed) \/ Broadcast(c)
        PROVE  IpcPlaces' /\ IpcUnread'
    BY <1>1, <2>1, SendUnread
  <2>2. ASSUME NEW c \in Callers,
               \/ BlockedReplySync(c) \/ BlockedReplyAsync(c) \/ BlockedTimeout(c)
               \/ ClientReceive(c) \/ ClientReply(c) \/ ClientReceived(c)
               \/ \E s \in Serials : timer_expired(c, s)
        PROVE  IpcPlaces' /\ IpcUnread'
    BY <1>1, <2>2, CallerUnread
  <2>3. ASSUME \/ ServerReceive \/ ServerReceived \/ eventfd_receive
               \/ \E c \in Callers : ServerMessage(c)
               \/ \E m \in server.handling : FinishLater(m)
        PROVE  IpcPlaces' /\ IpcUnread'
    BY <1>1, <2>3, ServerUnread
  <2>4. TRUE \in BOOLEAN /\ AsyncCallers \subseteq Callers
    BY DEF Callers
  <2>5. IpcPlaces' /\ IpcUnread'
    BY <1>3, <2>1, <2>2, <2>3, <2>4 DEF IpcNext
  <2> QED
    BY <1>2, <2>5 DEF IpcKept
<1>4. CASE UNCHANGED ipcVars
  <2>1. /\ promise' = promise /\ to_server' = to_server /\ to_caller' = to_caller
        /\ server' = server /\ call' = call
    BY <1>4 DEF ipcVars
  <2>2. IpcPlaces' /\ IpcUnread'
    BY <1>1, <2>1, PlacesStill DEF IpcControl
  <2> QED
    BY <1>2, <2>2 DEF IpcKept
<1> QED
  BY <1>3, <1>4

\* What IPC keeps, with any number of callers of either kind and of calls.
THEOREM IpcInvariant == IpcSpec => []IpcKept
<1>1. IpcInit => IpcKept
  BY IpcKeptStarts
<1>2. IpcKept /\ [IpcNext]_ipcVars => IpcKept'
  BY IpcKeptKept
<1> QED
  BY <1>1, <1>2, PTL DEF IpcSpec

\* The type invariant, timers of forgotten contexts included.
THEOREM IpcTypeCorrect == IpcSpec => []IpcTypeOK
<1>1. IpcKept => IpcTypeOK
  <2> SUFFICES ASSUME IpcKept PROVE IpcTypeOK
    OBVIOUS
  <2>1. IpcTyped /\ \A c \in Callers : call[c].timers \subseteq call[c].contexts
    BY DEF IpcKept, IpcControl, IpcAwaited, AwaitedAt
  <2> QED
    BY <2>1 DEF IpcTyped, IpcTypeOK, CallRecords, CallerEnds, Servers
<1> QED
  BY <1>1, IpcInvariant, PTL

\* No message is stranded in a socket whose owner sleeps, nor held back with
\* nothing in flight and nothing to announce it, but behind a held message that
\* nobody handled; with drip feeding one message is handled at a time (receive,
\* deserialize_, hold_queue_ of ipc.cc).
THEOREM NothingIsForgotten == IpcSpec => []NothingForgotten
<1>1. IpcKept => NothingForgotten
  <2> SUFFICES ASSUME IpcKept PROVE NothingForgotten
    OBVIOUS
  <2>1. NothingStranded /\ IpcHeld
    BY DEF IpcKept, IpcControl
  <2>2. server.serializing => Cardinality(server.handling) <= 1
    <3>1. CASE server.handling = {}
      BY <3>1, FS_EmptySet
    <3>2. ASSUME NEW m \in Msgs, server.handling = {m} PROVE Cardinality(server.handling) <= 1
      <4>1. Cardinality({m}) = 1
        BY FS_Singleton
      <4> QED
        BY <3>2, <4>1
    <3> QED
      BY <2>1, <3>1, <3>2 DEF IpcHeld
  <2> QED
    BY <2>1, <2>2 DEF NothingForgotten, HeldIsDelivered, IpcHeld
<1> QED
  BY <1>1, IpcInvariant, PTL

\* A blocked call gets the reply to its own request, unless an earlier request
\* of its thread was left unread (send_recv of zmq_ipc.cc).
THEOREM RepliesFindTheirCalls == IpcSpec => []OwnReply
<1>1. IpcKept => OwnReply
  <2> SUFFICES ASSUME IpcKept, NEW c \in Callers, NEW s \in Serials, promise[c][s] = "wrong answer"
               PROVE  \E t \in 1 .. s - 1 : promise[c][t] \in {"sent", "timed out", "wrong answer"}
                                              \/ t \in call[c].contexts
    BY DEF OwnReply
  <2>1. PICK t \in Serials : t < s /\ Past(c, t)
    BY DEF IpcKept, IpcUnread
  <2>2. \A x, y \in Serials : x < y => x \in 1 .. y - 1
    BY EarlierSerials
  <2>3. t \in 1 .. s - 1
    BY <2>1, <2>2
  <2> QED
    BY <2>1, <2>3 DEF Past, Unread
<1> QED
  BY <1>1, IpcInvariant, PTL

\* Ipc implements Requests: a caller is told once how each of its requests ended
\* (client_receive, timer_expired, send_recv).
THEOREM CallersAreToldOnce == IpcSpec => IpcPromise
<1>1. IpcInit => IpcControl /\ Promised!Init
  BY IpcControlStarts
<1>2. IpcControl /\ [IpcNext]_ipcVars => IpcControl' /\ [Promised!Next]_promise
  BY IpcControlKept
<1> QED
  BY <1>1, <1>2, PTL DEF IpcSpec, IpcPromise, Promised!Spec
=============================================================================
