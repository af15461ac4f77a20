--------------------------- MODULE GpuWatchProofs ----------------------------
(***************************************************************************)
(* What the watcher promises its subscribers, for any number of them, of   *)
(* watches and of GPUs, and what it samples for them.                      *)
(*                                                                         *)
(* Freed contexts may stay behind in a client_set here, so the argument    *)
(* cannot be that the watcher forgets a context before it is freed.  It is *)
(* that whoever the watcher knows of has registered and has not been       *)
(* refused, and that only those whose write failed get on the lists from   *)
(* which threads are woken up (WatchAgrees).  Contexts are forgotten in    *)
(* time when calls ask for one watch each (OnlyAsked), and the subscribers *)
(* of a watch are counted right while no watch is deleted (CountInv).      *)
(***************************************************************************)
EXTENDS GpuWatch, WatchSample, ObjectStoreProofs, SequenceTheorems, FiniteSetTheorems, TLAPS

-----------------------------------------------------------------------------

\* Where a thread can be once its call is registered.
AfterRegister == {"count", "test", "wait", "waiting", "leave", "returned"}

Known(c) == (\E k \in Keys : c \in client_set[k]) \/ c \in to_write
Retired(c) == (\E k \in Keys : <<k, c>> \in inactive) \/ c \in to_signal

\* What the watcher knows of c against what c's thread is doing.
WatchAgrees(c) ==
    /\ Known(c) \/ Retired(c) => /\ pc[c] \in AfterRegister
                                 /\ pc[c] = "returned" => client_inactive[c]
    /\ Retired(c) => ~connected[c]
    /\ client_inactive[c] => ~connected[c] /\ pc[c] \in AfterRegister
    /\ pc[c] = "leave" => client_inactive[c]

\* The inductive invariant: that of the store comes with it.
WatchInv == TypeOK /\ StoreInv /\ \A c \in Clients : WatchAgrees(c)

\* The variables the agreement is about.
agreeVars == <<pc, connected, client_inactive, client_set, to_write, inactive, to_signal>>

LEMMA AgreementStands ==
  ASSUME WatchInv, UNCHANGED agreeVars
  PROVE  \A c \in Clients : WatchAgrees(c)'
BY DEF WatchInv, WatchAgrees, Known, Retired, agreeVars

\* How often a request names each watch is a number.
LEMMA TimesType ==
  ASSUME TypeOK, NEW c \in Clients
  PROVE  Times(c) \in [WatchKeys -> Nat]
<1>1. ids[c] \in Seq(WatchKeys)
  <2>1. ids[c] \in Requests \union {<<>>}
    BY DEF TypeOK
  <2>2. <<>> \in Seq(WatchKeys)
    OBVIOUS
  <2> QED
    BY <2>1, <2>2, SubscribeAssumption
<1>2. IsFiniteSet(DOMAIN ids[c])
  <2>1. DOMAIN ids[c] = 1 .. Len(ids[c]) /\ Len(ids[c]) \in Nat
    BY <1>1
  <2>2. IsFiniteSet(1 .. Len(ids[c]))
    BY <2>1, FS_Interval
  <2> QED
    BY <2>1, <2>2
<1>3. ASSUME NEW w \in WatchKeys
      PROVE  Cardinality({i \in DOMAIN ids[c] : ids[c][i] = w}) \in Nat
  BY <1>2, FS_Subset, FS_CardinalityType
<1> QED
  BY <1>3 DEF Times

-----------------------------------------------------------------------------
(* The gRPC threads and the clients.                                       *)

LEMMA WatchStartPreserves ==
  ASSUME WatchInv, NEW c \in Clients, SubscribeStart(c)
  PROVE  WatchInv'
<1>1. PICK req \in Requests : /\ ids' = [ids EXCEPT ![c] = req]
                              /\ unchecked' = [unchecked EXCEPT ![c] = Len(req)]
  BY DEF SubscribeStart
<1>2. /\ pc[c] = "start" /\ pc' = [pc EXCEPT ![c] = "checking"]
      /\ connected' = [connected EXCEPT ![c] = TRUE]
      /\ UNCHANGED <<storeVars, ctxt, tickVars, subscrVars, client_inactive, agent>>
  BY DEF SubscribeStart
<1>3. Len(req) \in Nat
  BY SubscribeAssumption
<1>4. StoreInv'
  BY <1>2, UnchangedPreserves DEF WatchInv
<1>5. TypeOK'
  BY <1>1, <1>2, <1>3, <1>4 DEF WatchInv, TypeOK, StoreInv, tickVars, subscrVars, Points
<1>6. ASSUME NEW d \in Clients PROVE WatchAgrees(d)'
  BY <1>2 DEF WatchInv, TypeOK, WatchAgrees, Known, Retired, AfterRegister, tickVars, subscrVars
<1> QED
  BY <1>4, <1>5, <1>6 DEF WatchInv

LEMMA WatchCheckPreserves ==
  ASSUME WatchInv, NEW c \in Clients, SubscribeCheck(c)
  PROVE  WatchInv'
<1>1. PICK p \in {"checking", "register", "returned"} :
        /\ pc[c] = "checking" /\ pc' = [pc EXCEPT ![c] = p]
        /\ unchecked' \in [Clients -> Nat]
        /\ ctxt' \in [Clients -> {"none", "live", "freed"}]
  <2>1. unchecked \in [Clients -> Nat] /\ ctxt \in [Clients -> {"none", "live", "freed"}]
        /\ pc \in [Clients -> Points]
    BY DEF WatchInv, TypeOK
  <2>2. CASE pc' = [pc EXCEPT ![c] = "returned"] /\ UNCHANGED <<unchecked, ctxt>>
    BY <2>1, <2>2 DEF SubscribeCheck
  <2>3. CASE unchecked[c] > 1 /\ unchecked' = [unchecked EXCEPT ![c] = @ - 1]
             /\ UNCHANGED <<pc, ctxt>>
    <3>1. pc[c] = "checking" /\ pc' = [pc EXCEPT ![c] = "checking"]
      BY <2>1, <2>3 DEF SubscribeCheck
    <3>2. unchecked' \in [Clients -> Nat]
      BY <2>1, <2>3
    <3> QED
      BY <2>1, <2>3, <3>1, <3>2
  <2>4. CASE /\ pc' = [pc EXCEPT ![c] = "register"]
             /\ unchecked' = [unchecked EXCEPT ![c] = 0]
             /\ ctxt' = [ctxt EXCEPT ![c] = "live"]
    <3>1. unchecked' \in [Clients -> Nat] /\ ctxt' \in [Clients -> {"none", "live", "freed"}]
      BY <2>1, <2>4
    <3> QED
      BY <2>4, <3>1 DEF SubscribeCheck
  <2> QED
    BY <2>2, <2>3, <2>4 DEF SubscribeCheck
<1>2. UNCHANGED <<storeVars, ids, tickVars, subscrVars, connected, client_inactive, agent>>
  BY DEF SubscribeCheck
<1>3. StoreInv'
  BY <1>2, UnchangedPreserves DEF WatchInv
<1>4. TypeOK'
  BY <1>1, <1>2, <1>3 DEF WatchInv, TypeOK, StoreInv, tickVars, subscrVars, Points
<1>5. ASSUME NEW d \in Clients PROVE WatchAgrees(d)'
  BY <1>1, <1>2 DEF WatchInv, TypeOK, WatchAgrees, Known, Retired, AfterRegister, tickVars,
                    subscrVars
<1> QED
  BY <1>3, <1>4, <1>5 DEF WatchInv

LEMMA WatchThreadPreserves ==
  ASSUME WatchInv, NEW c \in Clients,
         SubscribeTest(c) \/ SubscribeWait(c) \/ SpuriousWakeup(c) \/ SubscribeLeave(c)
  PROVE  WatchInv'
<1>1. UNCHANGED <<storeVars, ids, unchecked, tickVars, subscrVars, connected, client_inactive,
                  agent>>
  BY DEF SubscribeTest, SubscribeWait, SpuriousWakeup, SubscribeLeave
<1>2. StoreInv'
  BY <1>1, UnchangedPreserves DEF WatchInv
<1>3. TypeOK'
  BY <1>1, <1>2 DEF SubscribeTest, SubscribeWait, SpuriousWakeup, SubscribeLeave, WatchInv, TypeOK,
                    StoreInv, tickVars, subscrVars, Points
<1>4. ASSUME NEW d \in Clients PROVE WatchAgrees(d)'
  <2>1. WatchAgrees(d) /\ pc \in [Clients -> Points]
    BY DEF WatchInv, TypeOK
  <2>2. CASE SubscribeTest(c)
    BY <1>1, <2>1, <2>2 DEF SubscribeTest, WatchAgrees, Known, Retired, AfterRegister, tickVars,
                            subscrVars
  <2>3. CASE SubscribeWait(c) \/ SpuriousWakeup(c)
    BY <1>1, <2>1, <2>3 DEF SubscribeWait, SpuriousWakeup, WatchAgrees, Known, Retired,
                            AfterRegister, tickVars, subscrVars
  <2>4. CASE SubscribeLeave(c)
    BY <1>1, <2>1, <2>4 DEF SubscribeLeave, WatchAgrees, Known, Retired, AfterRegister, tickVars,
                            subscrVars
  <2> QED
    BY <2>2, <2>3, <2>4
<1> QED
  BY <1>2, <1>3, <1>4 DEF WatchInv

LEMMA WatchDisconnectPreserves ==
  ASSUME WatchInv, NEW c \in Clients, Disconnect(c)
  PROVE  WatchInv'
<1>1. StoreInv'
  BY UnchangedPreserves DEF Disconnect, WatchInv
<1>2. TypeOK'
  BY <1>1 DEF Disconnect, WatchInv, TypeOK, StoreInv, threadVars, tickVars, subscrVars
<1>3. ASSUME NEW d \in Clients PROVE WatchAgrees(d)'
  BY DEF Disconnect, WatchInv, TypeOK, WatchAgrees, Known, Retired, threadVars, tickVars, subscrVars
<1> QED
  BY <1>1, <1>2, <1>3 DEF WatchInv

\* The API thread counts the call, modulo the width of the count.
LEMMA WatchCountPreserves ==
  ASSUME WatchInv, NEW c \in Clients, SubscribeCount(c)
  PROVE  WatchInv'
<1>1. StoreInv'
  BY TimesType, SubscriberTaskPreserves DEF SubscribeCount, WatchInv
<1>2. TypeOK'
  BY <1>1 DEF SubscribeCount, WatchInv, TypeOK, StoreInv, tickVars, subscrVars, Points
<1>3. ASSUME NEW d \in Clients PROVE WatchAgrees(d)'
  BY DEF SubscribeCount, WatchInv, TypeOK, WatchAgrees, Known, Retired, AfterRegister, tickVars,
         subscrVars
<1> QED
  BY <1>1, <1>2, <1>3 DEF WatchInv

-----------------------------------------------------------------------------
(* The watcher thread.                                                     *)

LEMMA WatchRegisterPreserves ==
  ASSUME WatchInv, NEW c \in Clients, SubscribeRegister(c)
  PROVE  WatchInv'
<1>1. StoreInv'
  BY UnchangedPreserves DEF SubscribeRegister, WatchInv
<1>2. Asked(c) \subseteq WatchKeys
  <2>1. ids[c] \in Seq(WatchKeys) \/ ids[c] = <<>>
    BY SubscribeAssumption DEF WatchInv, TypeOK
  <2> QED
    BY <2>1 DEF Asked
<1>3. TypeOK'
  BY <1>1, <1>2 DEF SubscribeRegister, WatchInv, TypeOK, StoreInv, tickVars, Points, Keys
<1>4. ASSUME NEW d \in Clients PROVE WatchAgrees(d)'
  <2>1. d # c => (Known(d)' => Known(d))
    BY DEF SubscribeRegister, Known, tickVars
  <2>2. Retired(d)' <=> Retired(d)
    BY DEF SubscribeRegister, Retired, tickVars
  <2>3. /\ pc'[d] = IF d = c THEN "count" ELSE pc[d]
        /\ UNCHANGED <<connected, client_inactive>>
    BY DEF SubscribeRegister, WatchInv, TypeOK
  <2> QED
    BY <2>1, <2>2, <2>3 DEF WatchInv, WatchAgrees, AfterRegister
<1> QED
  BY <1>1, <1>3, <1>4 DEF WatchInv

LEMMA TickPreserves ==
  ASSUME WatchInv, Tick
  PROVE  WatchInv'
<1>1. StoreInv'
  BY UnchangedPreserves DEF Tick, WatchInv
<1>2. TypeOK'
  BY <1>1 DEF Tick, WatchInv, TypeOK, StoreInv, threadVars, subscrVars
<1>3. \A c \in Clients : WatchAgrees(c)'
  BY AgreementStands DEF Tick, agreeVars, threadVars, subscrVars
<1> QED
  BY <1>1, <1>2, <1>3 DEF WatchInv

LEMMA WatchReadPreserves ==
  ASSUME WatchInv, NEW k \in Keys, NotifyRead(k)
  PROVE  WatchInv'
<1>1. StoreInv'
  BY UnchangedPreserves DEF NotifyRead, WatchInv
<1>2. TypeOK'
  BY <1>1 DEF NotifyRead, WatchInv, TypeOK, StoreInv, threadVars, subscrVars, Keys
<1>3. ASSUME NEW d \in Clients PROVE WatchAgrees(d)'
  <2>1. Known(d)' => Known(d)
    BY DEF NotifyRead, Known, subscrVars
  <2> QED
    BY <2>1 DEF NotifyRead, WatchInv, WatchAgrees, Retired, threadVars
<1> QED
  BY <1>1, <1>2, <1>3 DEF WatchInv

\* Only a failed write puts a context on the list to retire.
LEMMA WatchWritePreserves ==
  ASSUME WatchInv, NEW c \in Clients, NotifyWrite(c)
  PROVE  WatchInv'
<1>1. StoreInv'
  BY UnchangedPreserves DEF NotifyWrite, WatchInv
<1>2. agent' \in {"ok", "undefined", "crashed"}
  BY DEF NotifyWrite, Touch, WatchInv, TypeOK
<1>3. TypeOK'
  BY <1>1, <1>2 DEF NotifyWrite, WatchInv, TypeOK, StoreInv, threadVars, subscrVars
<1>4. ASSUME NEW d \in Clients PROVE WatchAgrees(d)'
  <2>1. Known(d)' => Known(d)
    BY DEF NotifyWrite, Known, subscrVars
  <2>2. Retired(d)' => Retired(d) \/ (Known(d) /\ ~connected[d])
    BY DEF NotifyWrite, Retired, Known
  <2> QED
    BY <2>1, <2>2 DEF NotifyWrite, WatchInv, WatchAgrees, threadVars
<1> QED
  BY <1>1, <1>3, <1>4 DEF WatchInv

LEMMA WatchErasePreserves ==
  ASSUME WatchInv, NEW k \in Keys, NEW c \in Clients, CleanupErase(k, c)
  PROVE  WatchInv'
<1>1. StoreInv'
  BY SubscriberTaskPreserves DEF CleanupErase, WatchInv
<1>2. TypeOK'
  BY <1>1 DEF CleanupErase, WatchInv, TypeOK, StoreInv, threadVars
<1>3. ASSUME NEW d \in Clients PROVE WatchAgrees(d)'
  <2>1. Known(d)' => Known(d)
    BY DEF CleanupErase, Known, WatchInv, TypeOK
  <2>2. Retired(d)' => Retired(d)
    BY DEF CleanupErase, Retired
  <2> QED
    BY <2>1, <2>2 DEF CleanupErase, WatchInv, WatchAgrees, threadVars
<1> QED
  BY <1>1, <1>2, <1>3 DEF WatchInv

LEMMA WatchMarkPreserves ==
  ASSUME WatchInv, NEW c \in Clients, CleanupMark(c)
  PROVE  WatchInv' /\ ~connected[c] /\ pc[c] # "start" /\ (pc[c] = "returned" => client_inactive[c])
<1>1. /\ c \in to_signal /\ client_inactive' = [client_inactive EXCEPT ![c] = TRUE]
      /\ signalling' = {c}
      /\ UNCHANGED <<storeVars, threadVars, to_read, info_key, to_write, inactive,
                     to_signal, subscrVars, connected>>
      /\ agent' \in {"ok", "undefined", "crashed"}
  BY DEF CleanupMark, Touch, WatchInv, TypeOK
<1>2. /\ ~connected[c] /\ pc[c] \in AfterRegister
      /\ pc[c] = "returned" => client_inactive[c]
  BY <1>1 DEF WatchInv, WatchAgrees, Retired
<1>3. StoreInv'
  BY <1>1, UnchangedPreserves DEF WatchInv
<1>4. TypeOK'
  BY <1>1, <1>3 DEF WatchInv, TypeOK, StoreInv, threadVars, subscrVars
<1>5. ASSUME NEW d \in Clients PROVE WatchAgrees(d)'
  BY <1>1, <1>2 DEF WatchInv, TypeOK, WatchAgrees, Known, Retired, threadVars, subscrVars
<1> QED
  BY <1>2, <1>3, <1>4, <1>5 DEF WatchInv, AfterRegister

LEMMA WatchSignalPreserves ==
  ASSUME WatchInv, NEW c \in Clients, CleanupSignal(c)
  PROVE  WatchInv'
<1>1. /\ signalling' = {} /\ to_signal' = to_signal \ {c}
      /\ pc' = IF pc[c] = "waiting" THEN [pc EXCEPT ![c] = "test"] ELSE pc
      /\ UNCHANGED <<storeVars, ids, unchecked, ctxt, to_read, info_key, to_write,
                     inactive, subscrVars, connected, client_inactive>>
      /\ agent' \in {"ok", "undefined", "crashed"}
  BY DEF CleanupSignal, Touch, WatchInv, TypeOK
<1>2. StoreInv'
  BY <1>1, UnchangedPreserves DEF WatchInv
<1>3. TypeOK'
  BY <1>1, <1>2 DEF WatchInv, TypeOK, StoreInv, subscrVars, Points
<1>4. ASSUME NEW d \in Clients PROVE WatchAgrees(d)'
  BY <1>1 DEF WatchInv, TypeOK, WatchAgrees, Known, Retired, AfterRegister, subscrVars
<1> QED
  BY <1>2, <1>3, <1>4 DEF WatchInv

\* Watches come and go meanwhile.
LEMMA ConfigurePreserves ==
  ASSUME WatchInv, Configure
  PROVE  WatchInv'
<1>1. StoreInv'
  <2>1. ASSUME NEW w \in WatchKeys, GpuWatchCreate(w, GpuKeys) PROVE StoreInv'
    BY <2>1, GpuWatchCreatePreserves DEF WatchInv
  <2>2. ASSUME NEW w \in Deletable, GpuWatchDelete(w) PROVE StoreInv'
    BY <2>2, GpuWatchDeletePreserves, SubscribeAssumption DEF WatchInv
  <2> QED
    BY <2>1, <2>2 DEF Configure
<1>2. TypeOK'
  BY <1>1 DEF Configure, WatchInv, TypeOK, StoreInv, threadVars, tickVars, subscrVars
<1>3. \A c \in Clients : WatchAgrees(c)'
  BY AgreementStands DEF Configure, agreeVars, threadVars, tickVars, subscrVars
<1> QED
  BY <1>1, <1>2, <1>3 DEF WatchInv

-----------------------------------------------------------------------------
LEMMA WatchInitHolds == Init => WatchInv
<1> SUFFICES ASSUME Init PROVE WatchInv
  OBVIOUS
<1>1. StoreInv
  <2>1. StoreTypeOK
    BY StoreAssumption DEF Init, StoreTypeOK
  <2>2. WatchedGpuPresent /\ \A g \in gpu_db : WatchersOf(g) = {} /\ num_gpu_watch[g] = 0
    BY <2>1 DEF Init, WatchedGpuPresent, WatchersOf, StoreTypeOK
  <2>3. \A g \in gpu_db : Cardinality(WatchersOf(g)) = 0
    BY <2>2, FS_EmptySet
  <2> QED
    BY <2>1, <2>2, <2>3 DEF StoreInv, GpuWatchCountCovers
<1>2. TypeOK
  BY <1>1 DEF Init, TypeOK, StoreInv, Points, Keys
<1>3. ASSUME NEW c \in Clients PROVE WatchAgrees(c)
  BY <1>3 DEF Init, WatchAgrees, Known, Retired, AfterRegister
<1> QED
  BY <1>1, <1>2, <1>3 DEF WatchInv

LEMMA WatchStepPreserves ==
  ASSUME WatchInv, [Next]_vars
  PROVE  WatchInv'
<1>1. CASE UNCHANGED vars
  <2>1. StoreInv'
    BY <1>1, UnchangedPreserves DEF vars, WatchInv
  <2>2. TypeOK'
    BY <1>1, <2>1 DEF vars, threadVars, tickVars, subscrVars, WatchInv, TypeOK, StoreInv
  <2>3. \A c \in Clients : WatchAgrees(c)'
    BY <1>1, AgreementStands DEF vars, agreeVars, threadVars, tickVars, subscrVars
  <2> QED
    BY <2>1, <2>2, <2>3 DEF WatchInv
<1>2. ASSUME NEW c \in Clients,
             SubscribeStart(c) \/ Thread(c) \/ SpuriousWakeup(c) \/ Disconnect(c)
      PROVE  WatchInv'
  BY <1>2, WatchStartPreserves, WatchCheckPreserves, WatchRegisterPreserves, WatchCountPreserves,
     WatchThreadPreserves, WatchDisconnectPreserves DEF Thread
<1>3. CASE Watcher
  BY <1>3, TickPreserves, WatchReadPreserves, WatchWritePreserves, WatchErasePreserves,
     WatchMarkPreserves, WatchSignalPreserves DEF Watcher
<1>4. CASE Configure
  BY <1>4, ConfigurePreserves
<1> QED
  BY <1>1, <1>2, <1>3, <1>4 DEF Next

\* The invariant holds throughout.
THEOREM WatchInvariant == Spec => []WatchInv
BY WatchInitHolds, WatchStepPreserves, PTL DEF Spec

\* Types, those of the store's counters among them, hold however the watcher, the
\* API thread, the gRPC threads and the clients interleave.
THEOREM WatchTypeCorrect == Spec => []TypeOK
BY WatchInvariant, PTL DEF WatchInv

-----------------------------------------------------------------------------
(* The refinement.                                                         *)

\* The steps of one call, as Subscription sees them.
LEMMA WatchCallStep ==
  ASSUME NEW c \in Clients,
         \A d \in Clients \ {c} : CallOf(d)' = CallOf(d) /\ (d \in Gone' <=> d \in Gone),
         \/ CallOf(c)' = CallOf(c) /\ (c \in Gone' <=> c \in Gone)
         \/ CallOf(c) = "idle" /\ CallOf(c)' = "asked" /\ c \notin Gone /\ c \notin Gone'
         \/ CallOf(c) = "asked" /\ CallOf(c)' = "refused" /\ c \notin Gone'
         \/ CallOf(c) \in {"asked", "told"} /\ CallOf(c)' = CallOf(c) /\ c \in Gone'
         \/ CallOf(c) = "asked" /\ CallOf(c)' = "told" /\ c \in Gone /\ c \in Gone'
         \/ CallOf(c) = "told" /\ CallOf(c)' = "returned" /\ c \notin Gone'
  PROVE  \/ [d \in Clients |-> CallOf(d)]' = [d \in Clients |-> CallOf(d)] /\ Gone' = Gone
         \/ Promised!Next
<1> DEFINE call == [d \in Clients |-> CallOf(d)]
<1>1. \A status : CallOf(c)' = status => call' = [call EXCEPT ![c] = status]
  OBVIOUS
<1>2. Gone \subseteq Clients /\ Gone' \subseteq Clients
  BY DEF Gone
<1>3. call[c] = CallOf(c)
  OBVIOUS
<1>4. CASE CallOf(c)' = CallOf(c) /\ (c \in Gone' <=> c \in Gone)
  BY <1>2, <1>4
<1>5. CASE CallOf(c) = "idle" /\ CallOf(c)' = "asked" /\ c \notin Gone /\ c \notin Gone'
  <2>1. Gone' = Gone
    BY <1>2, <1>5
  <2>2. Promised!Ask(c)
    BY <1>1, <1>3, <1>5, <2>1 DEF Promised!Ask, Promised!To
  <2> QED
    BY <2>2 DEF Promised!Next
<1>6. CASE CallOf(c) = "asked" /\ CallOf(c)' = "refused" /\ c \notin Gone'
  <2>1. Gone' = Gone \ {c}
    BY <1>2, <1>6
  <2>2. Promised!Refuse(c)
    BY <1>1, <1>3, <1>6, <2>1 DEF Promised!Refuse, Promised!To
  <2> QED
    BY <2>2 DEF Promised!Next
<1>7. CASE CallOf(c) \in {"asked", "told"} /\ CallOf(c)' = CallOf(c) /\ c \in Gone'
  <2>1. Gone' = Gone \union {c} /\ call' = call
    BY <1>2, <1>7
  <2>2. Promised!Leave(c)
    BY <1>3, <1>7, <2>1 DEF Promised!Leave
  <2> QED
    BY <2>2 DEF Promised!Next
<1>8. CASE CallOf(c) = "asked" /\ CallOf(c)' = "told" /\ c \in Gone /\ c \in Gone'
  <2>1. Gone' = Gone
    BY <1>2, <1>8
  <2>2. Promised!Tell(c)
    BY <1>1, <1>3, <1>8, <2>1 DEF Promised!Tell, Promised!To
  <2> QED
    BY <2>2 DEF Promised!Next
<1>9. CASE CallOf(c) = "told" /\ CallOf(c)' = "returned" /\ c \notin Gone'
  <2>1. Gone' = Gone \ {c}
    BY <1>2, <1>9
  <2>2. Promised!Return(c)
    BY <1>1, <1>3, <1>9, <2>1 DEF Promised!Return, Promised!To
  <2> QED
    BY <2>2 DEF Promised!Next
<1> QED
  BY <1>4, <1>5, <1>6, <1>7, <1>8, <1>9

\* What a step of the code is to the call of the client it is about.
LEMMA StepOfWatchCall ==
  ASSUME WatchInv, NEW c \in Clients,
         \/ SubscribeStart(c) \/ Thread(c) \/ SpuriousWakeup(c) \/ Disconnect(c)
         \/ NotifyWrite(c) \/ CleanupMark(c) \/ CleanupSignal(c)
  PROVE  \/ [d \in Clients |-> CallOf(d)]' = [d \in Clients |-> CallOf(d)] /\ Gone' = Gone
         \/ Promised!Next
<1> DEFINE Ended == {"start", "returned"}
<1>1. /\ pc \in [Clients -> Points] /\ connected \in [Clients -> BOOLEAN]
      /\ client_inactive \in [Clients -> BOOLEAN] /\ WatchAgrees(c)
  BY DEF WatchInv, TypeOK
<1>2. \A d \in Clients :
        /\ pc'[d] = pc[d] /\ connected'[d] = connected[d]
           /\ client_inactive'[d] = client_inactive[d]
             => CallOf(d)' = CallOf(d) /\ (d \in Gone' <=> d \in Gone)
        /\ pc[d] \notin Ended /\ pc'[d] \notin Ended /\ connected'[d] = connected[d]
           /\ client_inactive'[d] = client_inactive[d]
             => CallOf(d)' = CallOf(d) /\ (d \in Gone' <=> d \in Gone)
  BY DEF CallOf, Gone
<1>3. \A d \in Clients \ {c} : CallOf(d)' = CallOf(d) /\ (d \in Gone' <=> d \in Gone)
  <2>1. \A d \in Clients \ {c} : /\ pc'[d] = pc[d] /\ connected'[d] = connected[d]
                                 /\ client_inactive'[d] = client_inactive[d]
    BY <1>1 DEF SubscribeStart, Thread, SubscribeCheck, SubscribeCount, Disconnect,
                SubscribeRegister, SubscribeTest, SubscribeWait, SpuriousWakeup, SubscribeLeave,
                NotifyWrite, CleanupMark, CleanupSignal, threadVars
  <2> QED
    BY <1>2, <2>1
<1>4. CASE SubscribeStart(c)
  <2>1. /\ pc[c] = "start" /\ ~client_inactive[c] /\ client_inactive' = client_inactive
        /\ pc'[c] = "checking" /\ connected'[c]
    BY <1>1, <1>4 DEF SubscribeStart, WatchAgrees, AfterRegister
  <2>2. CallOf(c) = "idle" /\ CallOf(c)' = "asked" /\ c \notin Gone /\ c \notin Gone'
    BY <2>1 DEF CallOf, Gone
  <2> QED
    BY <1>3, <2>2, WatchCallStep
<1>5. CASE SubscribeCheck(c)
  <2>1. /\ pc[c] = "checking" /\ ~client_inactive[c] /\ client_inactive' = client_inactive
        /\ pc'[c] \in {"checking", "register", "returned"} /\ connected' = connected
    BY <1>1, <1>5 DEF SubscribeCheck, WatchAgrees, AfterRegister
  <2>2. pc'[c] = "returned" =>
          CallOf(c) = "asked" /\ CallOf(c)' = "refused" /\ c \notin Gone'
    BY <2>1 DEF CallOf, Gone
  <2>3. pc'[c] # "returned" => CallOf(c)' = CallOf(c) /\ (c \in Gone' <=> c \in Gone)
    BY <1>2, <2>1
  <2> QED
    BY <1>3, <2>2, <2>3, WatchCallStep
<1>6. CASE Disconnect(c)
  <2>1. /\ pc[c] \notin Ended /\ ~connected'[c]
        /\ pc' = pc /\ client_inactive' = client_inactive
    BY <1>1, <1>6 DEF Disconnect, threadVars
  <2>2. CallOf(c) \in {"asked", "told"} /\ CallOf(c)' = CallOf(c) /\ c \in Gone'
    BY <2>1 DEF CallOf, Gone
  <2> QED
    BY <1>3, <2>2, WatchCallStep
<1>7. CASE SubscribeLeave(c)
  <2>1. /\ pc[c] = "leave" /\ pc'[c] = "returned" /\ client_inactive[c]
        /\ client_inactive' = client_inactive
    BY <1>1, <1>7 DEF SubscribeLeave, WatchAgrees
  <2>2. CallOf(c) = "told" /\ CallOf(c)' = "returned" /\ c \notin Gone'
    BY <2>1 DEF CallOf, Gone
  <2> QED
    BY <1>3, <2>2, WatchCallStep
<1>8. CASE CleanupMark(c)
  <2>1. /\ client_inactive'[c] /\ pc' = pc /\ connected' = connected
        /\ ~connected[c] /\ pc[c] # "start" /\ (pc[c] = "returned" => client_inactive[c])
    BY <1>1, <1>8, WatchMarkPreserves DEF CleanupMark, threadVars
  <2>2. CASE client_inactive[c]
    <3>1. client_inactive'[c] = client_inactive[c]
      BY <1>1, <1>8, <2>2 DEF CleanupMark
    <3> QED
      BY <1>2, <1>3, <2>1, <3>1, WatchCallStep
  <2>3. CASE ~client_inactive[c]
    <3>1. CallOf(c) = "asked" /\ CallOf(c)' = "told" /\ c \in Gone /\ c \in Gone'
      BY <2>1, <2>3 DEF CallOf, Gone
    <3> QED
      BY <1>3, <3>1, WatchCallStep
  <2> QED
    BY <2>2, <2>3
<1>9. CASE \/ SubscribeRegister(c) \/ SubscribeCount(c) \/ SubscribeTest(c) \/ SubscribeWait(c)
           \/ SpuriousWakeup(c) \/ NotifyWrite(c) \/ CleanupSignal(c)
  <2>1. /\ pc'[c] = pc[c] \/ (pc[c] \notin Ended /\ pc'[c] \notin Ended)
        /\ connected' = connected /\ client_inactive' = client_inactive
    BY <1>1, <1>9 DEF SubscribeRegister, SubscribeCount, SubscribeTest, SubscribeWait,
                      SpuriousWakeup, NotifyWrite, CleanupSignal, threadVars
  <2>2. CallOf(c)' = CallOf(c) /\ (c \in Gone' <=> c \in Gone)
    BY <1>2, <2>1
  <2> QED
    BY <1>3, <2>2, WatchCallStep
<1> QED
  BY <1>4, <1>5, <1>6, <1>7, <1>8, <1>9 DEF Thread

\* However watches come and go and ticks, tasks and wake-ups interleave, a call is
\* told to end only after its client left, and returns only when told.
THEOREM WatchPromiseKept == Spec => WatchKeepsPromise
<1>1. Init => Promised!Init
  BY DEF Init, Promised!Init, CallOf, Gone
<1>2. WatchInv /\ [Next]_vars => [Promised!Next]_<<[c \in Clients |-> CallOf(c)], Gone>>
  <2> DEFINE call == [c \in Clients |-> CallOf(c)]
  <2> SUFFICES ASSUME WatchInv, [Next]_vars
               PROVE  (call' = call /\ Gone' = Gone) \/ Promised!Next
    OBVIOUS
  <2>1. ASSUME NEW c \in Clients,
               \/ SubscribeStart(c) \/ Thread(c) \/ SpuriousWakeup(c) \/ Disconnect(c)
               \/ NotifyWrite(c) \/ CleanupMark(c) \/ CleanupSignal(c)
        PROVE  (call' = call /\ Gone' = Gone) \/ Promised!Next
    BY <2>1, StepOfWatchCall
  <2>2. CASE UNCHANGED <<pc, connected, client_inactive>>
    BY <2>2 DEF CallOf, Gone
  <2>3. CASE \/ UNCHANGED vars \/ Tick \/ Configure
             \/ \E k \in Keys : NotifyRead(k)
             \/ \E k \in Keys, c \in Clients : CleanupErase(k, c)
    <3>1. UNCHANGED <<pc, connected, client_inactive>>
      BY <2>3 DEF vars, threadVars, Tick, Configure, NotifyRead, CleanupErase
    <3> QED
      BY <2>2, <3>1
  <2> QED
    BY <2>1, <2>3 DEF Next, Watcher
<1> QED
  BY <1>1, <1>2, WatchInvariant, PTL DEF Spec, WatchKeepsPromise, Promised!Spec

-----------------------------------------------------------------------------
(***************************************************************************)
(* Calls that ask for one watch.  Then the watch whose notification failed *)
(* is the only one that knows the context, so the clean-up leaves none.    *)
(***************************************************************************)

OneWatchEach == \A req \in Requests : Len(req) = 1

Checked == {"register", "count", "test", "wait", "waiting", "leave"}
Lasting == WatchKeys \ Deletable

\* What ties a context to the one watch of its call: the tick that reads the watch,
\* the list the context is retired from, and the watch being there at all.
OnlyAsked(c) ==
    /\ pc[c] # "start" => Len(ids[c]) = 1 /\ Asked(c) = {ids[c][1]}
    /\ pc[c] \in Checked => Asked(c) \cap Lasting \subseteq gpu_watch_db
    /\ \A k \in Keys : c \in client_set[k] => Asked(c) = {k}
    /\ c \in to_write => Asked(c) \cap Lasting \subseteq {info_key}
    /\ \A k \in Keys : <<k, c>> \in inactive => Asked(c) \cap Lasting \subseteq {k}
    /\ c \in to_signal \/ client_inactive[c] => \A w \in Lasting : c \notin client_set[w]

LEMMA AskedStands ==
  ASSUME UNCHANGED ids
  PROVE  \A c \in Clients : Asked(c)' = Asked(c)
BY DEF Asked

\* Steps that only move threads on, or add watches and take some that do not last.
LEMMA OnlyAskedStands ==
  ASSUME WatchInv, \A c \in Clients : OnlyAsked(c),
         UNCHANGED <<ids, client_set, to_write, info_key, inactive, to_signal, client_inactive>>,
         gpu_watch_db \cap Lasting \subseteq gpu_watch_db',
         \A c \in Clients : /\ pc'[c] = "start" <=> pc[c] = "start"
                            /\ pc'[c] \in Checked => pc[c] \in Checked
  PROVE  \A c \in Clients : OnlyAsked(c)'
BY AskedStands DEF OnlyAsked

LEMMA OneWatchStart ==
  ASSUME OneWatchEach, WatchInv, \A d \in Clients : OnlyAsked(d),
         NEW c \in Clients, SubscribeStart(c)
  PROVE  \A d \in Clients : OnlyAsked(d)'
<1>1. PICK req \in Requests : ids' = [ids EXCEPT ![c] = req]
  BY DEF SubscribeStart
<1>2. /\ pc[c] = "start" /\ pc' = [pc EXCEPT ![c] = "checking"]
      /\ UNCHANGED <<storeVars, tickVars, subscrVars, client_inactive>>
      /\ pc \in [Clients -> Points] /\ ids \in [Clients -> Requests \union {<<>>}]
  BY DEF SubscribeStart, WatchInv, TypeOK
<1>3. ASSUME NEW d \in Clients, d # c PROVE OnlyAsked(d)'
  <2>1. ids'[d] = ids[d] /\ pc'[d] = pc[d]
    BY <1>1, <1>2, <1>3
  <2>2. Asked(d)' = Asked(d)
    BY <2>1 DEF Asked
  <2> QED
    BY <1>2, <2>1, <2>2 DEF OnlyAsked, storeVars, tickVars, subscrVars
<1>4. OnlyAsked(c)'
  <2>1. ids'[c] = req /\ pc'[c] = "checking" /\ Len(req) = 1 /\ req \in Seq(WatchKeys)
    BY <1>1, <1>2, SubscribeAssumption DEF OneWatchEach
  <2>2. Asked(c)' = {ids'[c][1]}
    BY <2>1 DEF Asked
  <2>3. ~Known(c) /\ ~Retired(c) /\ ~client_inactive[c]
    BY <1>2 DEF WatchInv, WatchAgrees, AfterRegister
  <2>4. /\ \A k \in Keys : c \notin client_set'[k] /\ <<k, c>> \notin inactive'
        /\ c \notin to_write' /\ c \notin to_signal' /\ ~client_inactive'[c]
    BY <1>2, <2>3 DEF Known, Retired, tickVars, subscrVars
  <2> QED
    BY <2>1, <2>2, <2>4 DEF OnlyAsked, Checked
<1> QED
  BY <1>3, <1>4

LEMMA OneWatchCheck ==
  ASSUME WatchInv, \A d \in Clients : OnlyAsked(d), NEW c \in Clients, SubscribeCheck(c)
  PROVE  \A d \in Clients : OnlyAsked(d)'
<1>1. /\ pc[c] = "checking" /\ pc \in [Clients -> Points] /\ unchecked[c] \in Nat
      /\ UNCHANGED <<storeVars, ids, tickVars, subscrVars, client_inactive>>
      /\ Len(ids[c]) = 1 /\ Asked(c) = {ids[c][1]}
  BY DEF SubscribeCheck, WatchInv, TypeOK, OnlyAsked
<1>2. CASE pc' = [pc EXCEPT ![c] = "returned"] \/ pc' = pc
  <2>1. \A d \in Clients : /\ pc'[d] = "start" <=> pc[d] = "start"
                           /\ pc'[d] \in Checked => pc[d] \in Checked
    BY <1>1, <1>2 DEF Checked
  <2> QED
    BY <1>1, <2>1, OnlyAskedStands DEF storeVars, tickVars, subscrVars
<1>3. CASE pc' = [pc EXCEPT ![c] = "register"] /\ unchecked[c] = 1
           /\ ids[c][Len(ids[c]) - unchecked[c] + 1] \in gpu_watch_db
  <2>1. Asked(c) \subseteq gpu_watch_db
    BY <1>1, <1>3
  <2>2. ASSUME NEW d \in Clients PROVE OnlyAsked(d)'
    <3>1. Asked(d)' = Asked(d) /\ OnlyAsked(d)
      BY <1>1, AskedStands
    <3>2. pc'[d] = IF d = c THEN "register" ELSE pc[d]
      BY <1>1, <1>3
    <3> QED
      BY <1>1, <2>1, <3>1, <3>2 DEF OnlyAsked, storeVars, tickVars, subscrVars
  <2> QED
    BY <2>2
<1> QED
  BY <1>2, <1>3 DEF SubscribeCheck

LEMMA OneWatchRegister ==
  ASSUME WatchInv, \A d \in Clients : OnlyAsked(d), NEW c \in Clients, SubscribeRegister(c)
  PROVE  \A d \in Clients : OnlyAsked(d)'
<1>1. /\ pc[c] = "register" /\ pc' = [pc EXCEPT ![c] = "count"] /\ pc \in [Clients -> Points]
      /\ client_set' = [k \in Keys |-> IF k \in Asked(c) THEN client_set[k] \union {c}
                                                         ELSE client_set[k]]
      /\ UNCHANGED <<storeVars, ids, tickVars, client_inactive>>
      /\ \A d \in Clients : Asked(d)' = Asked(d) /\ OnlyAsked(d)
  BY AskedStands DEF SubscribeRegister, WatchInv, TypeOK
<1>2. ~Known(c) /\ ~Retired(c) /\ ~client_inactive[c]
  BY <1>1 DEF WatchInv, WatchAgrees, AfterRegister
<1>3. ASSUME NEW d \in Clients, d # c PROVE OnlyAsked(d)'
  <2>1. /\ pc'[d] = pc[d] /\ \A k \in Keys : d \in client_set'[k] <=> d \in client_set[k]
    BY <1>1, <1>3
  <2>2. \A w \in Lasting : d \in client_set'[w] <=> d \in client_set[w]
    BY <2>1 DEF Lasting, Keys
  <2> QED
    BY <1>1, <2>1, <2>2 DEF OnlyAsked, storeVars, tickVars
<1>4. OnlyAsked(c)'
  <2>1. /\ pc'[c] = "count" /\ Asked(c) = {ids[c][1]} /\ Len(ids[c]) = 1
        /\ Asked(c) \cap Lasting \subseteq gpu_watch_db
    BY <1>1 DEF OnlyAsked, Checked
  <2>2. \A k \in Keys : c \in client_set'[k] => k \in Asked(c)
    BY <1>1, <1>2 DEF Known
  <2>3. /\ \A k \in Keys : <<k, c>> \notin inactive'
        /\ c \notin to_write' /\ c \notin to_signal' /\ ~client_inactive'[c]
    BY <1>1, <1>2 DEF Known, Retired, tickVars
  <2> QED
    BY <1>1, <2>1, <2>2, <2>3 DEF OnlyAsked, storeVars
<1> QED
  BY <1>3, <1>4

LEMMA OneWatchRead ==
  ASSUME WatchInv, \A d \in Clients : OnlyAsked(d), NEW k \in Keys, NotifyRead(k)
  PROVE  \A d \in Clients : OnlyAsked(d)'
<1>1. /\ info_key' = IF k \in gpu_watch_db THEN k ELSE ZeroKey
      /\ to_write' = client_set[k]
      /\ UNCHANGED <<storeVars, threadVars, inactive, to_signal, subscrVars, client_inactive>>
      /\ \A d \in Clients : Asked(d)' = Asked(d) /\ OnlyAsked(d)
  BY AskedStands DEF NotifyRead, threadVars
<1>2. ASSUME NEW d \in Clients PROVE OnlyAsked(d)'
  <2>1. d \in client_set[k] => Asked(d) \cap Lasting \subseteq {info_key'}
    <3> SUFFICES ASSUME d \in client_set[k], k \in Lasting, Asked(d) = {k}
                 PROVE  k = info_key'
      BY <1>1 DEF OnlyAsked
    <3>1. ~client_inactive[d]
      BY <1>1 DEF OnlyAsked
    <3>2. pc[d] \in AfterRegister /\ pc[d] # "returned"
      BY <3>1 DEF WatchInv, WatchAgrees, Known
    <3>3. k \in gpu_watch_db
      BY <1>1, <3>2 DEF OnlyAsked, AfterRegister, Checked
    <3> QED
      BY <1>1, <3>3
  <2> QED
    BY <1>1, <2>1 DEF OnlyAsked, storeVars, threadVars, subscrVars
<1> QED
  BY <1>2

LEMMA OneWatchWrite ==
  ASSUME WatchInv, \A d \in Clients : OnlyAsked(d), NEW c \in Clients, NotifyWrite(c)
  PROVE  \A d \in Clients : OnlyAsked(d)'
<1>1. /\ c \in to_write /\ to_write' = to_write \ {c}
      /\ inactive' \in {inactive, inactive \union {<<info_key, c>>}}
      /\ UNCHANGED <<storeVars, threadVars, info_key, to_signal, subscrVars, client_inactive>>
      /\ \A d \in Clients : Asked(d)' = Asked(d) /\ OnlyAsked(d)
  BY AskedStands DEF NotifyWrite, threadVars
<1>2. ASSUME NEW d \in Clients PROVE OnlyAsked(d)'
  <2>1. \A k \in Keys : <<k, d>> \in inactive' => <<k, d>> \in inactive \/ (d = c /\ k = info_key)
    BY <1>1
  <2>2. \A k \in Keys : <<k, d>> \in inactive' => Asked(d) \cap Lasting \subseteq {k}
    BY <1>1, <2>1 DEF OnlyAsked
  <2> QED
    BY <1>1, <2>2 DEF OnlyAsked, storeVars, threadVars, subscrVars
<1> QED
  BY <1>2

LEMMA OneWatchErase ==
  ASSUME WatchInv, \A d \in Clients : OnlyAsked(d),
         NEW k \in Keys, NEW c \in Clients, CleanupErase(k, c)
  PROVE  \A d \in Clients : OnlyAsked(d)'
<1>1. /\ <<k, c>> \in inactive /\ inactive' = inactive \ {<<k, c>>}
      /\ client_set' = [client_set EXCEPT ![k] = @ \ {c}] /\ client_set \in [Keys -> SUBSET Clients]
      /\ gpu_watch_db' = gpu_watch_db /\ to_signal' = to_signal \union {c}
      /\ UNCHANGED <<threadVars, info_key, to_write, client_inactive>>
      /\ \A d \in Clients : Asked(d)' = Asked(d) /\ OnlyAsked(d)
  BY AskedStands DEF CleanupErase, SubscriberDel, threadVars, WatchInv, TypeOK
<1>2. \A x \in Keys, d \in Clients :
        d \in client_set'[x] <=> d \in client_set[x] /\ ~(x = k /\ d = c)
  BY <1>1
<1>3. Lasting \subseteq Keys
  BY DEF Lasting, Keys
<1>4. ASSUME NEW d \in Clients PROVE OnlyAsked(d)'
  <2>1. d = c => \A w \in Lasting : c \notin client_set'[w]
    <3> SUFFICES ASSUME NEW w \in Lasting, c \in client_set[w], ~(w = k) PROVE FALSE
      BY <1>2, <1>3
    <3>1. Asked(c) = {w} /\ Asked(c) \cap Lasting \subseteq {k}
      BY <1>1, <1>3 DEF OnlyAsked
    <3> QED
      BY <3>1
  <2>2. d \in to_signal \/ client_inactive[d] => \A w \in Lasting : d \notin client_set'[w]
    BY <1>1, <1>2, <1>3 DEF OnlyAsked
  <2> QED
    BY <1>1, <1>2, <2>1, <2>2 DEF OnlyAsked, threadVars
<1> QED
  BY <1>4

LEMMA OneWatchMark ==
  ASSUME WatchInv, \A d \in Clients : OnlyAsked(d),
         NEW c \in Clients, CleanupMark(c) \/ CleanupSignal(c)
  PROVE  \A d \in Clients : OnlyAsked(d)'
<1>1. /\ UNCHANGED <<storeVars, ids, info_key, to_write, inactive, subscrVars>>
      /\ pc \in [Clients -> Points] /\ client_inactive \in [Clients -> BOOLEAN]
      /\ \A d \in Clients : Asked(d)' = Asked(d) /\ OnlyAsked(d)
  BY AskedStands DEF CleanupMark, CleanupSignal, threadVars, WatchInv, TypeOK
<1>2. \A d \in Clients : /\ pc'[d] = "start" <=> pc[d] = "start"
                         /\ pc'[d] \in Checked => pc[d] \in Checked
                         /\ d \in to_signal' \/ client_inactive'[d]
                              => d \in to_signal \/ client_inactive[d]
  BY <1>1 DEF CleanupMark, CleanupSignal, threadVars, Checked
<1> QED
  BY <1>1, <1>2 DEF OnlyAsked, storeVars, subscrVars

LEMMA OneWatchMove ==
  ASSUME WatchInv, \A d \in Clients : OnlyAsked(d), NEW c \in Clients,
         \/ SubscribeCount(c) \/ SubscribeTest(c) \/ SubscribeWait(c) \/ SpuriousWakeup(c)
         \/ SubscribeLeave(c) \/ Disconnect(c)
  PROVE  \A d \in Clients : OnlyAsked(d)'
<1>1. /\ UNCHANGED <<ids, tickVars, subscrVars, client_inactive, gpu_watch_db>>
      /\ pc \in [Clients -> Points]
  BY DEF SubscribeCount, SubscriberAdd, SubscribeTest, SubscribeWait, SpuriousWakeup,
         SubscribeLeave, Disconnect, threadVars, storeVars, WatchInv, TypeOK
<1>2. \A d \in Clients : /\ pc'[d] = "start" <=> pc[d] = "start"
                         /\ pc'[d] \in Checked => pc[d] \in Checked
  BY <1>1 DEF SubscribeCount, SubscribeTest, SubscribeWait, SpuriousWakeup, SubscribeLeave,
              Disconnect, threadVars, Checked
<1> QED
  BY <1>1, <1>2, OnlyAskedStands DEF tickVars, subscrVars

LEMMA OneWatchConfigure ==
  ASSUME WatchInv, \A d \in Clients : OnlyAsked(d), Configure \/ Tick \/ UNCHANGED vars
  PROVE  \A d \in Clients : OnlyAsked(d)'
<1>1. UNCHANGED <<threadVars, info_key, to_write, inactive, to_signal, client_set,
                  client_inactive>>
  BY DEF Configure, Tick, vars, tickVars, subscrVars
<1>2. gpu_watch_db \cap Lasting \subseteq gpu_watch_db'
  <2>1. ASSUME NEW w \in WatchKeys, GpuWatchCreate(w, GpuKeys)
        PROVE  gpu_watch_db \subseteq gpu_watch_db'
    BY <2>1 DEF GpuWatchCreate, InsertWatch, storeVars
  <2>2. ASSUME NEW w \in Deletable, GpuWatchDelete(w)
        PROVE  gpu_watch_db \ {w} \subseteq gpu_watch_db'
    BY <2>2 DEF GpuWatchDelete, storeVars
  <2> QED
    BY <2>1, <2>2 DEF Configure, Tick, vars, storeVars, Lasting
<1> QED
  BY <1>1, <1>2, OnlyAskedStands DEF threadVars

\* If every call asks for one watch, no thread is told that it may free its context
\* while a watch that nobody deletes still holds it
\* (cleanup_gpu_watch_inactive_subscribers_).
THEOREM ForgottenFirst == OneWatchEach => (Spec => []ForgottenBeforeMarked)
<1> DEFINE AllAsked == \A c \in Clients : OnlyAsked(c)
<1> SUFFICES ASSUME OneWatchEach PROVE Spec => []ForgottenBeforeMarked
  OBVIOUS
<1>1. Init => AllAsked
  BY DEF Init, OnlyAsked, Checked, Lasting, Keys
<1>2. WatchInv /\ AllAsked /\ [Next]_vars => AllAsked'
  <2> SUFFICES ASSUME WatchInv, AllAsked, [Next]_vars PROVE AllAsked'
    OBVIOUS
  <2>1. ASSUME NEW c \in Clients,
               SubscribeStart(c) \/ Thread(c) \/ SpuriousWakeup(c) \/ Disconnect(c)
        PROVE  AllAsked'
    BY <2>1, OneWatchStart, OneWatchCheck, OneWatchRegister, OneWatchMove DEF Thread
  <2>2. CASE Watcher
    BY <2>2, OneWatchRead, OneWatchWrite, OneWatchErase, OneWatchMark, OneWatchConfigure
       DEF Watcher
  <2>3. CASE Configure \/ UNCHANGED vars
    BY <2>3, OneWatchConfigure
  <2> QED
    BY <2>1, <2>2, <2>3 DEF Next
<1>3. AllAsked => ForgottenBeforeMarked
  BY DEF OnlyAsked, ForgottenBeforeMarked, Lasting
<1> HIDE DEF AllAsked
<1> QED
  BY <1>1, <1>2, <1>3, WatchInvariant, PTL DEF Spec

-----------------------------------------------------------------------------
(***************************************************************************)
(* The subscribers that a watch counts, while nobody deletes watches.      *)
(***************************************************************************)

\* The counter wraps around: what is needed of remainders.
LEMMA DivMod ==
  ASSUME NEW a \in Int, NEW W \in Nat \ {0}
  PROVE  \E q \in Int : a = W * q + (a % W) /\ a % W \in 0 .. W - 1
<1>1. a = W * (a \div W) + (a % W) /\ a \div W \in Int /\ a % W \in 0 .. W - 1
  OBVIOUS
<1> QED
  BY <1>1

LEMMA MultipleGrows ==
  ASSUME NEW W \in Nat \ {0}, NEW d \in Int
  PROVE  /\ d >= 1 => W * d >= W
         /\ d <= 0 - 1 => W * d <= 0 - W
  OBVIOUS

LEMMA RemainderUnique ==
  ASSUME NEW W \in Nat \ {0}, NEW q \in Int, NEW p \in Int, NEW r \in 0 .. W - 1, NEW s \in 0 .. W - 1,
         W * q + r = W * p + s
  PROVE  r = s
<1>1. W * (q - p) = s - r
  OBVIOUS
<1>2. q - p \in Int
  OBVIOUS
<1>3. q - p = 0
  BY <1>1, <1>2, MultipleGrows
<1>4. W * q = W * p
  BY <1>3
<1> QED
  BY <1>4

\* Counting modulo the width comes to the same as reducing at the end.
LEMMA ModAdd ==
  ASSUME NEW a \in Int, NEW n \in Int, NEW W \in Nat \ {0}
  PROVE  ((a % W) + n) % W = (a + n) % W
<1>1. PICK r \in 0 .. W - 1, q \in Int : r = a % W /\ a = W * q + r
  BY DivMod
<1>2. PICK b \in Int : b = a + n
  OBVIOUS
<1>3. PICK s \in 0 .. W - 1, p \in Int : s = b % W /\ b = W * p + s
  BY DivMod
<1>4. PICK c \in Int : c = r + n
  OBVIOUS
<1>5. PICK t \in 0 .. W - 1, o \in Int : t = c % W /\ c = W * o + t
  BY DivMod
<1>6. W * p + s = W * (q + o) + t
  <2>1. W * (q + o) = W * q + W * o /\ W * q \in Int /\ W * o \in Int /\ W * p \in Int
    OBVIOUS
  <2> QED
    BY <1>1, <1>2, <1>3, <1>4, <1>5, <2>1
<1>7. s = t
  <2>1. q + o \in Int
    OBVIOUS
  <2> QED
    BY <1>6, <2>1, RemainderUnique
<1> QED
  BY <1>1, <1>2, <1>3, <1>4, <1>5, <1>7
DistinctEach == \A req \in Requests : \A i, j \in DOMAIN req : req[i] = req[j] => i = j

Uncounted(w) == {c \in Clients : pc[c] = "count" /\ w \in Asked(c)}
CountedRight(w) ==
    num_subscriber[w] =
        (Cardinality(client_set[w]) - Cardinality(Uncounted(w))) % SubscriberWidth

\* A call that has looked up its watches found them.
Vetted(c) ==
    /\ pc[c] = "checking" =>
         /\ unchecked[c] \in 1 .. Len(ids[c])
         /\ \A i \in 1 .. Len(ids[c]) - unchecked[c] : ids[c][i] \in gpu_watch_db
    /\ pc[c] \in Checked => Asked(c) \subseteq gpu_watch_db

\* Contexts are held for, and written to and retired from, watches that are there.
Held ==
    /\ \A k \in Keys : client_set[k] # {} => k \in gpu_watch_db
    /\ to_write # {} => info_key \in gpu_watch_db /\ to_write \subseteq client_set[info_key]
    /\ \A k \in Keys, c \in Clients :
         <<k, c>> \in inactive => k \in gpu_watch_db /\ c \in client_set[k]

CountInv ==
    /\ \A c \in Clients : Vetted(c)
    /\ Held
    /\ \A w \in gpu_watch_db : CountedRight(w)

LEMMA WatchesAreKeys ==
  ASSUME WatchInv
  PROVE  /\ gpu_watch_db \subseteq WatchKeys /\ gpu_watch_db \subseteq Keys
         /\ \A c \in Clients : Asked(c) \subseteq WatchKeys
         /\ \A c \in Clients : ids[c] \in Seq(WatchKeys)
<1>1. gpu_watch_db \subseteq WatchKeys
  BY DEF WatchInv, TypeOK, StoreTypeOK
<1>2. \A c \in Clients : ids[c] \in Seq(WatchKeys)
  <2>1. <<>> \in Seq(WatchKeys)
    OBVIOUS
  <2> QED
    BY <2>1, SubscribeAssumption DEF WatchInv, TypeOK
<1>3. \A c \in Clients : Asked(c) \subseteq WatchKeys
  BY <1>2 DEF Asked
<1> QED
  BY <1>1, <1>2, <1>3 DEF Keys

\* A step that neither counts nor changes what is held.
LEMMA CountStands ==
  ASSUME WatchInv, CountInv,
         UNCHANGED <<client_set, num_subscriber, gpu_watch_db>>,
         \A w \in WatchKeys : Uncounted(w)' = Uncounted(w)
  PROVE  \A w \in gpu_watch_db' : CountedRight(w)'
BY WatchesAreKeys DEF CountInv, CountedRight

LEMMA UncountedStands ==
  ASSUME UNCHANGED ids, \A c \in Clients : pc'[c] = "count" <=> pc[c] = "count"
  PROVE  \A w \in WatchKeys : Uncounted(w)' = Uncounted(w)
BY DEF Uncounted, Asked

LEMMA HeldStands ==
  ASSUME Held, UNCHANGED <<client_set, to_write, info_key, inactive>>,
         gpu_watch_db \subseteq gpu_watch_db'
  PROVE  Held'
BY DEF Held

LEMMA VettedStands ==
  ASSUME CountInv, UNCHANGED <<ids, unchecked>>, gpu_watch_db \subseteq gpu_watch_db',
         \A c \in Clients : /\ pc'[c] = "checking" => pc[c] = "checking"
                            /\ pc'[c] \in Checked => pc[c] \in Checked
  PROVE  \A c \in Clients : Vetted(c)'
BY AskedStands DEF CountInv, Vetted

LEMMA CountStart ==
  ASSUME WatchInv, CountInv, NEW c \in Clients, SubscribeStart(c)
  PROVE  CountInv'
<1>1. PICK req \in Requests : /\ ids' = [ids EXCEPT ![c] = req]
                              /\ unchecked' = [unchecked EXCEPT ![c] = Len(req)]
  BY DEF SubscribeStart
<1>2. /\ pc[c] = "start" /\ pc' = [pc EXCEPT ![c] = "checking"]
      /\ UNCHANGED <<storeVars, tickVars, subscrVars>>
      /\ pc \in [Clients -> Points] /\ ids \in [Clients -> Requests \union {<<>>}]
      /\ unchecked \in [Clients -> Nat]
  BY DEF SubscribeStart, WatchInv, TypeOK
<1>3. \A d \in Clients \ {c} : /\ pc'[d] = pc[d] /\ ids'[d] = ids[d]
                               /\ unchecked'[d] = unchecked[d] /\ Asked(d)' = Asked(d)
  BY <1>1, <1>2 DEF Asked
<1>4. \A d \in Clients : Vetted(d)'
  <2>1. Vetted(c)'
    <3>1. req \in Seq(WatchKeys) /\ req # <<>>
      BY SubscribeAssumption
    <3>2. Len(req) \in Nat /\ Len(req) >= 1
      BY <3>1, EmptySeq
    <3>3. ids'[c] = req /\ unchecked'[c] = Len(req) /\ pc'[c] = "checking"
      BY <1>1, <1>2
    <3> QED
      BY <3>2, <3>3 DEF Vetted, Checked
  <2> QED
    BY <1>2, <1>3, <2>1 DEF CountInv, Vetted, storeVars
<1>5. \A w \in WatchKeys : Uncounted(w)' = Uncounted(w)
  BY <1>2, <1>3 DEF Uncounted
<1> QED
  BY <1>2, <1>4, <1>5, CountStands, HeldStands DEF CountInv, storeVars, tickVars, subscrVars

LEMMA CountCheck ==
  ASSUME WatchInv, CountInv, NEW c \in Clients, SubscribeCheck(c)
  PROVE  CountInv'
<1>1. /\ pc[c] = "checking" /\ pc \in [Clients -> Points] /\ unchecked \in [Clients -> Nat]
      /\ UNCHANGED <<storeVars, ids, tickVars, subscrVars>>
      /\ Vetted(c) /\ \A d \in Clients : Asked(d)' = Asked(d)
  BY AskedStands DEF SubscribeCheck, WatchInv, TypeOK, CountInv
<1> DEFINE n == Len(ids[c])
           id == ids[c][n - unchecked[c] + 1]
<1>2. ids[c] \in Seq(WatchKeys) /\ n \in Nat /\ unchecked[c] \in 1 .. n
  BY <1>1, WatchesAreKeys DEF Vetted
<1>3. \/ pc' = [pc EXCEPT ![c] = "returned"] /\ unchecked' = unchecked
      \/ pc' = pc /\ id \in gpu_watch_db /\ unchecked[c] > 1
         /\ unchecked' = [unchecked EXCEPT ![c] = @ - 1]
      \/ pc' = [pc EXCEPT ![c] = "register"] /\ id \in gpu_watch_db /\ unchecked[c] = 1
         /\ unchecked' = [unchecked EXCEPT ![c] = 0]
  BY DEF SubscribeCheck
<1>4. \A d \in Clients \ {c} : pc'[d] = pc[d] /\ unchecked'[d] = unchecked[d]
  BY <1>1, <1>3
<1>5. Vetted(c)'
  <2>1. CASE pc' = [pc EXCEPT ![c] = "returned"]
    BY <1>1, <2>1 DEF Vetted, Checked
  <2>2. CASE pc' = pc /\ id \in gpu_watch_db /\ unchecked[c] > 1
             /\ unchecked' = [unchecked EXCEPT ![c] = @ - 1]
    <3>1. unchecked'[c] = unchecked[c] - 1 /\ pc'[c] = "checking"
      BY <1>1, <2>2
    <3>2. unchecked'[c] \in 1 .. n
      BY <1>2, <2>2, <3>1
    <3>3. \A i \in 1 .. n - unchecked'[c] : ids[c][i] \in gpu_watch_db
      <4> TAKE i \in 1 .. n - unchecked'[c]
      <4>1. i \in 1 .. n - unchecked[c] \/ i = n - unchecked[c] + 1
        BY <1>2, <3>1
      <4> QED
        BY <1>1, <2>2, <4>1 DEF Vetted
    <3> QED
      BY <1>1, <3>1, <3>2, <3>3 DEF Vetted, Checked, storeVars
  <2>3. CASE pc' = [pc EXCEPT ![c] = "register"] /\ id \in gpu_watch_db /\ unchecked[c] = 1
    <3>1. \A i \in 1 .. n : ids[c][i] \in gpu_watch_db
      <4> TAKE i \in 1 .. n
      <4>1. i \in 1 .. n - unchecked[c] \/ i = n - unchecked[c] + 1
        BY <1>2, <2>3
      <4> QED
        BY <1>1, <2>3, <4>1 DEF Vetted
    <3>2. Asked(c) \subseteq gpu_watch_db
      BY <1>2, <3>1 DEF Asked
    <3>3. pc'[c] = "register"
      BY <1>1, <2>3
    <3> QED
      BY <1>1, <3>2, <3>3 DEF Vetted, storeVars
  <2> QED
    BY <1>3, <2>1, <2>2, <2>3
<1>6. \A d \in Clients : Vetted(d)'
  BY <1>1, <1>4, <1>5 DEF CountInv, Vetted, storeVars
<1>7. \A d \in Clients : pc'[d] = "count" <=> pc[d] = "count"
  BY <1>1, <1>3
<1> QED
  BY <1>1, <1>6, <1>7, CountStands, HeldStands, UncountedStands
     DEF CountInv, storeVars, tickVars, subscrVars

\* How often a list without repetitions names a watch.
LEMMA TimesOnce ==
  ASSUME DistinctEach, WatchInv, NEW c \in Clients, NEW w \in WatchKeys
  PROVE  Times(c)[w] = IF w \in Asked(c) THEN 1 ELSE 0
<1> DEFINE I == {i \in DOMAIN ids[c] : ids[c][i] = w}
<1>1. Times(c)[w] = Cardinality(I)
  BY DEF Times
<1>2. \A i, j \in I : i = j
  <2>1. ids[c] \in Requests \/ ids[c] = <<>>
    BY DEF WatchInv, TypeOK
  <2>2. CASE ids[c] \in Requests
    BY <2>2 DEF DistinctEach
  <2>3. CASE ids[c] = <<>>
    <3>1. DOMAIN ids[c] = {}
      BY <2>3
    <3> QED
      BY <3>1
  <2> QED
    BY <2>1, <2>2, <2>3
<1>3. CASE w \in Asked(c)
  <2>1. PICK i \in I : TRUE
    BY <1>3 DEF Asked
  <2>2. I = {i}
    BY <1>2
  <2> QED
    BY <1>1, <1>3, <2>2, FS_Singleton
<1>4. CASE w \notin Asked(c)
  <2>1. I = {}
    BY <1>4 DEF Asked
  <2> QED
    BY <1>1, <1>4, <2>1, FS_EmptySet
<1> QED
  BY <1>3, <1>4

\* The sets that are counted are finite.
LEMMA CountedFinite ==
  ASSUME IsFiniteSet(Clients), WatchInv, NEW w \in WatchKeys
  PROVE  /\ IsFiniteSet(client_set[w]) /\ Cardinality(client_set[w]) \in Nat
         /\ IsFiniteSet(Uncounted(w)) /\ Cardinality(Uncounted(w)) \in Nat
<1>1. client_set[w] \subseteq Clients /\ Uncounted(w) \subseteq Clients
  BY DEF WatchInv, TypeOK, Keys, Uncounted
<1> QED
  BY <1>1, FS_Subset, FS_CardinalityType

\* A call that registers is held and uncounted at once.
LEMMA CountRegister ==
  ASSUME IsFiniteSet(Clients), WatchInv, CountInv, NEW c \in Clients, SubscribeRegister(c)
  PROVE  CountInv'
<1>1. /\ pc[c] = "register" /\ pc' = [pc EXCEPT ![c] = "count"] /\ pc \in [Clients -> Points]
      /\ client_set' = [k \in Keys |-> IF k \in Asked(c) THEN client_set[k] \union {c}
                                                         ELSE client_set[k]]
      /\ UNCHANGED <<storeVars, ids, unchecked, tickVars>> /\ WatcherIdle
      /\ \A d \in Clients : Asked(d)' = Asked(d)
  BY AskedStands DEF SubscribeRegister, WatchInv, TypeOK
<1>2. ~Known(c) /\ Asked(c) \subseteq gpu_watch_db /\ gpu_watch_db \subseteq WatchKeys
      /\ gpu_watch_db \subseteq Keys
  BY <1>1, WatchesAreKeys DEF WatchInv, WatchAgrees, AfterRegister, CountInv, Vetted, Checked
<1>3. \A d \in Clients : Vetted(d)'
  <2>1. \A d \in Clients : /\ pc'[d] = "checking" => pc[d] = "checking"
                           /\ pc'[d] \in Checked => pc[d] \in Checked
    BY <1>1 DEF Checked
  <2> QED
    BY <1>1, <2>1, VettedStands DEF storeVars
<1>4. Held'
  BY <1>1, <1>2 DEF CountInv, Held, WatcherIdle, storeVars, tickVars
<1>5. ASSUME NEW w \in gpu_watch_db PROVE CountedRight(w)'
  <2>1. CountedRight(w) /\ w \in WatchKeys /\ w \in Keys /\ c \notin client_set[w]
        /\ c \notin Uncounted(w)
    BY <1>1, <1>2 DEF CountInv, Known, Uncounted
  <2>2. CASE w \in Asked(c)
    <3>1. client_set'[w] = client_set[w] \union {c}
      BY <1>1, <2>1, <2>2
    <3>2. Uncounted(w)' = Uncounted(w) \union {c}
      BY <1>1, <2>2 DEF Uncounted
    <3>3. /\ Cardinality(client_set'[w]) = Cardinality(client_set[w]) + 1
          /\ Cardinality(Uncounted(w)') = Cardinality(Uncounted(w)) + 1
      BY <2>1, <3>1, <3>2, CountedFinite, FS_AddElement
    <3>4. Cardinality(client_set'[w]) - Cardinality(Uncounted(w)')
            = Cardinality(client_set[w]) - Cardinality(Uncounted(w))
      BY <2>1, <3>3, CountedFinite
    <3> QED
      BY <1>1, <2>1, <3>4 DEF CountedRight, storeVars
  <2>3. CASE w \notin Asked(c)
    <3>1. client_set'[w] = client_set[w]
      BY <1>1, <2>1, <2>3
    <3>2. Uncounted(w)' = Uncounted(w)
      BY <1>1, <2>3 DEF Uncounted
    <3> QED
      BY <1>1, <2>1, <3>1, <3>2 DEF CountedRight, storeVars
  <2> QED
    BY <2>2, <2>3
<1> QED
  BY <1>1, <1>3, <1>4, <1>5 DEF CountInv, storeVars

\* The API thread counts it once for each watch it asked for.
LEMMA CountCount ==
  ASSUME IsFiniteSet(Clients), DistinctEach, WatchInv, CountInv,
         NEW c \in Clients, SubscribeCount(c)
  PROVE  CountInv'
<1>1. /\ pc[c] = "count" /\ pc' = [pc EXCEPT ![c] = "test"] /\ pc \in [Clients -> Points]
      /\ num_subscriber' =
           [w \in WatchKeys |-> IF w \in gpu_watch_db
                                THEN (num_subscriber[w] + Times(c)[w]) % SubscriberWidth
                                ELSE num_subscriber[w]]
      /\ UNCHANGED <<gpu_watch_db, ids, unchecked, tickVars, subscrVars>>
      /\ \A d \in Clients : Asked(d)' = Asked(d)
      /\ gpu_watch_db \subseteq WatchKeys
  BY AskedStands, WatchesAreKeys DEF SubscribeCount, SubscriberAdd, WatchInv, TypeOK
<1>2. \A d \in Clients : Vetted(d)'
  <2>1. \A d \in Clients : /\ pc'[d] = "checking" => pc[d] = "checking"
                           /\ pc'[d] \in Checked => pc[d] \in Checked
    BY <1>1 DEF Checked
  <2> QED
    BY <1>1, <2>1, VettedStands
<1>3. Held'
  BY <1>1, HeldStands DEF CountInv, tickVars, subscrVars
<1>4. ASSUME NEW w \in gpu_watch_db PROVE CountedRight(w)'
  <2> DEFINE x == Cardinality(client_set[w])
             y == Cardinality(Uncounted(w))
             n == Times(c)[w]
  <2>1. x \in Nat /\ y \in Nat /\ n \in {0, 1} /\ SubscriberWidth \in Nat \ {0}
        /\ num_subscriber[w] = (x - y) % SubscriberWidth
    BY <1>1, CountedFinite, TimesOnce, StoreAssumption DEF CountInv, CountedRight
  <2>2. Cardinality(Uncounted(w)') = y - n
    <3>1. CASE w \in Asked(c)
      <4>1. c \in Uncounted(w) /\ Uncounted(w)' = Uncounted(w) \ {c} /\ n = 1
        BY <1>1, <3>1, TimesOnce DEF Uncounted
      <4> QED
        BY <1>1, <4>1, CountedFinite, FS_RemoveElement
    <3>2. CASE w \notin Asked(c)
      <4>1. Uncounted(w)' = Uncounted(w) /\ n = 0
        BY <1>1, <3>2, TimesOnce DEF Uncounted
      <4> QED
        BY <2>1, <4>1
    <3> QED
      BY <3>1, <3>2
  <2>3. num_subscriber'[w] = (num_subscriber[w] + n) % SubscriberWidth
        /\ client_set'[w] = client_set[w]
    BY <1>1 DEF subscrVars
  <2>4. PICK a \in Int : a = x - y
    BY <2>1
  <2>5. PICK i \in Int : i = n
    BY <2>1
  <2>6. ((a % SubscriberWidth) + i) % SubscriberWidth = (a + i) % SubscriberWidth
    BY <2>1, ModAdd
  <2>7. a + i = x - (y - n)
    BY <2>1, <2>4, <2>5
  <2> HIDE DEF x, y, n
  <2>8. num_subscriber'[w] = (x - (y - n)) % SubscriberWidth
    BY <2>1, <2>3, <2>4, <2>5, <2>6, <2>7
  <2> QED
    BY <2>2, <2>3, <2>8 DEF CountedRight, x
<1> QED
  BY <1>1, <1>2, <1>3, <1>4 DEF CountInv

\* Retired, it is taken off the watch and off its count, counted yet or not.
LEMMA CountErase ==
  ASSUME IsFiniteSet(Clients), WatchInv, CountInv,
         NEW k \in Keys, NEW c \in Clients, CleanupErase(k, c)
  PROVE  CountInv'
<1>1. /\ <<k, c>> \in inactive /\ inactive' = inactive \ {<<k, c>>} /\ to_write = {}
      /\ client_set' = [client_set EXCEPT ![k] = @ \ {c}] /\ client_set \in [Keys -> SUBSET Clients]
      /\ gpu_watch_db' = gpu_watch_db /\ SubscriberDel(k)
      /\ UNCHANGED <<threadVars, info_key, to_write>>
      /\ num_subscriber \in [WatchKeys -> 0 .. SubscriberWidth - 1]
  BY DEF CleanupErase, SubscriberDel, WatchInv, TypeOK, StoreTypeOK
<1>2. k \in gpu_watch_db /\ c \in client_set[k] /\ k \in WatchKeys
  BY <1>1, WatchesAreKeys DEF CountInv, Held
<1>3. /\ num_subscriber'[k] = (num_subscriber[k] - 1) % SubscriberWidth
      /\ \A w \in WatchKeys \ {k} : num_subscriber'[w] = num_subscriber[w]
      /\ client_set'[k] = client_set[k] \ {c}
      /\ \A w \in Keys \ {k} : client_set'[w] = client_set[w]
  BY <1>1, <1>2 DEF SubscriberDel
<1>4. \A d \in Clients : Vetted(d)'
  BY <1>1, VettedStands DEF threadVars
<1>5. Held'
  <2>1. ASSUME NEW x \in Keys, NEW d \in Clients, <<x, d>> \in inactive'
        PROVE  x \in gpu_watch_db /\ d \in client_set'[x]
    BY <1>1, <1>3, <2>1 DEF CountInv, Held
  <2> QED
    BY <1>1, <1>3, <2>1 DEF CountInv, Held
<1>6. \A w \in WatchKeys : Uncounted(w)' = Uncounted(w)
  BY <1>1, UncountedStands DEF threadVars
<1>7. ASSUME NEW w \in gpu_watch_db, w # k PROVE CountedRight(w)'
  BY <1>3, <1>6, <1>7, WatchesAreKeys DEF CountInv, CountedRight
<1>8. CountedRight(k)'
  <2> DEFINE x == Cardinality(client_set[k])
             y == Cardinality(Uncounted(k))
  <2>1. x \in Nat /\ y \in Nat /\ SubscriberWidth \in Nat \ {0}
        /\ num_subscriber[k] = (x - y) % SubscriberWidth
    BY <1>2, CountedFinite, StoreAssumption DEF CountInv, CountedRight
  <2>2. Cardinality(client_set'[k]) = x - 1 /\ Cardinality(Uncounted(k)') = y
    <3>1. Uncounted(k)' = Uncounted(k)
      BY <1>2, <1>6
    <3>2. IsFiniteSet(client_set[k])
      BY <1>2, CountedFinite
    <3>3. Cardinality(client_set[k] \ {c}) = x - 1
      BY <1>2, <3>2, FS_RemoveElement
    <3> QED
      BY <1>3, <3>1, <3>3
  <2>3. PICK a \in Int : a = x - y
    BY <2>1
  <2>4. PICK i \in Int : i = 0 - 1
    OBVIOUS
  <2>5. ((a % SubscriberWidth) + i) % SubscriberWidth = (a + i) % SubscriberWidth
    BY <2>1, ModAdd
  <2>6. a + i = (x - 1) - y
    BY <2>1, <2>3, <2>4
  <2>7. num_subscriber[k] \in Int
    BY <1>1, <1>2
  <2>8. num_subscriber[k] - 1 = (a % SubscriberWidth) + i
    BY <2>1, <2>3, <2>4, <2>7
  <2> HIDE DEF x, y
  <2>9. num_subscriber'[k] = ((x - 1) - y) % SubscriberWidth
    BY <1>3, <2>5, <2>6, <2>8
  <2> QED
    BY <2>2, <2>9 DEF CountedRight
<1> QED
  BY <1>1, <1>4, <1>5, <1>7, <1>8 DEF CountInv

\* A tick reads the watches that are there, and writes to whom they hold.
LEMMA CountNotify ==
  ASSUME WatchInv, CountInv,
         \/ \E k \in Keys : NotifyRead(k)
         \/ \E c \in Clients : NotifyWrite(c)
  PROVE  CountInv'
<1>1. UNCHANGED <<storeVars, threadVars, subscrVars>>
  BY DEF NotifyRead, NotifyWrite
<1>2. Held'
  <2>1. ASSUME NEW k \in Keys, NotifyRead(k) PROVE Held'
    <3>1. /\ to_write' = client_set[k] /\ inactive' = inactive
          /\ client_set[k] # {} => info_key' = k
      BY <2>1 DEF NotifyRead, CountInv, Held
    <3> QED
      BY <1>1, <3>1 DEF CountInv, Held, storeVars, subscrVars
  <2>2. ASSUME NEW c \in Clients, NotifyWrite(c) PROVE Held'
    <3>1. /\ c \in to_write /\ to_write' = to_write \ {c} /\ info_key' = info_key
          /\ inactive' \in {inactive, inactive \union {<<info_key, c>>}}
      BY <2>2 DEF NotifyWrite
    <3>2. \A k \in Keys, d \in Clients :
             <<k, d>> \in inactive' => <<k, d>> \in inactive \/ (k = info_key /\ d = c)
      BY <3>1
    <3> QED
      BY <1>1, <3>1, <3>2 DEF CountInv, Held, storeVars, subscrVars
  <2> QED
    BY <2>1, <2>2
<1>3. \A d \in Clients : Vetted(d)'
  BY <1>1, VettedStands DEF storeVars, threadVars
<1> QED
  BY <1>1, <1>2, <1>3, CountStands, UncountedStands DEF CountInv, storeVars, threadVars, subscrVars

LEMMA CountMove ==
  ASSUME WatchInv, CountInv,
         \/ \E c \in Clients : \/ SubscribeTest(c) \/ SubscribeWait(c) \/ SpuriousWakeup(c)
                              \/ SubscribeLeave(c) \/ Disconnect(c)
                              \/ CleanupMark(c) \/ CleanupSignal(c)
         \/ Tick \/ UNCHANGED vars
  PROVE  CountInv'
<1>1. /\ UNCHANGED <<storeVars, ids, unchecked, subscrVars, info_key, to_write, inactive>>
      /\ pc \in [Clients -> Points]
  BY DEF SubscribeTest, SubscribeWait, SpuriousWakeup, SubscribeLeave, Disconnect, CleanupMark,
         CleanupSignal, Tick, vars, threadVars, tickVars, WatchInv, TypeOK
<1>2. \A d \in Clients : /\ pc'[d] = "checking" => pc[d] = "checking"
                         /\ pc'[d] \in Checked => pc[d] \in Checked
                         /\ pc'[d] = "count" <=> pc[d] = "count"
  BY <1>1 DEF SubscribeTest, SubscribeWait, SpuriousWakeup, SubscribeLeave, Disconnect,
              CleanupMark, CleanupSignal, Tick, vars, threadVars, Checked
<1> QED
  BY <1>1, <1>2, CountStands, UncountedStands, HeldStands, VettedStands
     DEF CountInv, storeVars, subscrVars

\* A watch that is created holds nobody, and nobody waits to be counted on it.
LEMMA CountConfigure ==
  ASSUME IsFiniteSet(Clients), Deletable = {}, WatchInv, CountInv, Configure
  PROVE  CountInv'
<1>1. PICK w \in WatchKeys : GpuWatchCreate(w, GpuKeys)
  BY DEF Configure
<1>2. /\ UNCHANGED <<threadVars, tickVars, subscrVars>>
      /\ num_subscriber \in [WatchKeys -> 0 .. SubscriberWidth - 1]
  BY DEF Configure, WatchInv, TypeOK, StoreTypeOK
<1>3. /\ gpu_watch_db \subseteq gpu_watch_db' /\ gpu_watch_db' \subseteq gpu_watch_db \union {w}
      /\ \A v \in gpu_watch_db : num_subscriber'[v] = num_subscriber[v]
      /\ w \in gpu_watch_db' /\ w \notin gpu_watch_db => num_subscriber'[w] = 0
  BY <1>1, <1>2, WatchesAreKeys DEF GpuWatchCreate, InsertWatch, storeVars
<1>4. \A d \in Clients : Vetted(d)'
  BY <1>2, <1>3, VettedStands DEF threadVars
<1>5. Held'
  BY <1>2, <1>3, HeldStands DEF CountInv, tickVars, subscrVars
<1>6. \A v \in WatchKeys : Uncounted(v)' = Uncounted(v)
  BY <1>2, UncountedStands DEF threadVars
<1>7. \A v \in gpu_watch_db : CountedRight(v)'
  BY <1>2, <1>3, <1>6, WatchesAreKeys DEF CountInv, CountedRight, subscrVars
<1>8. ASSUME w \notin gpu_watch_db, w \in gpu_watch_db' PROVE CountedRight(w)'
  <2>1. client_set[w] = {} /\ Uncounted(w) = {}
    <3>1. client_set[w] = {}
      BY <1>8 DEF CountInv, Held, Keys
    <3>2. \A c \in Clients : pc[c] = "count" => w \notin Asked(c)
      BY <1>8 DEF CountInv, Vetted, Checked
    <3> QED
      BY <3>1, <3>2 DEF Uncounted
  <2>2. Cardinality(client_set'[w]) = 0 /\ Cardinality(Uncounted(w)') = 0
    BY <1>2, <1>6, <2>1, FS_EmptySet DEF subscrVars
  <2>3. (0 - 0) % SubscriberWidth = 0
    BY StoreAssumption
  <2> QED
    BY <1>3, <1>8, <2>2, <2>3 DEF CountedRight
<1> QED
  BY <1>3, <1>4, <1>5, <1>7, <1>8 DEF CountInv

\* Unless watches are deleted under their subscribers, or a call names a watch twice,
\* num_subscriber_ is the number of contexts held for the watch, less those registered
\* and not yet counted, modulo its width (SUBSCRIBE_ADD and SUBSCRIBE_DEL tasks,
\* aga_gpu_watch_subscribe, cleanup_gpu_watch_inactive_subscribers_).
THEOREM SubscribersCounted ==
  IsFiniteSet(Clients) /\ Deletable = {} /\ DistinctEach => (Spec => []SubscriberCountMatches)
<1> SUFFICES ASSUME IsFiniteSet(Clients), Deletable = {}, DistinctEach
             PROVE  Spec => []SubscriberCountMatches
  OBVIOUS
<1>1. Init => CountInv
  BY DEF Init, CountInv, Vetted, Held, Checked, Keys
<1>2. WatchInv /\ CountInv /\ [Next]_vars => CountInv'
  <2> SUFFICES ASSUME WatchInv, CountInv, [Next]_vars PROVE CountInv'
    OBVIOUS
  <2>1. ASSUME NEW c \in Clients,
               SubscribeStart(c) \/ Thread(c) \/ SpuriousWakeup(c) \/ Disconnect(c)
        PROVE  CountInv'
    BY <2>1, CountStart, CountCheck, CountRegister, CountCount, CountMove DEF Thread
  <2>2. CASE Watcher
    BY <2>2, CountNotify, CountErase, CountMove DEF Watcher
  <2>3. CASE Configure \/ UNCHANGED vars
    BY <2>3, CountConfigure, CountMove
  <2> QED
    BY <2>1, <2>2, <2>3 DEF Next
<1>3. CountInv => SubscriberCountMatches
  BY DEF CountInv, CountedRight, Uncounted, SubscriberCountMatches
<1> QED
  BY <1>1, <1>2, <1>3, WatchInvariant, PTL DEF Spec
-----------------------------------------------------------------------------
(***************************************************************************)
(* What the watcher thread samples (WatchSample).  The slow tier of a      *)
(* published sample is younger than the slow period in effect, for every   *)
(* choice of periods whose sum fits the tick counters.  The argument is    *)
(* that slow_ticks measures the age of the slow tier, which needs that it  *)
(* never wraps: between two samples at most FastMax ticks pass, and a      *)
(* sample that skips the slow tier leaves slow_ticks below SlowMax.        *)
(***************************************************************************)

\* slow_ticks is bounded by the last sample plus the ticks since, and is the age.
TicksMeasureAge ==
    /\ stage = "idle" => fast_ticks < FastMax /\ slow_ticks <= SlowMax + fast_ticks
    /\ stage = "sample" => fast_ticks = 0 /\ slow_ticks <= SlowMax + FastMax
    /\ slow_primed => slow_age = slow_ticks

SampleInv == SampleTypeOK /\ TicksMeasureAge

\* The periods smi_watch_set_periods computes are in range.
LEMMA PeriodsInRange ==
  ASSUME NEW fast, NEW slow, ValidPeriods(fast, slow)
  PROVE  /\ (IF fast = 0 THEN FastPeriodDflt ELSE fast) \in FastMin .. FastMax
         /\ (IF slow = 0 THEN SlowDflt ELSE slow) \in SlowMin .. SlowMax
BY PeriodAssumption DEF ValidPeriods, FastPeriodDflt

\* Every sample is a function over the attributes.
LEMMA SampledType ==
  ASSUME SampleTypeOK, NEW refresh, NEW bulk, NEW single, NEW ok
  PROVE  Sampled(refresh, bulk, single, ok) \in [Attrs -> {"zero", "NA", "now", "older"}]
BY DEF Sampled, SampleTypeOK

LEMMA SampleInvInit == SampleInit => SampleInv
<1> SUFFICES ASSUME SampleInit PROVE SampleInv
  OBVIOUS
<1>1. /\ fast_period \in FastMin .. FastMax
      /\ slow_period \in SlowMin .. SlowMax
      /\ fast_ticks \in 0 .. TickWidth - 1
      /\ slow_ticks \in 0 .. TickWidth - 1
  BY PeriodAssumption DEF SampleInit
<1>2. SampleTypeOK
  BY <1>1 DEF SampleInit, SampleTypeOK
<1>3. TicksMeasureAge
  BY PeriodAssumption DEF SampleInit, TicksMeasureAge
<1> QED
  BY <1>2, <1>3 DEF SampleInv

LEMMA SampleInvStep == SampleInv /\ [SampleNext]_sampleVars => SampleInv'
<1> SUFFICES ASSUME SampleInv, [SampleNext]_sampleVars PROVE SampleInv'
  OBVIOUS
<1> USE DEF SampleInv
<1>1. ASSUME NEW fast, NEW slow, SetFastPeriod(fast, slow)
      PROVE  SampleInv'
  <2>1. SampleTypeOK'
    BY <1>1, PeriodsInRange
       DEF SetFastPeriod, SampleTypeOK, sampleTickVars, fieldVars
  <2>2. TicksMeasureAge'
    BY <1>1 DEF SetFastPeriod, TicksMeasureAge, sampleTickVars
  <2> QED
    BY <2>1, <2>2
<1>2. CASE SetSlowPeriod
  <2>1. SampleTypeOK'
    BY <1>2 DEF SetSlowPeriod, SampleTypeOK, sampleTickVars, fieldVars
  <2>2. TicksMeasureAge'
    BY <1>2 DEF SetSlowPeriod, TicksMeasureAge, sampleTickVars
  <2> QED
    BY <2>1, <2>2
<1>3. CASE FirstSubscription
  <2>1. SampleTypeOK'
    BY <1>3 DEF FirstSubscription, SampleTypeOK, periodVars, sampleTickVars, fieldVars
  <2>2. TicksMeasureAge'
    BY <1>3 DEF FirstSubscription, TicksMeasureAge, sampleTickVars
  <2> QED
    BY <2>1, <2>2
<1>4. CASE TimerFires
  <2>1. /\ fast_ticks \in 0 .. TickWidth - 1
        /\ slow_ticks \in 0 .. TickWidth - 1
        /\ fast_period \in FastMin .. FastMax
        /\ slow_age \in Nat
        /\ stage = "idle"
        /\ fast_ticks < FastMax
        /\ slow_ticks <= SlowMax + fast_ticks
        /\ slow_primed => slow_age = slow_ticks
    BY <1>4 DEF TimerFires, SampleTypeOK, TicksMeasureAge
  <2>2. /\ (fast_ticks + 1) % TickWidth = fast_ticks + 1
        /\ (slow_ticks + 1) % TickWidth = slow_ticks + 1
    <3>1. fast_ticks + 1 \in 0 .. TickWidth - 1 /\ slow_ticks + 1 \in 0 .. TickWidth - 1
      BY <2>1, PeriodAssumption
    <3> QED
      BY <3>1, PeriodAssumption
  <2>3. /\ slow_ticks' = slow_ticks + 1
        /\ slow_age' = slow_age + 1
        /\ UNCHANGED <<periodVars, subscribed, slow_primed, fieldVars>>
        /\ \/ /\ fast_ticks + 1 < fast_period
              /\ fast_ticks' = fast_ticks + 1
              /\ stage' = stage
           \/ /\ fast_ticks' = 0
              /\ stage' = "sample"
    BY <1>4, <2>2 DEF TimerFires
  <2>4. TicksMeasureAge'
    BY <2>1, <2>3, PeriodAssumption DEF TicksMeasureAge
  <2>5. fast_ticks' \in 0 .. TickWidth - 1 /\ slow_ticks' \in 0 .. TickWidth - 1
    BY <2>1, <2>3, PeriodAssumption
  <2>6. SampleTypeOK'
    BY <2>1, <2>3, <2>5 DEF SampleTypeOK, periodVars, fieldVars
  <2> QED
    BY <2>4, <2>6
<1>5. ASSUME NEW bulk, NEW single, NEW ok, Publish(bulk, single, ok)
      PROVE  SampleInv'
  <2>1. published' \in [Attrs -> {"zero", "NA", "now", "older"}]
    BY <1>5, SampledType DEF Publish
  <2>2. slow_cache' \in [Attrs -> {"zero", "NA", "now", "older"}]
    BY <1>5, <2>1 DEF Publish, StoreCache, SampleTypeOK
  <2>3. slow_ticks' \in 0 .. TickWidth - 1 /\ slow_age' \in Nat
    BY <1>5, PeriodAssumption DEF Publish, SampleTypeOK
  <2>4. SampleTypeOK'
    <3>1. slow_primed' \in BOOLEAN
      BY <1>5 DEF Publish
    <3> QED
      BY <1>5, <2>1, <2>2, <2>3, <3>1 DEF Publish, SampleTypeOK, periodVars
  <2>5. TicksMeasureAge'
    <3>1. CASE SlowDue
      BY <1>5, <3>1, PeriodAssumption DEF Publish, TicksMeasureAge, SampleTypeOK
    <3>2. CASE ~SlowDue
      BY <1>5, <3>2, PeriodAssumption DEF Publish, SlowDue, TicksMeasureAge, SampleTypeOK
    <3> QED
      BY <3>1, <3>2
  <2> QED
    BY <2>4, <2>5
<1>6. CASE UNCHANGED sampleVars
  BY <1>6 DEF sampleVars, SampleTypeOK, TicksMeasureAge, periodVars, sampleTickVars, fieldVars
<1> QED
  BY <1>1, <1>2, <1>3, <1>4, <1>5, <1>6 DEF SampleNext

\* The invariant holds throughout.
THEOREM SampleInvariant == SampleSpec => []SampleInv
BY SampleInvInit, SampleInvStep, PTL DEF SampleSpec

\* Every published sample carries a slow tier younger than the slow period in
\* effect when it was published (watch_timer_cb_).
THEOREM SlowTierIsFresh == SampleSpec => SlowTierFresh
<1>1. ASSUME SampleInv, [SampleNext]_sampleVars
      PROVE  [stage = "sample" /\ stage' = "idle"
                => slow_primed' /\ slow_age' < slow_period]_sampleVars
  <2>1. ASSUME stage = "sample", stage' = "idle"
        PROVE  slow_primed' /\ slow_age' < slow_period
    <3>1. PICK bulk \in BOOLEAN, single \in BOOLEAN, ok \in SUBSET SlowReads :
              Publish(bulk, single, ok)
      BY <1>1, <2>1 DEF SampleNext, SetFastPeriod, SetSlowPeriod, FirstSubscription,
                        TimerFires, sampleVars, sampleTickVars
    <3>2. CASE SlowDue
      <4>1. slow_primed'
        BY <3>1, <3>2, Zenon DEF Publish
      <4>2. slow_age' = 0
        BY <3>1, <3>2 DEF Publish
      <4>3. slow_period \in Nat /\ 0 < slow_period
        BY <1>1, PeriodAssumption DEF SampleInv, SampleTypeOK
      <4> QED
        BY <4>1, <4>2, <4>3
    <3>3. CASE ~SlowDue
      BY <1>1, <3>1, <3>3, PeriodAssumption
         DEF Publish, SlowDue, SampleInv, SampleTypeOK, TicksMeasureAge
    <3> QED
      BY <3>2, <3>3
  <2> QED
    BY <2>1
<1> QED
  BY <1>1, SampleInvariant, PTL DEF SampleSpec, SlowTierFresh

LEMMA EveryFastAttrIsReset == FastAttrs \subseteq ResetAttrs
BY DEF FastAttrs, FallbackAttrs, BulkAttrs, ResetAttrs

\* A fast field that could not be read is published as not applicable, whatever the
\* cache it was seeded from holds, the cache being a whole sample, fast fields and all
\* (aga_gpu_watch_reset_fast_fields, smi_watcher_update_all_watch_fields_).
THEOREM FastTierIsHonest == SampleSpec => []FastNeverStale
<1>1. SampleInit => FastNeverStale
  BY DEF SampleInit, FastNeverStale, Attrs
<1>2. FastNeverStale /\ [SampleNext]_sampleVars => FastNeverStale'
  <2> SUFFICES ASSUME FastNeverStale, [SampleNext]_sampleVars PROVE FastNeverStale'
    OBVIOUS
  <2>1. CASE UNCHANGED published
    BY <2>1 DEF FastNeverStale
  <2>2. ASSUME NEW bulk \in BOOLEAN, NEW single \in BOOLEAN, NEW ok \in SUBSET SlowReads,
               Publish(bulk, single, ok)
        PROVE  FastNeverStale'
    <3>1. published' = Sampled(SlowDue, bulk, single, ok)
      BY <2>2 DEF Publish
    <3>2. \A a \in FastAttrs : Sampled(SlowDue, bulk, single, ok)[a] \in {"now", "NA"}
      BY EveryFastAttrIsReset DEF Sampled, Attrs
    <3> QED
      BY <3>1, <3>2 DEF FastNeverStale
  <2> QED
    BY <2>1, <2>2
       DEF SampleNext, SetFastPeriod, SetSlowPeriod, FirstSubscription, TimerFires,
           sampleVars, fieldVars
<1> QED
  BY <1>1, <1>2, PTL DEF SampleSpec
=============================================================================
