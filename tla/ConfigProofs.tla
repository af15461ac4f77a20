---------------------------- MODULE ConfigProofs ----------------------------
(***************************************************************************)
(* Proofs about GpuConfig: the copy of the specification that a GPU object *)
(* keeps differs from the device only in attributes with a reason to, and  *)
(* a partition RPC that nothing else overlapped has put its partition in   *)
(* effect.                                                                 *)
(*                                                                         *)
(* The invariant of both adds what holds between the two halves of an      *)
(* update: once the device is written and until the copy is replaced, it   *)
(* is the specification of the caller that explains the device.            *)
(***************************************************************************)
EXTENDS GpuWatchProofs, GetProofs, MCGpu, SequenceTheorems, FiniteSetTheorems,
        WellFoundedInduction, TLAPS

Ops == {"compute", "memory", "update"}

\* The requests of a caller: none, one that is under way, one with its status.
CallerStates ==
    {Idle}
    \union [pc : {"queued", "loop"}, op : Ops, value : {0, 1}, gpu : ConfigGpus, spec : Specs,
            left : Seq(ConfigGpus \union {UnknownGpu}), overlap : BOOLEAN]
    \union [pc : {"done"}, op : Ops, value : {0, 1}, gpu : ConfigGpus \union {UnknownGpu},
            ok : BOOLEAN, overlap : BOOLEAN]

\* gim reports an overdrive level that a specification may not have.
InRange(spec) == smi_backend # "gimamdsmi" => ProtoToApiSpec(spec)

ConfigTyped ==
    /\ smi_backend \in SmiBackends
    /\ device \in [ConfigGpus -> Specs]
    /\ stored \in [ConfigGpus -> Specs]
    /\ \A g \in ConfigGpus : InRange(stored[g])
    /\ drift \in [ConfigGpus -> SUBSET SpecAttrs]
    /\ caller \in [Callers -> CallerStates]
    /\ api_upd \in Callers \union {"none"}

\* What a request asks for is what it sends, and it sends what a device can have.
AsksFor(r) ==
    r.pc \in {"queued", "loop"} =>
        /\ InRange(r.spec)
        /\ r.op \in {"compute", "memory"} => r.spec[r.op] = r.value
        /\ r.op = "update" => r.left = <<>>
        /\ r.pc = "loop" => r.left # <<>>

\* The device g has the values of spec but for attributes whose drift is known.
Explains(spec, g) == \A a \in SpecAttrs : device[g][a] # spec[a] => a \in drift[g]

\* An RPC that ended well and was not overlapped has its partition.
InEffect(r) ==
    r.pc = "done" /\ r.ok =>
        /\ r.gpu \in ConfigGpus
        /\ r.op \in {"compute", "memory"} /\ ~r.overlap /\ r.op \notin drift[r.gpu]
             => device[r.gpu][r.op] = r.value

Stashing(g) == api_upd # "none" /\ caller[api_upd].gpu = g

\* The inductive invariant.
ConfigInv ==
    /\ ConfigTyped
    /\ \A c \in Callers : AsksFor(caller[c])
    /\ \A g \in ConfigGpus : ~Stashing(g) => Explains(stored[g], g)
    /\ api_upd # "none" =>
         caller[api_upd].pc = "queued" /\ Explains(caller[api_upd].spec, caller[api_upd].gpu)
    /\ \A c \in Callers : InEffect(caller[c])
-----------------------------------------------------------------------------
(* The writes of an update.                                                *)

Writes == Seq(SpecAttrs \X (0 .. Odd))

\* One attribute that changed is one write.
LEMMA WriteTyped ==
  ASSUME NEW spec \in Specs, NEW mask \in SUBSET SpecAttrs, NEW a
  PROVE  Write(spec, mask, a) \in Writes
<1>1. CASE a \in mask
  <2>1. <<a, spec[a]>> \in SpecAttrs \X (0 .. Odd)
    BY <1>1 DEF Specs
  <2>2. << <<a, spec[a]>> >> \in Seq(SpecAttrs \X (0 .. Odd))
    BY <2>1
  <2> QED
    BY <1>1, <2>2 DEF Write, Writes
<1>2. CASE a \notin mask
  BY <1>2 DEF Write, Writes
<1> QED
  BY <1>1, <1>2

LEMMA JoinTyped ==
  ASSUME NEW v \in Writes, NEW w \in Writes
  PROVE  v \o w \in Writes
BY ConcatProperties DEF Writes

\* What smi_gpu_update writes are values of attributes.
LEMMA UpdateTyped ==
  ASSUME ConfigTyped, NEW g \in ConfigGpus, NEW spec \in Specs, NEW mask \in SUBSET SpecAttrs
  PROVE  smi_gpu_update(g, spec, mask) \in Writes
<1> DEFINE One(a) == Write(spec, mask, a)
<1>1. \A a : One(a) \in Writes
  BY WriteTyped
<1> DEFINE level == IF "overdrive" \in mask /\ device[g]["perf"] # Manual
                    THEN << <<"perf", Manual>> >> ELSE <<>>
<1>2. level \in Writes
  <2>1. <<"perf", Manual>> \in SpecAttrs \X (0 .. Odd)
    BY ConfigAssumption DEF Manual, Odd
  <2>2. << <<"perf", Manual>> >> \in Writes
    BY <2>1 DEF Writes
  <2>3. <<>> \in Writes
    BY DEF Writes
  <2> QED
    BY <2>2, <2>3
<1>3. level \o One("overdrive") \o One("clock") \o One("power") \o One("perf") \o One("fan")
          \in Writes
  <2> HIDE DEF level, One
  <2>1. level \o One("overdrive") \in Writes
    BY <1>1, <1>2, JoinTyped
  <2>2. level \o One("overdrive") \o One("clock") \in Writes
    BY <1>1, <2>1, JoinTyped
  <2>3. level \o One("overdrive") \o One("clock") \o One("power") \in Writes
    BY <1>1, <2>2, JoinTyped
  <2>4. level \o One("overdrive") \o One("clock") \o One("power") \o One("perf") \in Writes
    BY <1>1, <2>3, JoinTyped
  <2> QED
    BY <1>1, <2>4, JoinTyped
<1>4. AmdsmiUpdate(g, spec, mask) \in Writes
  BY <1>1, <1>3 DEF AmdsmiUpdate
<1>5. GimUpdate(spec, mask) \in Writes
  BY <1>1 DEF GimUpdate
<1> QED
  BY <1>4, <1>5, ConfigAssumption DEF smi_gpu_update, WslUpdate, ConfigTyped

\* So are those that were done when one failed.
LEMMA InterruptedTyped ==
  ASSUME ConfigTyped, NEW writes \in Writes, NEW done \in Interrupted(writes)
  PROVE  done \in Writes
<1>1. CASE done = <<>>
  BY <1>1 DEF Writes
<1>2. ASSUME NEW k \in DOMAIN writes, NEW partly \in PartlySet(writes[k]),
             done = SubSeq(writes, 1, k - 1) \o partly
      PROVE  done \in Writes
  <2>1. /\ k \in 1 .. Len(writes)
        /\ writes[k] \in SpecAttrs \X (0 .. Odd)
    BY <1>2, LenProperties, ElementOfSeq DEF Writes
  <2>2. SubSeq(writes, 1, k - 1) \in Writes
    BY <2>1, SubSeqProperties DEF Writes
  <2>3. <<writes[k][1], Odd>> \in SpecAttrs \X (0 .. Odd)
    BY <2>1 DEF Odd
  <2>4. << <<writes[k][1], Odd>> >> \in Writes
    BY <2>3 DEF Writes
  <2>5. <<>> \in Writes
    BY DEF Writes
  <2>6. partly \in {<<>>, << <<writes[k][1], Odd>> >>}
    BY <1>2, ConfigAssumption DEF PartlySet, AmdsmiPartly, WslPartly, GimPartly, ConfigTyped
  <2>7. partly \in Writes
    BY <2>4, <2>5, <2>6
  <2> QED
    BY <1>2, <2>2, <2>7, JoinTyped
<1>3. \/ done = <<>>
      \/ \E k \in DOMAIN writes : \E partly \in PartlySet(writes[k]) :
            done = SubSeq(writes, 1, k - 1) \o partly
  <2>1. \/ done = <<>>
        \/ \E k \in Tried(writes) : done \in FailedAt(writes, k)
    BY DEF Interrupted
  <2> QED
    BY <2>1 DEF Tried, FailedAt
<1> QED
  BY <1>1, <1>2, <1>3

\* A set of indices has a last one: of the intervals from its members to the end,
\* one contains no other.
LEMMA LastIndex ==
  ASSUME NEW n \in Nat, NEW at \in SUBSET (1 .. n), at # {}
  PROVE  \E i \in at : \A j \in at : j <= i
<1> DEFINE Rest == {i .. n : i \in at}
           R == StrictSubsetOrdering(Nat)
<1>1. Rest \subseteq FiniteSubsetsOf(Nat) /\ Rest # {}
  <2>1. \A i \in at : i .. n \in SUBSET Nat /\ IsFiniteSet(i .. n)
    BY FS_Interval
  <2> QED
    BY <2>1 DEF FiniteSubsetsOf
<1>2. PICK T \in Rest : \A U \in Rest : <<U, T>> \notin R
  <2> HIDE DEF Rest, R
  <2>1. IsWellFoundedOn(R, FiniteSubsetsOf(Nat))
    BY FS_StrictSubsetOrderingWellFounded DEF R
  <2> QED
    BY <1>1, <2>1, WFMin
<1>3. PICK i \in at : T = i .. n
  OBVIOUS
<1>4. ASSUME NEW j \in at, i < j PROVE FALSE
  <2>1. i .. n \in SUBSET Nat /\ j .. n \in SUBSET Nat
    OBVIOUS
  <2>2. j .. n \subseteq i .. n /\ i \in i .. n /\ i \notin j .. n
    BY <1>4
  <2>3. <<j .. n, i .. n>> \in R
    BY <2>1, <2>2 DEF StrictSubsetOrdering
  <2> QED
    BY <1>2, <1>3, <2>3
<1> QED
  BY <1>4

\* The writes change the attributes they name and no other.
LEMMA WrittenTyped ==
  ASSUME ConfigTyped, NEW g \in ConfigGpus, NEW writes \in Writes
  PROVE  /\ Written(g, writes) \in Specs
         /\ \A a \in SpecAttrs \ AttrsOf(writes) : Written(g, writes)[a] = device[g][a]
<1> DEFINE At(a) == {i \in DOMAIN writes : writes[i][1] = a}
           New(a) == IF At(a) = {} THEN device[g][a]
                     ELSE writes[CHOOSE i \in At(a) : \A j \in At(a) : j <= i][2]
<1>1. Written(g, writes) = [a \in SpecAttrs |-> New(a)]
  BY DEF Written
<1>2. ASSUME NEW a \in SpecAttrs
      PROVE  New(a) \in 0 .. Odd
  <2>1. CASE At(a) = {}
    <3>1. device[g][a] \in 0 .. Odd
      BY DEF ConfigTyped, Specs
    <3> QED
      BY <2>1, <3>1
  <2>2. CASE At(a) # {}
    <3>1. Len(writes) \in Nat /\ At(a) \in SUBSET (1 .. Len(writes))
      BY LenProperties DEF Writes
    <3>2. \E i \in At(a) : \A j \in At(a) : j <= i
      BY <2>2, <3>1, LastIndex
    <3>3. PICK i \in At(a) : i = CHOOSE k \in At(a) : \A j \in At(a) : j <= k
      BY <3>2
    <3>4. writes[i] \in SpecAttrs \X (0 .. Odd)
      BY <3>1, <3>3, ElementOfSeq DEF Writes
    <3>5. New(a) = writes[i][2]
      BY <2>2, <3>3
    <3> QED
      BY <3>4, <3>5
  <2> QED
    BY <2>1, <2>2
<1>3. ASSUME NEW a \in SpecAttrs \ AttrsOf(writes)
      PROVE  New(a) = device[g][a]
  <2>1. At(a) = {}
    BY <1>3 DEF AttrsOf
  <2> QED
    BY <2>1
<1> HIDE DEF New
<1> QED
  BY <1>1, <1>2, <1>3 DEF Specs

LEMMA AttrsOfTyped ==
  ASSUME NEW writes \in Writes
  PROVE  AttrsOf(writes) \subseteq SpecAttrs
<1> SUFFICES ASSUME NEW i \in DOMAIN writes PROVE writes[i][1] \in SpecAttrs
  BY DEF AttrsOf
<1>1. i \in 1 .. Len(writes)
  BY LenProperties DEF Writes
<1>2. writes[i] \in SpecAttrs \X (0 .. Odd)
  BY <1>1, ElementOfSeq DEF Writes
<1> QED
  BY <1>2

-----------------------------------------------------------------------------
(* Requests.                                                               *)

\* What did not change needs no write.
LEMMA MaskTyped ==
  ASSUME ConfigTyped, NEW g \in ConfigGpus, NEW spec \in Specs
  PROVE  /\ upd_mask(g, spec) \in SUBSET SpecAttrs
         /\ \A a \in SpecAttrs \ upd_mask(g, spec) : stored[g][a] = spec[a]
BY DEF upd_mask

\* A Get returns a specification, in range but with gim; and unless it meets an
\* update, the partitions of the copy.
LEMMA FillSpecTyped ==
  ASSUME ConfigInv, NEW g \in ConfigGpus, NEW s \in fill_spec(g)
  PROVE  /\ s \in Specs
         /\ InRange(s)
         /\ ~Stashing(g) => \A a \in {"compute", "memory"} : s[a] = stored[g][a]
<1>1. ASSUME NEW r \in Copied(g)
      PROVE  r \in Specs /\ InRange(r) /\ (~Stashing(g) => r = stored[g])
  <2>1. stored[g] \in Specs /\ InRange(stored[g])
    BY DEF ConfigInv, ConfigTyped
  <2>2. CASE ~Stashing(g)
    BY <2>1, <2>2 DEF Copied, Stashing
  <2>3. CASE Stashing(g)
    <3>1. caller[api_upd] \in CallerStates /\ caller[api_upd].pc = "queued"
      BY <2>3 DEF ConfigInv, ConfigTyped, Stashing
    <3>2. caller[api_upd].spec \in Specs
      BY <3>1 DEF CallerStates, Idle
    <3>3. InRange(caller[api_upd].spec)
      BY <2>3, <3>1 DEF ConfigInv, ConfigTyped, AsksFor, Stashing
    <3>4. PICK new \in SUBSET SpecAttrs :
             r = [a \in SpecAttrs |-> IF a \in new THEN caller[api_upd].spec[a] ELSE stored[g][a]]
      BY <2>3 DEF Copied, Stashing
    <3>5. r \in Specs
      BY <2>1, <3>2, <3>4 DEF Specs
    <3>6. InRange(r)
      BY <2>1, <3>3, <3>4 DEF InRange, ProtoToApiSpec
    <3> QED
      BY <2>3, <3>5, <3>6
  <2> QED
    BY <2>2, <2>3
<1>2. CASE smi_backend = "gimamdsmi"
  <2>1. PICK r \in Copied(g) : s \in GimFillSpec(g, r)
    BY <1>2 DEF fill_spec
  <2>2. r \in Specs /\ (~Stashing(g) => r = stored[g])
    BY <1>1
  <2>3. device[g] \in Specs
    BY DEF ConfigInv, ConfigTyped
  <2>4. s \in Specs /\ \A a \in {"compute", "memory"} : s[a] = r[a]
    BY <2>1, <2>2, <2>3, ConfigAssumption DEF GimFillSpec, NotInGim, Specs, Odd
  <2> QED
    BY <1>2, <2>2, <2>4 DEF InRange
<1>3. CASE smi_backend # "gimamdsmi"
  BY <1>1, <1>3 DEF fill_spec
<1> QED
  BY <1>2, <1>3

\* A caller that is not updating the device moves to a sound state.
LEMMA CallerMoves ==
  ASSUME ConfigInv, NEW c \in Callers, NEW r \in CallerStates, AsksFor(r), InEffect(r),
         caller[c].pc # "queued", caller' = [caller EXCEPT ![c] = r],
         UNCHANGED <<smi_backend, device, stored, drift, api_upd>>
  PROVE  ConfigInv'
<1>1. ConfigTyped'
  BY DEF ConfigInv, ConfigTyped, InRange
<1>2. \A x \in Callers : caller'[x] = IF x = c THEN r ELSE caller[x]
  BY DEF ConfigInv, ConfigTyped
<1>3. api_upd # "none" => api_upd \in Callers /\ caller'[api_upd] = caller[api_upd]
  BY <1>2 DEF ConfigInv, ConfigTyped
<1>4. \A x \in Callers : AsksFor(caller[x])'
  BY <1>2 DEF ConfigInv, AsksFor, InRange
<1>5. \A g \in ConfigGpus : (~Stashing(g) => Explains(stored[g], g))'
  BY <1>3 DEF ConfigInv, Explains, Stashing
<1>6. (api_upd # "none" => caller[api_upd].pc = "queued"
                             /\ Explains(caller[api_upd].spec, caller[api_upd].gpu))'
  BY <1>3 DEF ConfigInv, Explains
<1>7. \A x \in Callers : InEffect(caller[x])'
  BY <1>2 DEF ConfigInv, InEffect
<1> QED
  BY <1>1, <1>4, <1>5, <1>6, <1>7 DEF ConfigInv

\* The loop body of the partition RPCs.
LEMMA PartitionLoopPreserves ==
  ASSUME ConfigInv, NEW c \in Callers, caller[c].pc \in {"idle", "loop"},
         NEW attr \in {"compute", "memory"}, NEW value \in {0, 1},
         NEW asked \in Seq(ConfigGpus \union {UnknownGpu}), asked # <<>>,
         PartitionLoop(c, attr, value, asked),
         UNCHANGED <<smi_backend, device, stored, drift, api_upd>>
  PROVE  ConfigInv'
<1> DEFINE g == Head(asked)
<1>1. g \in ConfigGpus \union {UnknownGpu} /\ Tail(asked) \in Seq(ConfigGpus \union {UnknownGpu})
  BY HeadTailProperties
<1>2. CASE g \notin ConfigGpus
  <2> DEFINE r == [pc |-> "done", op |-> attr, value |-> value, gpu |-> g,
                   ok |-> FALSE, overlap |-> FALSE]
  <2>1. r \in CallerStates /\ AsksFor(r) /\ InEffect(r)
    BY <1>1 DEF CallerStates, AsksFor, InEffect, Ops
  <2>2. caller' = [caller EXCEPT ![c] = r]
    BY <1>2 DEF PartitionLoop
  <2> QED
    BY <2>1, <2>2, CallerMoves
<1>3. CASE g \in ConfigGpus
  <2> DEFINE overlap == api_upd # "none" /\ caller[api_upd].gpu = g
             R(s) == [pc |-> "queued", op |-> attr, value |-> value, gpu |-> g,
                      spec |-> [s EXCEPT ![attr] = value], left |-> Tail(asked),
                      overlap |-> overlap]
  <2>1. PICK s \in fill_spec(g) :
           caller' = [caller EXCEPT ![c] = IF s[attr] = value THEN Answer(R(s), TRUE) ELSE R(s)]
    BY <1>3 DEF PartitionLoop
  <2>2. /\ s \in Specs
        /\ InRange(s)
        /\ ~Stashing(g) => s[attr] = stored[g][attr]
    BY <1>3, FillSpecTyped
  <2>3. PICK spec \in Specs : /\ spec = [s EXCEPT ![attr] = value]
                              /\ spec[attr] = value
                              /\ InRange(spec)
    <3>1. [s EXCEPT ![attr] = value] \in Specs
      BY <2>2, ConfigAssumption DEF Specs, Odd
    <3>2. [s EXCEPT ![attr] = value][attr] = value
      BY <2>2, ConfigAssumption DEF Specs
    <3>3. InRange([s EXCEPT ![attr] = value])
      BY <2>2 DEF InRange, ProtoToApiSpec, Specs
    <3> QED
      BY <3>1, <3>2, <3>3
  <2>4. PICK o \in BOOLEAN : o = overlap
    OBVIOUS
  <2>5. CASE s[attr] = value
    <3> DEFINE r == [pc |-> "done", op |-> attr, value |-> value, gpu |-> g,
                     ok |-> TRUE, overlap |-> o]
    <3>1. caller' = [caller EXCEPT ![c] = r]
      BY <2>1, <2>4, <2>5 DEF Answer
    <3>2. r \in CallerStates /\ AsksFor(r)
      BY <1>3 DEF CallerStates, AsksFor, Ops
    <3>3. InEffect(r)
      <4>1. SUFFICES ASSUME ~o, attr \notin drift[g] PROVE device[g][attr] = value
        BY <1>3 DEF InEffect
      <4>2. ~Stashing(g)
        BY <2>4, <4>1 DEF Stashing
      <4>3. Explains(stored[g], g) /\ attr \in SpecAttrs
        BY <1>3, <4>2, ConfigAssumption DEF ConfigInv
      <4>4. device[g][attr] = stored[g][attr]
        BY <4>1, <4>3 DEF Explains
      <4> QED
        BY <2>2, <2>5, <4>2, <4>4
    <3> QED
      BY <3>1, <3>2, <3>3, CallerMoves
  <2>6. CASE s[attr] # value
    <3> DEFINE r == [pc |-> "queued", op |-> attr, value |-> value, gpu |-> g,
                     spec |-> spec, left |-> Tail(asked), overlap |-> o]
    <3>1. caller' = [caller EXCEPT ![c] = r]
      BY <2>1, <2>3, <2>4, <2>6
    <3>2. r \in CallerStates /\ InEffect(r)
      BY <1>1, <1>3 DEF CallerStates, InEffect, Ops
    <3>3. AsksFor(r)
      BY <2>3 DEF AsksFor
    <3> QED
      BY <3>1, <3>2, <3>3, CallerMoves
  <2> QED
    BY <2>5, <2>6
<1> QED
  BY <1>2, <1>3

\* `gpuctl update gpu'.
LEMMA GpuUpdateCmdPreserves ==
  ASSUME ConfigInv, NEW c \in Callers, NEW g \in ConfigGpus, NEW flags \in FlagSet,
         GpuUpdateCmd(c, g, flags)
  PROVE  ConfigInv'
<1> DEFINE Sent(s) == [a \in SpecAttrs |-> IF a \in DOMAIN flags THEN flags[a] ELSE s[a]]
           R(s) == [pc |-> "queued", op |-> "update", value |-> 0, gpu |-> g,
                    spec |-> Sent(s), left |-> <<>>, overlap |-> FALSE]
<1>1. PICK s \in fill_spec(g) :
         caller' = [caller EXCEPT ![c] = IF ProtoToApiSpec(Sent(s)) THEN R(s)
                                         ELSE Answer(R(s), FALSE)]
  BY DEF GpuUpdateCmd
<1>2. s \in Specs
  BY FillSpecTyped
<1>3. PICK spec \in Specs : spec = Sent(s)
  <2>1. \A a \in DOMAIN flags : flags[a] \in 0 .. Odd
    BY DEF FlagSet, FlagSets
  <2>2. Sent(s) \in Specs
    BY <1>2, <2>1 DEF Specs
  <2> QED
    BY <2>2
<1>4. caller[c].pc # "queued"
  BY DEF GpuUpdateCmd, Idle
<1>5. UNCHANGED <<smi_backend, device, stored, drift, api_upd>>
  BY DEF GpuUpdateCmd
<1>6. CASE ProtoToApiSpec(Sent(s))
  <2> DEFINE r == [pc |-> "queued", op |-> "update", value |-> 0, gpu |-> g,
                   spec |-> spec, left |-> <<>>, overlap |-> FALSE]
  <2>1. caller' = [caller EXCEPT ![c] = r]
    BY <1>1, <1>3, <1>6
  <2>2. r \in CallerStates /\ InEffect(r)
    BY DEF CallerStates, InEffect, Ops
  <2>3. AsksFor(r)
    BY <1>3, <1>6 DEF AsksFor, InRange
  <2> HIDE DEF r
  <2> QED
    BY <1>4, <1>5, <2>1, <2>2, <2>3, CallerMoves
<1>7. CASE ~ProtoToApiSpec(Sent(s))
  <2> DEFINE r == [pc |-> "done", op |-> "update", value |-> 0, gpu |-> g,
                   ok |-> FALSE, overlap |-> FALSE]
  <2>1. caller' = [caller EXCEPT ![c] = r]
    BY <1>1, <1>7 DEF Answer
  <2>2. r \in CallerStates /\ AsksFor(r) /\ InEffect(r)
    BY DEF CallerStates, AsksFor, InEffect, Ops
  <2> HIDE DEF r
  <2> QED
    BY <1>4, <1>5, <2>1, <2>2, CallerMoves
<1> QED
  BY <1>6, <1>7

-----------------------------------------------------------------------------
(* Steps that change a device.                                             *)

\* The partition RPCs that overlap the step take note; no request changes else.
LEMMA OverlappedTyped ==
  ASSUME NEW c, NEW g, NEW new \in [Callers -> CallerStates], NEW x \in Callers
  PROVE  LET r == Overlapped(c, g, new)[x] IN
         /\ r \in CallerStates
         /\ r.pc = new[x].pc
         /\ r.pc \in {"queued", "loop"} =>
              r.spec = new[x].spec /\ r.left = new[x].left
         /\ r.pc = "done" => r.ok = new[x].ok
         /\ r.pc # "idle" =>
              /\ r.gpu = new[x].gpu /\ r.op = new[x].op /\ r.value = new[x].value
              /\ x # c /\ r.gpu = g /\ r.op # "update" => r.overlap
              /\ new[x].overlap => r.overlap
<1> DEFINE r == Overlapped(c, g, new)[x]
<1>1. r = IF x # c /\ new[x].pc # "idle" /\ new[x].gpu = g /\ new[x].op # "update"
          THEN [new[x] EXCEPT !.overlap = TRUE] ELSE new[x]
  BY DEF Overlapped
<1>2. new[x] \in CallerStates
  OBVIOUS
<1>3. PICK n \in CallerStates : n = new[x]
  BY <1>2
<1>4. CASE n = Idle
  BY <1>1, <1>3, <1>4 DEF Idle, CallerStates
<1>5. CASE n \in [pc : {"queued", "loop"}, op : Ops, value : {0, 1}, gpu : ConfigGpus, spec : Specs,
                  left : Seq(ConfigGpus \union {UnknownGpu}), overlap : BOOLEAN]
  <2>1. [n EXCEPT !.overlap = TRUE] \in
           [pc : {"queued", "loop"}, op : Ops, value : {0, 1}, gpu : ConfigGpus, spec : Specs,
            left : Seq(ConfigGpus \union {UnknownGpu}), overlap : BOOLEAN]
    BY <1>5
  <2>2. [n EXCEPT !.overlap = TRUE] \in CallerStates
    BY <2>1 DEF CallerStates
  <2> QED
    BY <1>1, <1>3, <1>5, <2>2
<1>6. CASE n \in [pc : {"done"}, op : Ops, value : {0, 1}, gpu : ConfigGpus \union {UnknownGpu},
                  ok : BOOLEAN, overlap : BOOLEAN]
  <2>1. [n EXCEPT !.overlap = TRUE] \in
           [pc : {"done"}, op : Ops, value : {0, 1}, gpu : ConfigGpus \union {UnknownGpu},
            ok : BOOLEAN, overlap : BOOLEAN]
    BY <1>6
  <2>2. [n EXCEPT !.overlap = TRUE] \in CallerStates
    BY <2>1 DEF CallerStates
  <2> QED
    BY <1>1, <1>3, <1>6, <2>2
<1> QED
  BY <1>3, <1>4, <1>5, <1>6 DEF CallerStates

\* One device changes, at the hand of c or of nobody.
LEMMA DeviceMoves ==
  ASSUME ConfigInv, api_upd = "none", NEW g \in ConfigGpus,
         NEW d \in Specs, NEW known \in SUBSET SpecAttrs,
         NEW c, NEW new \in [Callers -> CallerStates],
         \A x \in Callers \ {c} : new[x] = caller[x],
         \A x \in Callers : AsksFor(new[x]),
         c \in Callers => (new[c].pc = "done" => ~new[c].ok),
         device' = [device EXCEPT ![g] = d], drift' = [drift EXCEPT ![g] = known],
         caller' = Overlapped(c, g, new), api_upd' \in Callers \union {"none"},
         UNCHANGED <<smi_backend, stored>>
  PROVE  /\ ConfigTyped'
         /\ \A x \in Callers : AsksFor(caller[x])'
         /\ \A h \in ConfigGpus \ {g} : Explains(stored[h], h)'
         /\ \A x \in Callers : InEffect(caller[x])'
<1> DEFINE T(x) == /\ caller'[x] \in CallerStates
                   /\ caller'[x].pc = new[x].pc
                   /\ caller'[x].pc \in {"queued", "loop"} =>
                        caller'[x].spec = new[x].spec /\ caller'[x].left = new[x].left
                   /\ caller'[x].pc = "done" => caller'[x].ok = new[x].ok
                   /\ caller'[x].pc # "idle" =>
                        /\ caller'[x].gpu = new[x].gpu /\ caller'[x].op = new[x].op
                        /\ caller'[x].value = new[x].value
                        /\ x # c /\ caller'[x].gpu = g /\ caller'[x].op # "update"
                             => caller'[x].overlap
                        /\ new[x].overlap => caller'[x].overlap
<1>1. \A x \in Callers : T(x)
  BY OverlappedTyped
<1>2. ConfigTyped'
  <2>1. device' \in [ConfigGpus -> Specs] /\ drift' \in [ConfigGpus -> SUBSET SpecAttrs]
    BY DEF ConfigInv, ConfigTyped
  <2>2. caller' \in [Callers -> CallerStates]
    <3>1. caller' = [x \in Callers |-> caller'[x]]
      BY DEF Overlapped
    <3> QED
      BY <1>1, <3>1
  <2> QED
    BY <2>1, <2>2 DEF ConfigInv, ConfigTyped, InRange
<1>3. ASSUME NEW x \in Callers
      PROVE  AsksFor(caller[x])'
  <2>1. T(x) /\ AsksFor(new[x])
    BY <1>1
  <2>2. caller'[x].pc \in {"queued", "loop"} => caller'[x].pc # "idle"
    OBVIOUS
  <2> QED
    BY <2>1, <2>2 DEF AsksFor, InRange
<1>4. ASSUME NEW h \in ConfigGpus \ {g}
      PROVE  Explains(stored[h], h)'
  <2>1. device'[h] = device[h] /\ drift'[h] = drift[h] /\ stored'[h] = stored[h]
    BY DEF ConfigInv, ConfigTyped
  <2>2. Explains(stored[h], h)
    BY DEF ConfigInv, Stashing
  <2> QED
    BY <2>1, <2>2 DEF Explains
<1>5. ASSUME NEW x \in Callers
      PROVE  InEffect(caller[x])'
  <2> SUFFICES ASSUME caller'[x].pc = "done", caller'[x].ok
               PROVE  /\ caller'[x].gpu \in ConfigGpus
                      /\ /\ caller'[x].op \in {"compute", "memory"} /\ ~caller'[x].overlap
                         /\ caller'[x].op \notin drift'[caller'[x].gpu]
                         => device'[caller'[x].gpu][caller'[x].op] = caller'[x].value
    BY DEF InEffect
  <2>1. T(x)
    BY <1>1
  <2>2. x # c
    BY <2>1
  <2>3. new[x] = caller[x]
    BY <2>2
  <2>4. /\ caller[x].pc = "done" /\ caller[x].ok
        /\ caller[x].op = caller'[x].op /\ caller[x].gpu = caller'[x].gpu
        /\ caller[x].value = caller'[x].value
    BY <2>1, <2>3
  <2>5. caller[x].gpu \in ConfigGpus
    BY <2>4 DEF ConfigInv, InEffect
  <2>6. SUFFICES ASSUME caller'[x].op \in {"compute", "memory"}, ~caller'[x].overlap,
                        caller'[x].op \notin drift'[caller'[x].gpu]
                 PROVE  device'[caller'[x].gpu][caller'[x].op] = caller'[x].value
    BY <2>4, <2>5
  <2>7. caller'[x].gpu # g /\ ~caller[x].overlap
    BY <2>1, <2>2, <2>3, <2>6
  <2>8. device'[caller[x].gpu] = device[caller[x].gpu] /\ drift'[caller[x].gpu] = drift[caller[x].gpu]
    BY <2>4, <2>5, <2>7 DEF ConfigInv, ConfigTyped
  <2> QED
    BY <2>4, <2>6, <2>7, <2>8 DEF ConfigInv, InEffect
<1> QED
  BY <1>2, <1>3, <1>4, <1>5

\* A request under way and its answer.
LEMMA UnderWay ==
  ASSUME ConfigInv, NEW c \in Callers, caller[c].pc \in {"queued", "loop"}, NEW ok \in BOOLEAN
  PROVE  /\ caller[c].gpu \in ConfigGpus /\ caller[c].spec \in Specs
         /\ caller[c].op \in Ops /\ caller[c].value \in {0, 1}
         /\ caller[c].left \in Seq(ConfigGpus \union {UnknownGpu})
         /\ Answer(caller[c], ok) \in CallerStates
         /\ AsksFor(Answer(caller[c], ok))
         /\ [caller[c] EXCEPT !.pc = "loop"] \in CallerStates
<1>1. PICK r \in CallerStates : r = caller[c]
  BY DEF ConfigInv, ConfigTyped
<1>2. r \in [pc : {"queued", "loop"}, op : Ops, value : {0, 1}, gpu : ConfigGpus, spec : Specs,
             left : Seq(ConfigGpus \union {UnknownGpu}), overlap : BOOLEAN]
  BY <1>1 DEF CallerStates, Idle
<1>3. Answer(r, ok) \in [pc : {"done"}, op : Ops, value : {0, 1},
                         gpu : ConfigGpus \union {UnknownGpu}, ok : BOOLEAN, overlap : BOOLEAN]
  BY <1>2 DEF Answer
<1>4. Answer(r, ok) \in CallerStates
  BY <1>3 DEF CallerStates
<1>5. AsksFor(Answer(r, ok))
  BY DEF Answer, AsksFor
<1>6. [r EXCEPT !.pc = "loop"] \in
        [pc : {"queued", "loop"}, op : Ops, value : {0, 1}, gpu : ConfigGpus, spec : Specs,
         left : Seq(ConfigGpus \union {UnknownGpu}), overlap : BOOLEAN]
  BY <1>2
<1>7. [r EXCEPT !.pc = "loop"] \in CallerStates
  BY <1>6 DEF CallerStates
<1> QED
  BY <1>1, <1>2, <1>4, <1>5, <1>7

\* An update that fails.
LEMMA UpdateFailsPreserves ==
  ASSUME ConfigInv, NEW c \in Callers, UpdateFails(c)
  PROVE  ConfigInv'
<1>1. caller[c].pc = "queued" /\ api_upd = "none"
  BY DEF UpdateFails
<1>2. PICK g \in ConfigGpus, spec \in Specs : g = caller[c].gpu /\ spec = caller[c].spec
  BY <1>1, UnderWay
<1>3. PICK writes \in Writes : writes = smi_gpu_update(g, spec, upd_mask(g, spec))
  BY UpdateTyped, MaskTyped DEF ConfigInv
<1>4. PICK done \in Interrupted(writes) :
         /\ device' = [device EXCEPT ![g] = Written(g, done)]
         /\ drift' = [drift EXCEPT ![g] = @ \union AttrsOf(done)]
         /\ caller' = Overlapped(c, g, [caller EXCEPT ![c] = Answer(@, FALSE)])
  BY <1>2, <1>3 DEF UpdateFails
<1>5. UNCHANGED <<smi_backend, stored, api_upd>>
  BY DEF UpdateFails
<1>6. done \in Writes /\ AttrsOf(done) \subseteq SpecAttrs
  BY InterruptedTyped, AttrsOfTyped DEF ConfigInv
<1>7. PICK d \in Specs : /\ d = Written(g, done)
                         /\ \A a \in SpecAttrs \ AttrsOf(done) : d[a] = device[g][a]
  BY <1>6, WrittenTyped DEF ConfigInv
<1>8. PICK known \in SUBSET SpecAttrs : known = drift[g] \union AttrsOf(done)
  BY <1>6 DEF ConfigInv, ConfigTyped
<1>9. PICK a \in CallerStates : a = Answer(caller[c], FALSE) /\ AsksFor(a)
  BY <1>1, UnderWay
<1>10. PICK new \in [Callers -> CallerStates] : new = [caller EXCEPT ![c] = a]
  BY <1>9 DEF ConfigInv, ConfigTyped
<1>11. /\ \A x \in Callers \ {c} : new[x] = caller[x]
       /\ new[c] = a
       /\ ~a.ok
  BY <1>9, <1>10 DEF ConfigInv, ConfigTyped, Answer
<1>12. \A x \in Callers : AsksFor(new[x])
  BY <1>9, <1>11 DEF ConfigInv
<1>13. /\ device' = [device EXCEPT ![g] = d] /\ drift' = [drift EXCEPT ![g] = known]
       /\ caller' = Overlapped(c, g, new)
  BY <1>4, <1>7, <1>8, <1>9, <1>10
<1>14. api_upd' \in Callers \union {"none"}
  BY <1>1, <1>5
<1>15. /\ ConfigTyped'
       /\ \A x \in Callers : AsksFor(caller[x])'
       /\ \A h \in ConfigGpus \ {g} : Explains(stored[h], h)'
       /\ \A x \in Callers : InEffect(caller[x])'
  BY <1>1, <1>5, <1>11, <1>12, <1>13, <1>14, DeviceMoves
<1>16. Explains(stored[g], g)'
  <2>1. device'[g] = d /\ drift'[g] = known
    BY <1>13 DEF ConfigInv, ConfigTyped
  <2>2. Explains(stored[g], g)
    BY <1>1 DEF ConfigInv, Stashing
  <2> QED
    BY <1>5, <1>7, <1>8, <2>1, <2>2 DEF Explains
<1> QED
  BY <1>1, <1>5, <1>15, <1>16 DEF ConfigInv

\* An update whose writes all succeed.
LEMMA UpdateAppliesPreserves ==
  ASSUME ConfigInv, NEW c \in Callers, UpdateApplies(c)
  PROVE  ConfigInv'
<1>1. caller[c].pc = "queued" /\ api_upd = "none"
  BY DEF UpdateApplies
<1>2. PICK g \in ConfigGpus, spec \in Specs : g = caller[c].gpu /\ spec = caller[c].spec
  BY <1>1, UnderWay
<1>3. PICK mask \in SUBSET SpecAttrs :
         /\ mask = upd_mask(g, spec)
         /\ \A a \in SpecAttrs \ mask : stored[g][a] = spec[a]
  BY MaskTyped DEF ConfigInv
<1>4. PICK writes \in Writes : writes = smi_gpu_update(g, spec, mask)
  BY UpdateTyped DEF ConfigInv
<1>5. PICK d \in Specs : /\ d = Written(g, writes)
                         /\ \A a \in SpecAttrs \ AttrsOf(writes) : d[a] = device[g][a]
  BY WrittenTyped DEF ConfigInv
<1>6. PICK known \in SUBSET SpecAttrs :
         known = {a \in drift[g] \union mask \union AttrsOf(writes) : d[a] # spec[a]}
  BY AttrsOfTyped DEF ConfigInv, ConfigTyped
<1>7. PICK new \in [Callers -> CallerStates] : new = caller
  BY DEF ConfigInv, ConfigTyped
<1>8. /\ device' = [device EXCEPT ![g] = d] /\ drift' = [drift EXCEPT ![g] = known]
      /\ caller' = Overlapped(c, g, new)
  BY <1>2, <1>3, <1>4, <1>5, <1>6, <1>7 DEF UpdateApplies
<1>9. UNCHANGED <<smi_backend, stored>> /\ api_upd' = c /\ api_upd' \in Callers \union {"none"}
  BY DEF UpdateApplies
<1>10. /\ \A x \in Callers : new[x] = caller[x]
       /\ \A x \in Callers : AsksFor(new[x])
       /\ new[c].pc # "done"
  BY <1>1, <1>7 DEF ConfigInv
<1>11. /\ ConfigTyped'
       /\ \A x \in Callers : AsksFor(caller[x])'
       /\ \A h \in ConfigGpus \ {g} : Explains(stored[h], h)'
       /\ \A x \in Callers : InEffect(caller[x])'
  BY <1>1, <1>8, <1>9, <1>10, DeviceMoves
<1>12. caller'[c].pc = "queued" /\ caller'[c].gpu = g /\ caller'[c].spec = spec
  BY <1>1, <1>2, <1>7, <1>8, OverlappedTyped
<1>13. Explains(spec, g)'
  <2>1. device'[g] = d /\ drift'[g] = known
    BY <1>8 DEF ConfigInv, ConfigTyped
  <2>2. Explains(stored[g], g)
    BY <1>1 DEF ConfigInv, Stashing
  <2> QED
    BY <1>3, <1>5, <1>6, <2>1, <2>2 DEF Explains
<1>14. c # "none"
  BY ConfigAssumption
<1> QED
  BY <1>9, <1>11, <1>12, <1>13, <1>14 DEF ConfigInv, Stashing, Explains
\* The copy is replaced.
LEMMA UpdateStashPreserves ==
  ASSUME ConfigInv, NEW c \in Callers, UpdateStash(c)
  PROVE  ConfigInv'
<1>1. api_upd = c /\ api_upd # "none" /\ api_upd' = "none"
  BY ConfigAssumption DEF UpdateStash
<1>2. /\ caller[c].pc = "queued"
      /\ Explains(caller[c].spec, caller[c].gpu)
      /\ AsksFor(caller[c])
  BY <1>1 DEF ConfigInv
<1>3. PICK g \in ConfigGpus, spec \in Specs : g = caller[c].gpu /\ spec = caller[c].spec
  BY <1>2, UnderWay
<1>4. UNCHANGED <<smi_backend, device, drift>> /\ stored' = [stored EXCEPT ![g] = spec]
  BY <1>3 DEF UpdateStash
<1>5. PICK r \in CallerStates :
         /\ caller' = [caller EXCEPT ![c] = r]
         /\ AsksFor(r) /\ InEffect(r)
  <2>1. CASE caller[c].left = <<>>
    <3>1. PICK r \in CallerStates : r = Answer(caller[c], TRUE) /\ AsksFor(r)
      BY <1>2, UnderWay
    <3>2. caller' = [caller EXCEPT ![c] = r]
      BY <2>1, <3>1 DEF UpdateStash
    <3>3. InEffect(r)
      <4>1. r.gpu = g /\ r.op = caller[c].op /\ r.value = caller[c].value
        BY <1>3, <3>1 DEF Answer
      <4>2. SUFFICES ASSUME r.op \in {"compute", "memory"}, r.op \notin drift[g]
                     PROVE  device[g][r.op] = r.value
        BY <4>1 DEF InEffect
      <4>3. spec[r.op] = r.value
        BY <1>2, <1>3, <4>1, <4>2 DEF AsksFor
      <4>4. device[g][r.op] = spec[r.op]
        BY <1>2, <1>3, <4>2, ConfigAssumption DEF Explains
      <4> QED
        BY <4>3, <4>4
    <3> QED
      BY <3>1, <3>2, <3>3
  <2>2. CASE caller[c].left # <<>>
    <3>1. PICK r \in CallerStates : r = [caller[c] EXCEPT !.pc = "loop"]
      BY <1>2, UnderWay
    <3>2. caller' = [caller EXCEPT ![c] = r]
      BY <2>2, <3>1 DEF UpdateStash
    <3>3. PICK q \in CallerStates : q = caller[c]
      BY DEF ConfigInv, ConfigTyped
    <3>4. /\ r.pc = "loop" /\ r.op = q.op /\ r.spec = q.spec /\ r.left = q.left
          /\ r.value = q.value
      BY <1>2, <3>1, <3>3 DEF CallerStates, Idle
    <3>5. AsksFor(r) /\ InEffect(r)
      BY <1>2, <2>2, <3>3, <3>4 DEF AsksFor, InEffect
    <3> QED
      BY <3>1, <3>2, <3>5
  <2> QED
    BY <2>1, <2>2
<1>6. \A x \in Callers : caller'[x] = IF x = c THEN r ELSE caller[x]
  BY <1>5 DEF ConfigInv, ConfigTyped
<1>7. ConfigTyped'
  <2>1. caller' \in [Callers -> CallerStates]
    BY <1>5 DEF ConfigInv, ConfigTyped
  <2>2. InRange(spec)
    BY <1>2, <1>3 DEF AsksFor
  <2> QED
    BY <1>1, <1>4, <2>1, <2>2 DEF ConfigInv, ConfigTyped, InRange
<1>8. \A x \in Callers : AsksFor(caller[x])' /\ InEffect(caller[x])'
  BY <1>4, <1>5, <1>6 DEF ConfigInv, AsksFor, InEffect, InRange
<1>9. ASSUME NEW h \in ConfigGpus
      PROVE  Explains(stored[h], h)'
  <2>1. stored'[h] = IF h = g THEN spec ELSE stored[h]
    BY <1>4 DEF ConfigInv, ConfigTyped
  <2>2. h # g => Explains(stored[h], h)
    BY <1>1, <1>3 DEF ConfigInv, Stashing
  <2> QED
    BY <1>2, <1>3, <1>4, <2>1, <2>2 DEF Explains
<1> QED
  BY <1>1, <1>7, <1>8, <1>9 DEF ConfigInv

\* The call of a reset that resets.
LEMMA ResetLastPreserves ==
  ASSUME ConfigInv, NEW type \in ResetTypes, NEW asked \in ConfigIds(MaxResetIds),
         ResetLast(type, asked)
  PROVE  ConfigInv'
<1>1. api_upd = "none"
  BY DEF ResetLast
<1>2. PICK g \in ConfigGpus : g = Last(asked)
  <2>1. PICK n \in 1 .. MaxResetIds : asked \in [1 .. n -> ConfigGpus \union {UnknownGpu}]
    BY DEF ConfigIds
  <2>2. Len(asked) = n /\ n \in DOMAIN asked
    BY <2>1, ConfigAssumption
  <2>3. asked[n] \in Range(asked)
    BY <2>2 DEF Range
  <2> QED
    BY <2>2, <2>3 DEF ResetLast, Last
<1>3. PICK reset \in SUBSET SpecAttrs, power \in {0, Odd} :
         /\ device' = [device EXCEPT ![g] =
                [a \in SpecAttrs |-> IF a \notin reset THEN @[a]
                                     ELSE IF a = "power" /\ @[a] # 0 THEN power ELSE 0]]
         /\ drift' = [drift EXCEPT ![g] = @ \union reset]
         /\ caller' = Overlapped("none", g, caller)
  <2>1. PICK good \in SUBSET (DOMAIN smi_gpu_reset(type)), power \in {0, Odd} :
           LET reset == {smi_gpu_reset(type)[i] : i \in good} \intersect SpecAttrs IN
           /\ device' = [device EXCEPT ![g] =
                  [a \in SpecAttrs |-> IF a \notin reset THEN @[a]
                                       ELSE IF a = "power" /\ @[a] # 0 THEN power ELSE 0]]
           /\ drift' = [drift EXCEPT ![g] = @ \union reset]
           /\ caller' = Overlapped("none", g, caller)
    BY <1>2 DEF ResetLast
  <2>2. PICK reset \in SUBSET SpecAttrs :
           reset = {smi_gpu_reset(type)[i] : i \in good} \intersect SpecAttrs
    OBVIOUS
  <2> QED
    BY <2>1, <2>2
<1>4. PICK d \in Specs :
        d = [a \in SpecAttrs |-> IF a \notin reset THEN device[g][a]
                                 ELSE IF a = "power" /\ device[g][a] # 0 THEN power ELSE 0]
  <2>1. PICK now \in Specs : now = device[g]
    BY DEF ConfigInv, ConfigTyped
  <2>2. [a \in SpecAttrs |-> IF a \notin reset THEN now[a]
                             ELSE IF a = "power" /\ now[a] # 0 THEN power ELSE 0] \in Specs
    BY DEF Specs, Odd
  <2> QED
    BY <2>1, <2>2
<1>5. PICK known \in SUBSET SpecAttrs : known = drift[g] \union reset
  BY DEF ConfigInv, ConfigTyped
<1>6. PICK new \in [Callers -> CallerStates] : new = caller
  BY DEF ConfigInv, ConfigTyped
<1>7. PICK nobody : nobody = "none" /\ nobody \notin Callers
  BY ConfigAssumption
<1>8. /\ device' = [device EXCEPT ![g] = d] /\ drift' = [drift EXCEPT ![g] = known]
      /\ caller' = Overlapped(nobody, g, new)
  BY <1>3, <1>4, <1>5, <1>6, <1>7
<1>9. UNCHANGED <<smi_backend, stored, api_upd>> /\ api_upd' \in Callers \union {"none"}
  BY <1>1 DEF ResetLast
<1>10. /\ \A x \in Callers : new[x] = caller[x]
       /\ \A x \in Callers : AsksFor(new[x])
  BY <1>6 DEF ConfigInv
<1>11. /\ ConfigTyped'
       /\ \A x \in Callers : AsksFor(caller[x])'
       /\ \A h \in ConfigGpus \ {g} : Explains(stored[h], h)'
       /\ \A x \in Callers : InEffect(caller[x])'
  BY <1>1, <1>7, <1>8, <1>9, <1>10, DeviceMoves
<1>12. Explains(stored[g], g)'
  <2>1. device'[g] = d /\ drift'[g] = known
    BY <1>8 DEF ConfigInv, ConfigTyped
  <2>2. Explains(stored[g], g)
    BY <1>1 DEF ConfigInv, Stashing
  <2> QED
    BY <1>4, <1>5, <1>9, <2>1, <2>2 DEF Explains
<1> QED
  BY <1>1, <1>9, <1>11, <1>12 DEF ConfigInv
-----------------------------------------------------------------------------
(* The specification.                                                      *)

LEMMA ConfigStarts ==
  ASSUME ConfigInit
  PROVE  ConfigInv
<1> DEFINE unknown == IF smi_backend = "gimamdsmi" THEN NotInGim \intersect SpecAttrs ELSE {}
<1>1. PICK unread \in [ConfigGpus -> SUBSET InitialReads] :
         /\ device = [g \in ConfigGpus |-> [a \in SpecAttrs |-> IF a \in unread[g] THEN 1 ELSE 0]]
         /\ stored = [g \in ConfigGpus |-> [a \in SpecAttrs |-> IF a \in unknown THEN Odd ELSE 0]]
         /\ drift = [g \in ConfigGpus |-> unknown \union unread[g]]
  BY DEF ConfigInit
<1>2. /\ \A g \in ConfigGpus : unread[g] \subseteq SpecAttrs
      /\ \A g \in ConfigGpus : [a \in SpecAttrs |-> IF a \in unread[g] THEN 1 ELSE 0] \in Specs
      /\ [a \in SpecAttrs |-> IF a \in unknown THEN Odd ELSE 0] \in Specs
      /\ unknown \subseteq SpecAttrs
  BY DEF Specs, Odd, InitialReads
<1>3. \A g \in ConfigGpus : InRange(stored[g])
  <2>1. smi_backend # "gimamdsmi" => unknown = {}
    OBVIOUS
  <2> HIDE DEF unknown
  <2>2. \A g \in ConfigGpus, a \in SpecAttrs : unknown = {} => stored[g][a] = 0
    BY <1>1
  <2> QED
    BY <2>1, <2>2 DEF InRange, ProtoToApiSpec, Odd
<1> HIDE DEF unknown
<1>4. /\ smi_backend \in SmiBackends /\ api_upd = "none"
      /\ caller = [c \in Callers |-> Idle]
  BY DEF ConfigInit
<1>5. Idle \in CallerStates
  BY DEF CallerStates
<1>6. ConfigTyped
  BY <1>1, <1>2, <1>3, <1>4, <1>5 DEF ConfigTyped
<1>7. \A c \in Callers : AsksFor(caller[c]) /\ InEffect(caller[c])
  BY <1>4 DEF Idle, AsksFor, InEffect
<1>8. \A g \in ConfigGpus : Explains(stored[g], g)
  BY <1>1, <1>4 DEF Explains
<1> QED
  BY <1>4, <1>6, <1>7, <1>8 DEF ConfigInv

LEMMA ConfigStep ==
  ASSUME ConfigInv, [ConfigNext]_configVars
  PROVE  ConfigInv'
<1>1. CASE UNCHANGED configVars
  BY <1>1 DEF configVars, ConfigInv, ConfigTyped, AsksFor, InEffect, Explains, Stashing, InRange
<1>2. ASSUME NEW c \in Callers, NEW value \in {0, 1}, NEW asked \in ConfigIds(MaxIds[c]),
             ComputePartitionSet(c, value, asked) \/ MemoryPartitionSet(c, value, asked)
      PROVE  ConfigInv'
  <2>1. asked \in Seq(ConfigGpus \union {UnknownGpu}) /\ asked # <<>>
    <3>1. PICK n \in 1 .. MaxIds[c] : asked \in [1 .. n -> ConfigGpus \union {UnknownGpu}]
      BY <1>2 DEF ConfigIds
    <3>2. n \in Nat /\ 1 \in DOMAIN asked
      BY <3>1, ConfigAssumption
    <3> QED
      BY <3>1, <3>2
  <2>2. caller[c].pc \in {"idle", "loop"}
    BY <1>2 DEF ComputePartitionSet, MemoryPartitionSet, Idle
  <2>3. PICK attr \in {"compute", "memory"} : PartitionLoop(c, attr, value, asked)
    BY <1>2 DEF ComputePartitionSet, MemoryPartitionSet
  <2>4. UNCHANGED <<smi_backend, device, stored, drift, api_upd>>
    BY <1>2 DEF ComputePartitionSet, MemoryPartitionSet
  <2> QED
    BY <2>1, <2>2, <2>3, <2>4, PartitionLoopPreserves
<1>3. ASSUME NEW c \in Callers, PartitionNext(c)
      PROVE  ConfigInv'
  <2>1. caller[c].pc = "loop"
    BY <1>3 DEF PartitionNext
  <2>2. AsksFor(caller[c])
    BY DEF ConfigInv
  <2>3. PICK attr \in {"compute", "memory"}, value \in {0, 1},
             asked \in Seq(ConfigGpus \union {UnknownGpu}) :
          attr = caller[c].op /\ value = caller[c].value /\ asked = caller[c].left
    BY <2>1, <2>2, UnderWay DEF AsksFor, Ops
  <2>4. asked # <<>>
    BY <2>1, <2>2, <2>3 DEF AsksFor
  <2>5. PartitionLoop(c, attr, value, asked) /\ UNCHANGED <<smi_backend, device, stored, drift, api_upd>>
    BY <1>3, <2>3 DEF PartitionNext
  <2> QED
    BY <2>1, <2>4, <2>5, PartitionLoopPreserves
<1>4. ASSUME NEW c \in Callers, ConfigDone(c)
      PROVE  ConfigInv'
  <2>1. Idle \in CallerStates /\ AsksFor(Idle) /\ InEffect(Idle)
    BY DEF CallerStates, Idle, AsksFor, InEffect
  <2>2. caller[c].pc # "queued" /\ caller' = [caller EXCEPT ![c] = Idle]
    BY <1>4 DEF ConfigDone
  <2>3. UNCHANGED <<smi_backend, device, stored, drift, api_upd>>
    BY <1>4 DEF ConfigDone
  <2> QED
    BY <2>1, <2>2, <2>3, CallerMoves
<1>5. ASSUME NEW type \in ResetTypes, NEW asked \in ConfigIds(MaxResetIds), ResetTask(type, asked)
      PROVE  ConfigInv'
  BY <1>5 DEF ResetTask, ConfigInv, ConfigTyped, AsksFor, InEffect, Explains, Stashing, InRange
<1> QED
  BY <1>1, <1>2, <1>3, <1>4, <1>5, GpuUpdateCmdPreserves, UpdateFailsPreserves,
     UpdateAppliesPreserves, UpdateStashPreserves, ResetLastPreserves DEF ConfigNext

\* The invariant holds: at every moment of every update each device is explained
\* by the copy of its GPU object or by the update that is replacing it.
THEOREM ConfigInvariant == ConfigSpec => []ConfigInv
<1>1. ConfigInit => ConfigInv
  BY ConfigStarts
<1>2. ConfigInv /\ [ConfigNext]_configVars => ConfigInv'
  BY ConfigStep
<1> QED
  BY <1>1, <1>2, PTL DEF ConfigSpec

\* Type correctness: what a request sends is a specification for a GPU that
\* exists, and an overdrive level out of range never gets as far as the update
\* (aga_gpu_proto_to_api_spec), but on gim, which reports one itself.
THEOREM ConfigTypeCorrect == ConfigSpec => []ConfigTypeOK
<1>1. ASSUME ConfigInv, NEW c \in Callers
      PROVE  /\ caller[c].pc \in {"idle", "queued", "loop", "done"}
             /\ caller[c].pc = "queued" =>
                  /\ caller[c].gpu \in ConfigGpus /\ caller[c].spec \in Specs
                  /\ smi_backend # "gimamdsmi" /\ "overdrive" \in SpecAttrs =>
                         caller[c].spec["overdrive"] # Odd
  <2>1. PICK r \in CallerStates : r = caller[c]
    BY <1>1 DEF ConfigInv, ConfigTyped
  <2>2. r.pc \in {"idle", "queued", "loop", "done"}
    BY <2>1 DEF CallerStates, Idle
  <2>3. r.pc = "queued" => r.gpu \in ConfigGpus /\ r.spec \in Specs
    BY <1>1, <2>1, UnderWay
  <2>4. AsksFor(r)
    BY <1>1, <2>1 DEF ConfigInv
  <2> QED
    BY <2>1, <2>2, <2>3, <2>4 DEF AsksFor, InRange, ProtoToApiSpec
<1>2. ConfigInv => ConfigTypeOK
  BY <1>1 DEF ConfigInv, ConfigTyped, ConfigTypeOK
<1> QED
  BY <1>2, ConfigInvariant, PTL

\* The copy that a Get returns differs from the device only in attributes the agent
\* failed to read at its start, an update wrote and then failed, a reset changed, overdrive switched, a new
\* partition left out, or gim does not write: for every number of GPUs and of
\* callers and each back end (update_handler, smi_gpu_update, smi_gpu_reset).
THEOREM DriftIsExplained == ConfigSpec => []DriftExplained
<1>1. ConfigInv => DriftExplained
  BY DEF ConfigInv, DriftExplained, Stashing, Explains
<1> QED
  BY <1>1, ConfigInvariant, PTL

\* A partition RPC that answers OK and was not overlapped has put its partition
\* in effect on the device (aga_svc_gpu_compute_partition_set,
\* aga_svc_gpu_memory_partition_set).
THEOREM PartitionTakesEffect == ConfigSpec => []PartitionInEffect
<1>1. ConfigInv => PartitionInEffect
  BY DEF ConfigInv, PartitionInEffect, InEffect
<1> QED
  BY <1>1, ConfigInvariant, PTL

-----------------------------------------------------------------------------
(***************************************************************************)
(* The parts together.  A behaviour of MCGpu is one of each of its parts   *)
(* (the part that moves makes its own steps and the others stand still),   *)
(* so what is proved of a part holds of the instance that is checked.      *)
(***************************************************************************)
LEMMA GpuParts ==
  /\ GpuInit => Init /\ SampleInit /\ ConfigInit /\ GetInit /\ WslInit
  /\ [GpuNext]_gpuVars =>
         /\ [Next]_vars /\ [SampleNext]_sampleVars /\ [ConfigNext]_configVars
         /\ [GetNext]_getVars /\ [WslNext]_wslVars
<1>1. GpuInit => Init /\ SampleInit /\ ConfigInit /\ GetInit /\ WslInit
  BY DEF GpuInit
<1>2. ASSUME [GpuNext]_gpuVars
      PROVE  /\ [Next]_vars /\ [SampleNext]_sampleVars /\ [ConfigNext]_configVars
             /\ [GetNext]_getVars /\ [WslNext]_wslVars
  BY <1>2 DEF GpuNext, gpuVars
<1> QED
  BY <1>1, <1>2

\* Each of the services, checked beside the others, behaves as it does alone.
THEOREM GpuIsItsParts ==
  GpuSpec => Spec /\ SampleSpec /\ ConfigSpec /\ GetSpec /\ WslSpec
BY GpuParts, PTL DEF GpuSpec, Spec, SampleSpec, ConfigSpec, GetSpec, WslSpec

\* The types of all of them: subscriber counts, periods, identifiers and the
\* program counters of threads and calls are those the code declares.
THEOREM GpuTypeCorrect == GpuSpec => []GpuTypeOK
<1>1. SampleInv => SampleTypeOK
  BY DEF SampleInv
<1>2. GpuSpec => [](TypeOK /\ SampleTypeOK /\ ConfigTypeOK /\ GetTypeOK /\ WslTypeOK)
  BY <1>1, GpuIsItsParts, WatchTypeCorrect, SampleInvariant, ConfigTypeCorrect, GetTypeCorrect,
     WslTypeCorrect, PTL
<1> QED
  BY <1>2, PTL DEF GpuTypeOK
=============================================================================
