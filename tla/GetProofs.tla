------------------------------ MODULE GetProofs ------------------------------
(***************************************************************************)
(* What a GPUGet reports, proved: of the amdsmi back end (GpuGet) and of   *)
(* the wsl back end (WslGet), for every number of threads, of GPUs and of  *)
(* partitions, and every way the reads overlap and the library fails.      *)
(*                                                                         *)
(* The two inductive invariants have the same shape.  Reads of a GPU that  *)
(* overlap agree on a time before which none of them began (GetsOverlap,   *)
(* WslOverlap); whatever such a read holds, or may still find in the       *)
(* cache, is younger (GetInTime, WslInTime); and what a read that nothing  *)
(* overlapped holds is what it fetched itself (GetQuiet, WslQuiet).        *)
(***************************************************************************)
EXTENDS GpuGet, WslGet, FiniteSetTheorems, WellFoundedInduction, TLAPS

\* A set of numbers has a least one: of the intervals up to its members, one
\* contains no other (the order of the numbers themselves is an operator).
LEMMA LeastNumber ==
  ASSUME NEW S \in SUBSET Nat, S # {}
  PROVE  \E m \in S : \A n \in S : m <= n
<1> DEFINE Up == {1 .. n : n \in S}
           R == StrictSubsetOrdering(Nat)
<1>1. Up \subseteq FiniteSubsetsOf(Nat) /\ Up # {}
  <2>1. \A n \in S : 1 .. n \in SUBSET Nat /\ IsFiniteSet(1 .. n)
    BY FS_Interval
  <2> QED
    BY <2>1 DEF FiniteSubsetsOf
<1>2. PICK T \in Up : \A U \in Up : <<U, T>> \notin R
  <2> HIDE DEF Up, R
  <2>1. IsWellFoundedOn(R, FiniteSubsetsOf(Nat))
    BY FS_StrictSubsetOrderingWellFounded DEF R
  <2> QED
    BY <1>1, <2>1, WFMin
<1>3. PICK m \in S : T = 1 .. m
  OBVIOUS
<1>4. ASSUME NEW n \in S, n < m PROVE FALSE
  <2>1. 1 .. n \in SUBSET Nat /\ 1 .. m \in SUBSET Nat
    OBVIOUS
  <2>2. 1 .. n \subseteq 1 .. m /\ m \in 1 .. m /\ m \notin 1 .. n
    BY <1>4
  <2>3. <<1 .. n, 1 .. m>> \in R
    BY <2>1, <2>2 DEF StrictSubsetOrdering
  <2> QED
    BY <1>2, <1>3, <2>3
<1> QED
  BY <1>4

-----------------------------------------------------------------------------
(* The Gets of the amdsmi back end.                                        *)

GetRecords ==
    [pc : GetPcs, handle : Handles, since : Nat, began : Nat, alone : BOOLEAN, skip : BOOLEAN,
     own : Nat, clock : Nat, power : Nat, usage : Nat, busy : Nat]

GetTyped ==
    /\ sampled \in 0 .. MaxSamples
    /\ g_gpu_metrics \in [Handles -> 0 .. sampled]
    /\ get \in [Getters -> {NoGet} \union GetRecords]

\* No sample was cached or is held under two names.
SamplesApart ==
    /\ \A h, k \in Handles : g_gpu_metrics[h] = g_gpu_metrics[k] /\ h # k => g_gpu_metrics[h] = 0
    /\ \A h \in Handles : \A c \in Getting(h) :
           \A k \in Handles : g_gpu_metrics[k] = get[c].own /\ k # h => get[c].own = 0
    /\ \A h, k \in Handles : \A c \in Getting(h), d \in Getting(k) :
           get[c].own = get[d].own /\ c # d => get[c].own = 0

\* The Gets of one handle began when the oldest read under way had begun, and one
\* that is alone is so.
GetsOverlap ==
    \A h \in Handles : \A c, d \in Getting(h) :
        /\ get[c].since <= get[d].began
        /\ get[c].alone => c = d

Cached == {"status", "stats", "partition", "primary", "done"}
Recent(v, since) == v = 0 \/ v > since

\* What a response holds so far is younger than `since';
TakenInTime(r) ==
    /\ Recent(r.clock, r.since) /\ Recent(r.power, r.since)
    /\ Recent(r.usage, r.since) /\ Recent(r.busy, r.since)

\* and, if the Get is alone, of its own sample, or the activities of a partition's.
TakenAlone(r) ==
    /\ {r.clock, r.power} \subseteq {0, r.own}
    /\ r.handle \notin Partitioned => {r.usage, r.busy} \subseteq {0, r.own}
    /\ r.handle = First /\ r.own # 0 /\ r.pc = "done" => r.usage \in {0, r.own}
    /\ r.usage \in {r.own, r.busy}

\* The activities go together up to the last step.
TakenTogether(r) ==
    /\ r.pc # "done" => r.usage = r.busy /\ (r.skip => r.usage = 0)
    /\ r.pc = "partition" => r.handle \in Partitioned

\* Its own sample is younger than its beginning; whatever it has taken from the
\* cache, and may still take, is younger than `since', and its own if it is alone.
GetInTime(c) ==
    /\ get[c].began <= sampled
    /\ get[c].own <= sampled /\ Recent(get[c].own, get[c].began)
    /\ get[c].pc \in Cached => Recent(g_gpu_metrics[get[c].handle], get[c].since)
    /\ TakenInTime(get[c])

GetQuiet(c) ==
    /\ get[c].pc \notin Cached =>
         /\ get[c].clock = 0 /\ get[c].power = 0
         /\ get[c].usage = 0 /\ get[c].busy = 0
    /\ get[c].pc = "fetch" => get[c].own = 0
    /\ TakenTogether(get[c])
    /\ get[c].alone =>
         /\ get[c].pc \in Cached => g_gpu_metrics[get[c].handle] = get[c].own
         /\ TakenAlone(get[c])

GetInv ==
    /\ GetTyped
    /\ SamplesApart
    /\ GetsOverlap
    /\ \A c \in Getters : get[c].pc # "idle" => GetInTime(c) /\ GetQuiet(c)

LEMMA GettingTyped ==
  ASSUME GetTyped, NEW c \in Getters, get[c].pc # "idle"
  PROVE  get[c] \in GetRecords /\ c \in Getting(get[c].handle) /\ get[c].handle \in Handles
<1>1. NoGet.pc = "idle"
  BY DEF NoGet
<1>2. get[c] \in GetRecords
  BY <1>1 DEF GetTyped
<1> QED
  BY <1>2 DEF Getting, GetRecords

LEMMA GetStartPreserves ==
  ASSUME GetInv, NEW c \in Getters, NEW h \in Handles, GetStart(c, h)
  PROVE  GetInv'
<1> DEFINE begun == {sampled} \union {get[y].began : y \in Getting(h)}
           since == Min(begun)
           new == [pc |-> "fetch", handle |-> h, since |-> since, began |-> sampled,
                   alone |-> Getting(h) = {}, skip |-> FALSE, own |-> 0,
                   clock |-> 0, power |-> 0, usage |-> 0, busy |-> 0]
<1>1. /\ get[c] = NoGet
      /\ get' = [x \in Getters |->
                   IF x = c THEN new
                   ELSE IF x \in Getting(h) THEN [get[x] EXCEPT !.alone = FALSE] ELSE get[x]]
      /\ UNCHANGED <<g_gpu_metrics, sampled>>
  BY DEF GetStart
<1>2. c \notin Getting(h)
  BY <1>1 DEF Getting, NoGet
<1>3. \A y \in Getting(h) : y \in Getters /\ get[y] \in GetRecords /\ get[y].pc # "idle"
                             /\ get[y].handle = h /\ y # c
  BY <1>2, GettingTyped DEF GetInv, Getting
<1>4. sampled \in Nat
  BY GetAssumption DEF GetInv, GetTyped
<1>5. since \in Nat /\ since <= sampled /\ \A y \in Getting(h) : since <= get[y].began
  <2>1. begun \in SUBSET Nat /\ begun # {}
    BY <1>3, <1>4 DEF GetRecords
  <2>2. \E m \in begun : \A n \in begun : m <= n
    <3> HIDE DEF begun
    <3> QED
      BY <2>1, LeastNumber
  <2>3. since \in begun /\ \A n \in begun : since <= n
    <3> HIDE DEF begun
    <3> QED
      BY <2>2 DEF Min
  <2> QED
    BY <2>1, <2>3
<1> HIDE DEF since
<1>6. new \in GetRecords
  BY <1>4, <1>5 DEF GetRecords, GetPcs
<1>7. \A x \in Getters \ {c} :
        /\ x \in Getting(h) =>
              get'[x] = [get[x] EXCEPT !.alone = FALSE] /\ get'[x] \in GetRecords
        /\ x \notin Getting(h) => get'[x] = get[x]
  BY <1>1, <1>3 DEF GetRecords
<1>8. get'[c] = new
  BY <1>1
<1>9. GetTyped'
  BY <1>1, <1>6, <1>7, <1>8 DEF GetInv, GetTyped
<1>10. \A x \in Getters \ {c} : get[x].pc # "idle" =>
         /\ get'[x].pc = get[x].pc /\ get'[x].handle = get[x].handle
         /\ get'[x].since = get[x].since /\ get'[x].began = get[x].began
         /\ get'[x].own = get[x].own /\ get'[x].clock = get[x].clock
         /\ get'[x].power = get[x].power /\ get'[x].usage = get[x].usage
         /\ get'[x].busy = get[x].busy /\ get'[x].skip = get[x].skip
         /\ get'[x].alone => get[x].alone
         /\ get'[x].alone => get[x].handle # h
  <2> SUFFICES ASSUME NEW x \in Getters \ {c}, get[x].pc # "idle"
               PROVE  /\ \A f \in DOMAIN get[x] \ {"alone"} : get'[x][f] = get[x][f]
                      /\ get'[x].alone => get[x].alone /\ get[x].handle # h
                      /\ get[x] \in GetRecords
    BY DEF GetRecords
  <2>1. get[x] \in GetRecords
    BY GettingTyped DEF GetInv
  <2>2. CASE x \in Getting(h)
    BY <1>7, <2>1, <2>2 DEF GetRecords
  <2>3. CASE x \notin Getting(h)
    BY <1>7, <2>1, <2>3 DEF Getting
  <2> QED
    BY <2>1, <2>2, <2>3
<1>11. \A x \in Getters \ {c} : get'[x].pc # "idle" => get[x].pc # "idle"
  BY <1>3, <1>7
<1>12. \A k \in Handles :
         Getting(k)' = IF k = h THEN Getting(k) \union {c} ELSE Getting(k)
  <2> SUFFICES ASSUME NEW k \in Handles, NEW x \in Getters
               PROVE  x \in Getting(k)' <=> x \in Getting(k) \/ (k = h /\ x = c)
    BY <1>2 DEF Getting
  <2>1. CASE x = c
    BY <1>1, <1>8, <2>1 DEF Getting, NoGet
  <2>2. CASE x # c
    BY <1>10, <1>11, <2>2 DEF Getting
  <2> QED
    BY <2>1, <2>2
<1>13. SamplesApart'
  <2>1. \A k \in Handles : \A x \in Getting(k)' : get'[x].own # 0 =>
           x \in Getting(k) /\ get'[x].own = get[x].own
    BY <1>8, <1>10, <1>12 DEF Getting
  <2>2. \A k \in Handles : \A x \in Getting(k)' :
           \A j \in Handles : g_gpu_metrics[j] = get'[x].own /\ j # k => get'[x].own = 0
    BY <2>1 DEF GetInv, SamplesApart
  <2>3. \A k, j \in Handles : \A x \in Getting(k)', y \in Getting(j)' :
           get'[x].own = get'[y].own /\ x # y => get'[x].own = 0
    BY <2>1 DEF GetInv, SamplesApart
  <2> QED
    BY <1>1, <2>2, <2>3 DEF GetInv, SamplesApart
<1>14. GetsOverlap'
  <2> SUFFICES ASSUME NEW k \in Handles, NEW x \in Getting(k)', NEW y \in Getting(k)'
               PROVE  get'[x].since <= get'[y].began /\ (get'[x].alone => x = y)
    BY DEF GetsOverlap
  <2>1. CASE x # c /\ y # c
    <3>1. x \in Getting(k) /\ y \in Getting(k)
      BY <1>12, <2>1
    <3>2. get[x].since <= get[y].began /\ (get[x].alone => x = y)
      BY <3>1 DEF GetInv, GetsOverlap
    <3> QED
      BY <1>10, <2>1, <3>1, <3>2 DEF Getting
  <2>2. CASE x = c /\ y # c
    <3>1. y \in Getting(h) /\ k = h
      BY <1>12, <1>8, <2>2 DEF Getting
    <3>2. get'[y].began = get[y].began
      BY <1>3, <1>10, <3>1
    <3>3. ~get'[c].alone
      <4>1. get'[c].alone = (Getting(h) = {})
        BY <1>8
      <4>2. Getting(h) # {}
        BY <3>1
      <4> QED
        BY <4>1, <4>2, Zenon
    <3> QED
      BY <1>5, <1>8, <2>2, <3>1, <3>2, <3>3
  <2>3. CASE x # c /\ y = c
    <3>1. x \in Getting(h) /\ k = h
      BY <1>12, <2>3, <1>8 DEF Getting
    <3>2. get[x].since <= get[x].began /\ get[x].began <= sampled
      BY <1>3, <3>1 DEF GetInv, GetsOverlap, GetInTime
    <3>3. get[x].since \in Nat /\ get[x].began \in Nat
      BY <1>3, <3>1 DEF GetRecords
    <3> QED
      BY <1>3, <1>4, <1>8, <1>10, <2>3, <3>1, <3>2, <3>3
  <2>4. CASE x = c /\ y = c
    BY <1>5, <1>8, <2>4
  <2> QED
    BY <2>1, <2>2, <2>3, <2>4
<1>15. ASSUME NEW x \in Getters, get'[x].pc # "idle"
       PROVE  GetInTime(x)' /\ GetQuiet(x)'
  <2>1. CASE x = c
    BY <1>4, <1>8, <1>1, <2>1
       DEF GetInTime, GetQuiet, Recent, Cached, TakenInTime, TakenAlone, TakenTogether
  <2>2. CASE x # c
    BY <1>1, <1>10, <1>11, <1>15, <2>2
       DEF GetInv, GetInTime, GetQuiet, Recent, TakenInTime, TakenAlone, TakenTogether
  <2> QED
    BY <2>1, <2>2
<1> QED
  BY <1>9, <1>13, <1>14, <1>15 DEF GetInv

\* A thread that goes on with its Get leaves the overlap as it is.
LEMMA GetGoesOn ==
  ASSUME GetInv, NEW c \in Getters, get[c].pc # "idle", NEW r \in GetRecords,
         get' = [get EXCEPT ![c] = r],
         r.handle = get[c].handle, r.since = get[c].since, r.began = get[c].began,
         r.alone = get[c].alone
  PROVE  /\ get' \in [Getters -> {NoGet} \union GetRecords]
         /\ get'[c] = r /\ \A x \in Getters \ {c} : get'[x] = get[x]
         /\ \A h \in Handles : Getting(h)' = Getting(h)
         /\ GetsOverlap'
         /\ get[c] \in GetRecords
<1>1. get \in [Getters -> {NoGet} \union GetRecords] /\ get[c] \in GetRecords
  BY GettingTyped DEF GetInv, GetTyped
<1>2. get'[c] = r /\ \A x \in Getters \ {c} : get'[x] = get[x]
  BY <1>1
<1>3. r.pc # "idle"
  BY DEF GetRecords, GetPcs
<1>4. \A h \in Handles : Getting(h)' = Getting(h)
  BY <1>2, <1>3 DEF Getting
<1>5. GetsOverlap'
  BY <1>2, <1>4 DEF GetInv, GetsOverlap, Getting
<1> QED
  BY <1>1, <1>2, <1>4, <1>5

LEMMA GetFetchPreserves ==
  ASSUME GetInv, NEW c \in Getters, FillSpecFetch(c)
  PROVE  GetInv'
<1>1. PICK own \in Nat :
        /\ get[c].pc = "fetch" /\ g_gpu_metrics' = g_gpu_metrics
        /\ get' = [get EXCEPT ![c] = [get[c] EXCEPT !.pc = "cache", !.own = own]]
        /\ \/ sampled < MaxSamples /\ sampled' = sampled + 1 /\ own = sampled + 1
           \/ sampled' = sampled /\ own = 0
  <2>1. get[c].pc = "fetch" /\ g_gpu_metrics' = g_gpu_metrics
    BY DEF FillSpecFetch
  <2>2. get[c] \in GetRecords /\ get[c].own = 0 /\ sampled \in Nat
        /\ get \in [Getters -> {NoGet} \union GetRecords]
    BY <2>1, GettingTyped DEF GetInv, GetTyped, GetQuiet
  <2>3. CASE /\ sampled < MaxSamples /\ sampled' = sampled + 1
             /\ get' = [get EXCEPT ![c] = [@ EXCEPT !.pc = "cache", !.own = sampled + 1]]
    <3>1. sampled + 1 \in Nat
      BY <2>2
    <3> WITNESS sampled + 1 \in Nat
    <3> QED
      BY <2>1, <2>2, <2>3
  <2>4. CASE get' = [get EXCEPT ![c].pc = "cache"] /\ sampled' = sampled
    <3>1. [get[c] EXCEPT !.pc = "cache"] = [get[c] EXCEPT !.pc = "cache", !.own = 0]
      BY <2>2 DEF GetRecords
    <3> QED
      BY <2>1, <2>2, <2>4, <3>1 DEF GetRecords
  <2> QED
    BY <2>3, <2>4 DEF FillSpecFetch
<1> DEFINE r == [get[c] EXCEPT !.pc = "cache", !.own = own]
<1>2. get[c] \in GetRecords /\ r \in GetRecords
      /\ r.handle = get[c].handle /\ r.since = get[c].since /\ r.began = get[c].began
      /\ r.alone = get[c].alone /\ r.own = own /\ r.pc = "cache"
      /\ r.clock = 0 /\ r.power = 0 /\ r.usage = 0 /\ r.busy = 0
  <2>1. get[c] \in GetRecords /\ GetQuiet(c)
    BY <1>1, GettingTyped DEF GetInv
  <2> QED
    BY <1>1, <2>1 DEF GetRecords, GetPcs, GetQuiet, Cached
<1>3. /\ get' \in [Getters -> {NoGet} \union GetRecords]
      /\ get'[c] = r /\ \A x \in Getters \ {c} : get'[x] = get[x]
      /\ \A h \in Handles : Getting(h)' = Getting(h)
      /\ GetsOverlap'
  BY <1>1, <1>2, GetGoesOn
<1> HIDE DEF r
<1>4. sampled \in Nat /\ sampled' \in 0 .. MaxSamples /\ sampled <= sampled'
  BY <1>1, GetAssumption DEF GetInv, GetTyped
<1>5. GetTyped'
  BY <1>1, <1>3, <1>4 DEF GetInv, GetTyped
<1>6. \A x \in Getters : get[x].pc # "idle" => get[x].own <= sampled /\ get[x] \in GetRecords
  BY GettingTyped DEF GetInv, GetInTime
<1>7. own # 0 => \A k \in Handles : g_gpu_metrics[k] < own
  BY <1>1, <1>4 DEF GetInv, GetTyped
<1>8. own # 0 => \A x \in Getters \ {c} : get[x].pc # "idle" => get[x].own < own
  BY <1>1, <1>4, <1>6 DEF GetRecords
<1>9. SamplesApart'
  <2>1. \A h \in Handles : \A d \in Getting(h) : d \in Getters /\ get[d].pc # "idle"
    BY DEF Getting
  <2>2. \A k \in Handles : g_gpu_metrics[k] \in Nat
    BY <1>4 DEF GetInv, GetTyped
  <2>3. \A h \in Handles : \A d \in Getting(h) :
           \A k \in Handles : g_gpu_metrics[k] = get'[d].own /\ k # h => get'[d].own = 0
    BY <1>2, <1>3, <1>7, <2>1, <2>2 DEF GetInv, SamplesApart
  <2>4. \A h, k \in Handles : \A d \in Getting(h), e \in Getting(k) :
           get'[d].own = get'[e].own /\ d # e => get'[d].own = 0
    BY <1>2, <1>3, <1>6, <1>8, <2>1 DEF GetInv, SamplesApart, GetRecords
  <2> QED
    BY <1>1, <1>3, <2>3, <2>4 DEF GetInv, SamplesApart
<1>10. ASSUME NEW x \in Getters, get'[x].pc # "idle"
       PROVE  GetInTime(x)' /\ GetQuiet(x)'
  <2>1. CASE x = c
    <3>1. get[c].began <= sampled /\ get[c].began \in Nat
      BY <1>1, <1>2 DEF GetInv, GetInTime, GetRecords
    <3>2. GetQuiet(x)'
      BY <1>2, <1>3, <2>1 DEF GetQuiet, Cached, TakenAlone, TakenTogether
    <3>3. /\ get'[x].began = get[c].began /\ get'[x].own = own /\ get'[x].pc = "cache"
          /\ get'[x].clock = 0 /\ get'[x].power = 0 /\ get'[x].usage = 0 /\ get'[x].busy = 0
      BY <1>2, <1>3, <2>1
    <3>4. get[c].began <= sampled' /\ own <= sampled' /\ (own = 0 \/ own > get[c].began)
      BY <1>1, <1>4, <3>1
    <3>5. GetInTime(x)'
      BY <3>3, <3>4 DEF GetInTime, Recent, Cached, TakenInTime
    <3> QED
      BY <3>2, <3>5
  <2>2. CASE x # c
    <3>1. get'[x] = get[x] /\ GetInTime(x) /\ GetQuiet(x)
      BY <1>3, <1>10, <2>2 DEF GetInv
    <3>2. get[x].began \in Nat /\ get[x].own \in Nat
      BY <1>3, <1>6, <1>10, <2>2 DEF GetRecords
    <3>3. GetQuiet(x)'
      BY <1>1, <3>1 DEF GetQuiet
    <3>4. get'[x].began <= sampled' /\ get'[x].own <= sampled'
      BY <1>4, <3>1, <3>2 DEF GetInTime
    <3>5. GetInTime(x)'
      BY <1>1, <3>1, <3>4 DEF GetInTime
    <3> QED
      BY <3>3, <3>5
  <2> QED
    BY <2>1, <2>2
<1> QED
  BY <1>3, <1>5, <1>9, <1>10 DEF GetInv

\* Under the lock: the entry is now the sample of this Get, or none; the other
\* Gets of the handle under way began before it was taken.
LEMMA GetCachePreserves ==
  ASSUME GetInv, NEW c \in Getters, FillSpecCache(c)
  PROVE  GetInv'
<1> DEFINE r == [get[c] EXCEPT !.pc = "status"]
           g == get[c].handle
<1>1. /\ get[c].pc = "cache" /\ sampled' = sampled
      /\ g_gpu_metrics' = [g_gpu_metrics EXCEPT ![g] = get[c].own]
      /\ get' = [get EXCEPT ![c] = r]
  BY DEF FillSpecCache
<1>2. /\ get[c] \in GetRecords /\ r \in GetRecords /\ g \in Handles /\ c \in Getting(g)
      /\ r = [get[c] EXCEPT !.pc = r.pc] /\ r.pc = "status"
  BY <1>1, GettingTyped DEF GetInv, GetRecords, GetPcs
<1>3. /\ get' \in [Getters -> {NoGet} \union GetRecords]
      /\ get'[c] = r /\ \A x \in Getters \ {c} : get'[x] = get[x]
      /\ \A h \in Handles : Getting(h)' = Getting(h)
      /\ GetsOverlap'
  BY <1>1, <1>2, GetGoesOn DEF GetRecords
<1>4. /\ r.handle = g /\ r.since = get[c].since /\ r.began = get[c].began
      /\ r.alone = get[c].alone /\ r.own = get[c].own /\ r.clock = get[c].clock
      /\ r.power = get[c].power /\ r.usage = get[c].usage /\ r.busy = get[c].busy
  BY <1>2 DEF GetRecords
<1>5. GetInTime(c) /\ GetQuiet(c) /\ sampled \in Nat /\ g_gpu_metrics \in [Handles -> 0 .. sampled]
  BY <1>1, GetAssumption DEF GetInv, GetTyped
<1>6. GetTyped'
  <2>1. get[c].own \in 0 .. sampled
    BY <1>2, <1>5 DEF GetInTime, GetRecords
  <2> QED
    BY <1>1, <1>2, <1>3, <1>5, <2>1 DEF GetInv, GetTyped
<1>7. /\ g_gpu_metrics'[g] = get[c].own
      /\ \A k \in Handles \ {g} : g_gpu_metrics'[k] = g_gpu_metrics[k]
  BY <1>1, <1>2, <1>5
<1>8. \A x \in Getters : get'[x].pc # "idle" => get[x].pc # "idle"
  BY <1>1, <1>3
<1>9. SamplesApart'
  <2>1. \A h \in Handles : \A d \in Getting(h) : get'[d].own = get[d].own
    BY <1>3, <1>4 DEF Getting
  <2>2. \A h, k \in Handles :
           g_gpu_metrics'[h] = g_gpu_metrics'[k] /\ h # k => g_gpu_metrics'[h] = 0
    BY <1>2, <1>7 DEF GetInv, SamplesApart
  <2>3. \A h \in Handles : \A d \in Getting(h) : \A k \in Handles :
           g_gpu_metrics'[k] = get[d].own /\ k # h => get[d].own = 0
    <3> SUFFICES ASSUME NEW h \in Handles, NEW d \in Getting(h), NEW k \in Handles,
                        g_gpu_metrics'[k] = get[d].own, k # h
                 PROVE  get[d].own = 0
      OBVIOUS
    <3>1. CASE k = g
      <4>1. d # c
        BY <1>2, <3>1 DEF Getting
      <4> QED
        BY <1>2, <1>7, <3>1, <4>1 DEF GetInv, SamplesApart
    <3>2. CASE k # g
      BY <1>7, <3>2 DEF GetInv, SamplesApart
    <3> QED
      BY <3>1, <3>2
  <2> QED
    BY <1>3, <2>1, <2>2, <2>3 DEF GetInv, SamplesApart
<1>10. ASSUME NEW x \in Getters, get'[x].pc # "idle"
       PROVE  GetInTime(x)' /\ GetQuiet(x)'
  <2>1. CASE x = c
    <3>1. get[c].clock = 0 /\ get[c].power = 0 /\ get[c].usage = 0 /\ get[c].busy = 0
      BY <1>1, <1>5 DEF GetQuiet, Cached
    <3>2. GetQuiet(x)'
      <4>1. get'[c].pc = "status" /\ get'[c].handle = g /\ get'[c].own = get[c].own
            /\ get'[c].clock = 0 /\ get'[c].power = 0 /\ get'[c].usage = 0 /\ get'[c].busy = 0
        BY <1>2, <1>3, <1>4, <3>1
      <4> QED
        BY <1>7, <2>1, <4>1 DEF GetQuiet, Cached, TakenAlone, TakenTogether
    <3>3. get[c].since <= get[c].began
      BY <1>2 DEF GetInv, GetsOverlap
    <3>4. Recent(get[c].own, get[c].since)
      BY <1>2, <1>5, <3>3 DEF GetInTime, Recent, GetRecords
    <3>5. GetInTime(x)'
      BY <1>1, <1>3, <1>4, <1>5, <1>7, <2>1, <3>1, <3>4 DEF GetInTime, Recent, TakenInTime
    <3> QED
      BY <3>2, <3>5
  <2>2. CASE x # c /\ get[x].handle = g
    <3>1. get'[x] = get[x] /\ GetInTime(x) /\ GetQuiet(x) /\ get[x] \in GetRecords
          /\ x \in Getting(g)
      BY <1>3, <1>8, <1>10, <2>2, GettingTyped DEF GetInv
    <3>2. ~get[x].alone /\ get[x].since <= get[c].began
      BY <1>2, <2>2, <3>1 DEF GetInv, GetsOverlap
    <3>3. Recent(g_gpu_metrics'[g], get[x].since)
      BY <1>2, <1>5, <1>7, <3>1, <3>2 DEF Recent, GetInTime, GetRecords
    <3> QED
      BY <1>1, <2>2, <3>1, <3>2, <3>3 DEF GetInTime, GetQuiet
  <2>3. CASE x # c /\ get[x].handle # g
    <3>1. get'[x] = get[x] /\ GetInTime(x) /\ GetQuiet(x) /\ get[x].handle \in Handles
      BY <1>3, <1>8, <1>10, <2>3, GettingTyped DEF GetInv
    <3>2. g_gpu_metrics'[get[x].handle] = g_gpu_metrics[get[x].handle]
      BY <1>7, <2>3, <3>1
    <3> QED
      BY <1>1, <3>1, <3>2 DEF GetInTime, GetQuiet
  <2> QED
    BY <2>1, <2>2, <2>3
<1> QED
  BY <1>3, <1>6, <1>9, <1>10 DEF GetInv

\* The status and the statistics take values: whatever they may still take is good.
LEMMA GetTakes ==
  ASSUME GetInv, NEW c \in Getters, get[c].pc \in Cached, NEW r \in GetRecords,
         get' = [get EXCEPT ![c] = r], r.pc \in Cached,
         r.handle = get[c].handle, r.since = get[c].since, r.began = get[c].began,
         r.alone = get[c].alone, r.own = get[c].own,
         TakenInTime(r), TakenTogether(r), r.alone => TakenAlone(r),
         g_gpu_metrics' = g_gpu_metrics,
         \/ sampled' = sampled
         \/ sampled' = sampled + 1 /\ sampled < MaxSamples
  PROVE  GetInv'
<1>1. get[c].pc # "idle"
  BY DEF Cached
<1>2. /\ get' \in [Getters -> {NoGet} \union GetRecords]
      /\ get'[c] = r /\ \A x \in Getters \ {c} : get'[x] = get[x]
      /\ \A h \in Handles : Getting(h)' = Getting(h)
      /\ GetsOverlap'
  BY <1>1, GetGoesOn
<1>3. sampled \in Nat /\ sampled' \in 0 .. MaxSamples /\ sampled <= sampled'
  BY GetAssumption DEF GetInv, GetTyped
<1>4. GetTyped'
  BY <1>2, <1>3 DEF GetInv, GetTyped
<1>5. SamplesApart'
  <2>1. \A h \in Handles : \A d \in Getting(h) : get'[d].own = get[d].own
    BY <1>2 DEF Getting
  <2> QED
    BY <1>2, <2>1 DEF GetInv, SamplesApart
<1>6. ASSUME NEW x \in Getters, get'[x].pc # "idle"
      PROVE  GetInTime(x)' /\ GetQuiet(x)'
  <2>1. GetInTime(x) /\ GetQuiet(x) /\ get[x] \in GetRecords
    BY <1>1, <1>2, <1>6, GettingTyped DEF GetInv
  <2>2. get[x].began <= sampled' /\ get[x].own <= sampled'
    BY <1>3, <2>1 DEF GetInTime, GetRecords
  <2>3. CASE x = c
    <3>1. GetQuiet(x)'
      <4>1. get'[c].alone => r.alone
        BY <1>2
      <4>2. r.pc # "fetch"
        BY DEF Cached
      <4>3. r.alone => g_gpu_metrics'[r.handle] = r.own
        BY <2>1, <2>3 DEF GetQuiet
      <4> QED
        BY <1>2, <2>3, <4>1, <4>2, <4>3 DEF GetQuiet
    <3>2. /\ get'[c].began <= sampled' /\ get'[c].own <= sampled'
          /\ Recent(get'[c].own, get'[c].began)
      BY <1>2, <2>1, <2>2, <2>3 DEF GetInTime
    <3>3. Recent(g_gpu_metrics'[get'[c].handle], get'[c].since)
      BY <1>2, <2>1, <2>3 DEF GetInTime
    <3>4. TakenInTime(get'[c])
      BY <1>2
    <3>5. GetInTime(x)'
      BY <2>3, <3>2, <3>3, <3>4 DEF GetInTime
    <3> QED
      BY <3>1, <3>5
  <2>4. CASE x # c
    <3>1. get'[x] = get[x]
      BY <1>2, <2>4
    <3> QED
      BY <2>1, <2>2, <3>1 DEF GetInTime, GetQuiet
  <2> QED
    BY <2>3, <2>4
<1> QED
  BY <1>2, <1>4, <1>5, <1>6 DEF GetInv

\* What a Get that has cached its sample finds in the cache.
LEMMA GetFinds ==
  ASSUME GetInv, NEW c \in Getters, get[c].pc \in Cached
  PROVE  LET s == g_gpu_metrics[get[c].handle] IN
         /\ get[c] \in GetRecords /\ s \in Nat /\ Recent(s, get[c].since)
         /\ get[c].alone => s = get[c].own
         /\ TakenInTime(get[c]) /\ TakenTogether(get[c])
         /\ get[c].alone => TakenAlone(get[c])
         /\ get[c].since <= sampled
<1>1. get[c].pc # "idle"
  BY DEF Cached
<1>2. get[c] \in GetRecords /\ get[c].handle \in Handles /\ GetInTime(c) /\ GetQuiet(c)
      /\ c \in Getting(get[c].handle)
  BY <1>1, GettingTyped DEF GetInv
<1>3. g_gpu_metrics[get[c].handle] \in Nat
  BY <1>2, GetAssumption DEF GetInv, GetTyped
<1>4. get[c].since <= get[c].began /\ get[c].began <= sampled
  BY <1>2 DEF GetInv, GetsOverlap, GetInTime
<1>5. get[c].since <= sampled
  BY <1>2, <1>4, GetAssumption DEF GetRecords, GetInv, GetTyped
<1> QED
  BY <1>2, <1>3, <1>5 DEF GetInTime, GetQuiet

LEMMA GetStatusPreserves ==
  ASSUME GetInv, NEW c \in Getters, NEW skip \in BOOLEAN, FillStatus(c, skip)
  PROVE  GetInv'
<1> DEFINE v == IF skip THEN 0 ELSE g_gpu_metrics[get[c].handle]
           r == [get[c] EXCEPT !.pc = "stats", !.clock = v]
<1>1. /\ get[c].pc = "status" /\ sampled' = sampled /\ g_gpu_metrics' = g_gpu_metrics
      /\ get' = [get EXCEPT ![c] = r]
  BY DEF FillStatus
<1>2. get[c].pc \in Cached
  BY <1>1 DEF Cached
<1>3. /\ v \in Nat /\ Recent(v, get[c].since) /\ get[c] \in GetRecords
      /\ get[c].alone => v \in {0, get[c].own}
  BY <1>2, GetFinds DEF Recent
<1> HIDE DEF v
<1>4. /\ r \in GetRecords /\ r.pc \in Cached
      /\ r.handle = get[c].handle /\ r.since = get[c].since /\ r.began = get[c].began
      /\ r.alone = get[c].alone /\ r.own = get[c].own /\ r.clock = v
      /\ r.power = get[c].power /\ r.usage = get[c].usage /\ r.busy = get[c].busy
      /\ r.skip = get[c].skip /\ r.pc \notin {"partition", "done"}
  BY <1>3 DEF GetRecords, GetPcs, Cached
<1> HIDE DEF r
<1>5. TakenInTime(r)
  BY <1>2, <1>3, <1>4, GetFinds DEF TakenInTime
<1>6. TakenTogether(r)
  BY <1>1, <1>2, <1>4, GetFinds DEF TakenTogether
<1>7. r.alone => TakenAlone(r)
  BY <1>2, <1>3, <1>4, GetFinds DEF TakenAlone
<1> QED
  BY <1>1, <1>2, <1>4, <1>5, <1>6, <1>7, GetTakes

LEMMA GetStatsPreserves ==
  ASSUME GetInv, NEW c \in Getters, NEW skip \in BOOLEAN, FillStats(c, skip)
  PROVE  GetInv'
<1> DEFINE h == get[c].handle
           s == g_gpu_metrics[h]
           v == IF skip \/ h \in Partitioned THEN 0 ELSE s
           pc == IF h \in Partitioned THEN "partition" ELSE "primary"
           r == [get[c] EXCEPT !.pc = pc, !.skip = skip, !.power = s, !.usage = v, !.busy = v]
<1>1. /\ get[c].pc = "stats" /\ sampled' = sampled /\ g_gpu_metrics' = g_gpu_metrics
      /\ get' = [get EXCEPT ![c] = r]
  BY DEF FillStats
<1>2. get[c].pc \in Cached
  BY <1>1 DEF Cached
<1>3. /\ s \in Nat /\ Recent(s, get[c].since) /\ get[c] \in GetRecords
      /\ v \in Nat /\ Recent(v, get[c].since) /\ (skip => v = 0)
      /\ get[c].alone => s = get[c].own /\ v \in {0, get[c].own}
      /\ pc \in GetPcs /\ pc \in Cached /\ pc # "done"
      /\ pc = "partition" => h \in Partitioned
  BY <1>2, GetFinds DEF Recent, GetPcs, Cached
<1> HIDE DEF v, s, pc
<1>4. /\ r \in GetRecords /\ r.pc = pc
      /\ r.handle = h /\ r.since = get[c].since /\ r.began = get[c].began
      /\ r.alone = get[c].alone /\ r.own = get[c].own /\ r.clock = get[c].clock
      /\ r.power = s /\ r.usage = v /\ r.busy = v /\ r.skip = skip
  BY <1>3 DEF GetRecords
<1> HIDE DEF r
<1>5. TakenInTime(r)
  BY <1>2, <1>3, <1>4, GetFinds DEF TakenInTime
<1>6. TakenTogether(r)
  BY <1>3, <1>4 DEF TakenTogether
<1>7. r.alone => TakenAlone(r)
  BY <1>2, <1>3, <1>4, GetFinds DEF TakenAlone
<1> QED
  BY <1>1, <1>2, <1>3, <1>4, <1>5, <1>6, <1>7, GetTakes

\* The fetch of a partition: a second sample, or nothing changes.
LEMMA GetPartitionPreserves ==
  ASSUME GetInv, NEW c \in Getters, FillPartition(c)
  PROVE  GetInv'
<1> DEFINE pc == IF get[c].handle = First THEN "primary" ELSE "done"
<1>1. get[c].pc = "partition" /\ get[c].pc \in Cached /\ g_gpu_metrics' = g_gpu_metrics
  BY DEF FillPartition, Cached
<1>2. /\ sampled \in Nat /\ get[c] \in GetRecords
      /\ get[c].since <= sampled /\ get[c].since \in Nat
      /\ get[c].usage = get[c].busy /\ (get[c].skip => get[c].usage = 0)
      /\ TakenInTime(get[c]) /\ (get[c].alone => TakenAlone(get[c]))
  BY <1>1, GetFinds, GetAssumption DEF GetInv, GetTyped, GetRecords, TakenTogether
<1>3. get[c].handle \in Partitioned
  BY <1>1, GetFinds DEF TakenTogether
<1>4. PICK v \in Nat :
        /\ get' = [get EXCEPT ![c] = [get[c] EXCEPT !.pc = pc, !.usage = v, !.busy = v]]
        /\ sampled' = sampled \/ (sampled < MaxSamples /\ sampled' = sampled + 1)
        /\ v = get[c].usage \/ (~get[c].skip /\ v = sampled + 1)
  <2>1. CASE /\ sampled < MaxSamples /\ sampled' = sampled + 1 /\ ~get[c].skip
             /\ get' = [get EXCEPT ![c] = [@ EXCEPT !.pc = pc, !.usage = sampled + 1,
                                                    !.busy = sampled + 1]]
    <3>1. sampled + 1 \in Nat
      BY <1>2
    <3> WITNESS sampled + 1 \in Nat
    <3> QED
      BY <2>1
  <2>2. CASE /\ sampled' = sampled \/ (sampled < MaxSamples /\ sampled' = sampled + 1)
             /\ get' = [get EXCEPT ![c] = [get[c] EXCEPT !.pc = pc]]
    <3>1. get[c].usage \in Nat
      BY <1>2 DEF GetRecords
    <3>2. [get[c] EXCEPT !.pc = pc]
             = [get[c] EXCEPT !.pc = pc, !.usage = get[c].usage, !.busy = get[c].usage]
      BY <1>2 DEF GetRecords
    <3> WITNESS get[c].usage \in Nat
    <3> QED
      BY <2>2, <3>2
  <2> QED
    BY <2>1, <2>2 DEF FillPartition
<1> DEFINE r == [get[c] EXCEPT !.pc = pc, !.usage = v, !.busy = v]
<1>5. /\ pc \in GetPcs /\ pc \in Cached /\ pc # "partition"
      /\ pc = "done" => get[c].handle # First
  BY DEF GetPcs, Cached
<1> HIDE DEF pc
<1>6. /\ r \in GetRecords /\ r.pc = pc
      /\ r.handle = get[c].handle /\ r.since = get[c].since /\ r.began = get[c].began
      /\ r.alone = get[c].alone /\ r.own = get[c].own /\ r.clock = get[c].clock
      /\ r.power = get[c].power /\ r.usage = v /\ r.busy = v /\ r.skip = get[c].skip
  BY <1>2, <1>5 DEF GetRecords
<1>7. get' = [get EXCEPT ![c] = r]
  BY <1>4
<1> HIDE DEF r
<1>8. TakenInTime(r)
  BY <1>2, <1>4, <1>6 DEF TakenInTime, Recent
<1>9. TakenTogether(r)
  BY <1>2, <1>4, <1>5, <1>6 DEF TakenTogether
<1>10. r.alone => TakenAlone(r)
  BY <1>2, <1>3, <1>5, <1>6 DEF TakenAlone
<1> QED
  BY <1>1, <1>4, <1>5, <1>6, <1>7, <1>8, <1>9, <1>10, GetTakes

\* The last step: the gfx and umc activity of the cache, or nothing changes.
LEMMA GetUsagePreserves ==
  ASSUME GetInv, NEW c \in Getters, FillUsage(c)
  PROVE  GetInv'
<1> DEFINE s == g_gpu_metrics[get[c].handle]
           v == IF get[c].skip \/ s = 0 THEN get[c].usage ELSE s
           r == [get[c] EXCEPT !.pc = "done", !.usage = v]
<1>1. get[c].pc = "primary" /\ get[c].pc \in Cached
  BY DEF FillUsage, Cached
<1>2. /\ get[c] \in GetRecords /\ s \in Nat /\ Recent(s, get[c].since)
      /\ get[c].usage = get[c].busy /\ (get[c].skip => get[c].usage = 0)
      /\ get[c].alone => s = get[c].own
      /\ TakenInTime(get[c]) /\ (get[c].alone => TakenAlone(get[c]))
  BY <1>1, GetFinds DEF TakenTogether
<1>3. /\ get' = [get EXCEPT ![c] = r] /\ sampled' = sampled /\ g_gpu_metrics' = g_gpu_metrics
  BY DEF FillUsage
<1>4. /\ v \in Nat /\ (v = get[c].usage \/ v = s)
      /\ ~get[c].skip /\ s # 0 => v = s
      /\ get[c].skip => v = 0
  BY <1>2 DEF GetRecords
<1> HIDE DEF v, s
<1>5. /\ r \in GetRecords /\ r.pc = "done" /\ r.pc \in Cached
      /\ r.handle = get[c].handle /\ r.since = get[c].since /\ r.began = get[c].began
      /\ r.alone = get[c].alone /\ r.own = get[c].own /\ r.clock = get[c].clock
      /\ r.power = get[c].power /\ r.usage = v /\ r.busy = get[c].busy
  BY <1>2, <1>4 DEF GetRecords, GetPcs, Cached
<1> HIDE DEF r
<1>6. TakenInTime(r)
  BY <1>2, <1>4, <1>5 DEF TakenInTime
<1>7. TakenTogether(r)
  BY <1>5 DEF TakenTogether
<1>8. r.alone => TakenAlone(r)
  BY <1>2, <1>4, <1>5 DEF TakenAlone
<1> QED
  BY <1>1, <1>3, <1>5, <1>6, <1>7, <1>8, GetTakes

LEMMA GetDonePreserves ==
  ASSUME GetInv, NEW c \in Getters, GetDone(c)
  PROVE  GetInv'
<1>1. /\ get' = [get EXCEPT ![c] = NoGet] /\ UNCHANGED <<g_gpu_metrics, sampled>>
      /\ get \in [Getters -> {NoGet} \union GetRecords]
  BY DEF GetDone, GetInv, GetTyped
<1>2. get'[c] = NoGet /\ NoGet.pc = "idle" /\ \A x \in Getters \ {c} : get'[x] = get[x]
  BY <1>1 DEF NoGet
<1>3. \A h \in Handles : \A x \in Getting(h)' : x \in Getting(h) /\ get'[x] = get[x]
  BY <1>2 DEF Getting
<1>4. GetTyped'
  BY <1>1 DEF GetInv, GetTyped
<1>5. SamplesApart'
  BY <1>1, <1>3 DEF GetInv, SamplesApart
<1>6. GetsOverlap'
  BY <1>3 DEF GetInv, GetsOverlap
<1>7. ASSUME NEW x \in Getters, get'[x].pc # "idle"
      PROVE  GetInTime(x)' /\ GetQuiet(x)'
  <2>1. get'[x] = get[x] /\ GetInTime(x) /\ GetQuiet(x)
    BY <1>2, <1>7 DEF GetInv
  <2> QED
    BY <1>1, <2>1 DEF GetInTime, GetQuiet
<1> QED
  BY <1>4, <1>5, <1>6, <1>7 DEF GetInv

LEMMA GetInitHolds == GetInit => GetInv
<1> SUFFICES ASSUME GetInit PROVE GetInv
  OBVIOUS
<1>1. \A c \in Getters : get[c].pc = "idle"
  BY DEF GetInit, NoGet
<1>2. \A h \in Handles : Getting(h) = {} /\ g_gpu_metrics[h] = 0
  BY <1>1 DEF GetInit, Getting
<1> QED
  BY <1>1, <1>2, GetAssumption DEF GetInit, GetInv, GetTyped, SamplesApart, GetsOverlap

LEMMA GetStepPreserves == GetInv /\ [GetNext]_getVars => GetInv'
<1> SUFFICES ASSUME GetInv, [GetNext]_getVars PROVE GetInv'
  OBVIOUS
<1>1. CASE UNCHANGED getVars
  BY <1>1 DEF getVars, GetInv, GetTyped, SamplesApart, GetsOverlap, Getting, GetInTime, GetQuiet
<1>2. ASSUME NEW c \in Getters,
             \/ \E h \in Handles : GetStart(c, h)
             \/ FillSpecFetch(c) \/ FillSpecCache(c) \/ FillPartition(c) \/ FillUsage(c)
             \/ GetDone(c)
             \/ \E skip \in BOOLEAN : FillStatus(c, skip) \/ FillStats(c, skip)
      PROVE  GetInv'
  BY <1>2, GetStartPreserves, GetFetchPreserves, GetCachePreserves, GetStatsPreserves,
     GetPartitionPreserves, GetUsagePreserves, GetDonePreserves, GetStatusPreserves
<1> QED
  BY <1>1, <1>2 DEF GetNext

\* The invariant holds however Gets overlap (amdsmi).
THEOREM GetInvariant == GetSpec => []GetInv
BY GetInitHolds, GetStepPreserves, PTL DEF GetSpec

\* Every cached sample was taken, and is cached under one handle only.
THEOREM GetTypeCorrect == GetSpec => []GetTypeOK
<1>1. GetInv => GetTypeOK
  <2> SUFFICES ASSUME GetInv PROVE GetTypeOK
    OBVIOUS
  <2>1. \A c \in Getters : get[c].pc \in GetPcs \union {"idle"}
    BY GettingTyped DEF GetInv, GetRecords
  <2> QED
    BY <2>1 DEF GetInv, GetTyped, SamplesApart, GetTypeOK
<1> QED
  BY <1>1, GetInvariant, PTL

\* However Gets of a GPU overlap and device calls fail, a response tells of its own
\* time; when no other Get overlaps it tells of one sample, and that of a partition
\* of one more, partition 0 of both (smi_gpu_fill_spec,
\* smi_gpu_fill_status, smi_gpu_fill_stats of amdsmi/smi_api.cc).
THEOREM GetReportsWell == GetSpec => []GetReportsItsSample
<1>1. GetInv => GetReportsItsSample
  <2> SUFFICES ASSUME GetInv, NEW c \in Getters, get[c].pc = "done"
               PROVE  /\ \A s \in Reported(c) : s > get[c].since
                      /\ get[c].alone => TakenAlone(get[c])
    BY DEF GetReportsItsSample, NeverOlderThanOverlap, QuietGetIsOneSample, TakenAlone
  <2>1. GetInTime(c) /\ GetQuiet(c)
    BY DEF GetInv
  <2> QED
    BY <2>1 DEF GetInTime, GetQuiet, TakenInTime, Recent, Reported
<1> QED
  BY <1>1, GetInvariant, PTL

-----------------------------------------------------------------------------
(* The Gets of the wsl back end.                                           *)

WslCached == {"stats", "refetch", "recache", "fill", "partition", "usage", "done"}
WslPcs == {"fetch", "cache"} \union WslCached
WslRecords ==
    [pc : WslPcs, handle : WslHandles, since : Nat, alone : BOOLEAN, skip : BOOLEAN,
     answered : BOOLEAN, own : Metrics, activity : Nat \union {NA}, power : Nat \union {NA},
     temperature : Nat \union {NA}]

\* No structure holds a value that was not fetched, or counts as empty in error.
WslSound(m, n) ==
    /\ \A f \in Fields : m.val[f] <= n
    /\ \A f \in Counted : m.val[f] # 0 => m.size

WslTyped ==
    /\ fetched \in 0 .. MaxFetches
    /\ wsl_metrics \in [WslHandles -> Metrics]
    /\ \A h \in WslHandles : WslSound(wsl_metrics[h], fetched)
    /\ wsl_get \in [WslGetters -> {NoWslGet} \union WslRecords]

\* Gets that overlap, directly or through others, agree on when that began.
WslOverlap ==
    \A h \in WslHandles : \A c, d \in WslGetting(h) :
        /\ wsl_get[c].since = wsl_get[d].since
        /\ wsl_get[c].alone => c = d

WslRecent(m, since) == \A f \in Fields : m.val[f] = 0 \/ m.val[f] > since
WslValue(v, since) == v > 0 => v > since

\* Nothing a Get has taken, or may still take from the cache, is older.
WslInTime(c) ==
    /\ wsl_get[c].since <= fetched
    /\ WslSound(wsl_get[c].own, fetched) /\ WslRecent(wsl_get[c].own, wsl_get[c].since)
    /\ wsl_get[c].pc \in WslCached => WslRecent(wsl_metrics[wsl_get[c].handle], wsl_get[c].since)
    /\ WslValue(wsl_get[c].activity, wsl_get[c].since)
    /\ WslValue(wsl_get[c].power, wsl_get[c].since)
    /\ WslValue(wsl_get[c].temperature, wsl_get[c].since)

\* A Get that is alone and was not answered has nothing in hand, and nothing is cached.
WslQuiet(c) ==
    wsl_get[c].alone /\ ~wsl_get[c].answered =>
        /\ wsl_get[c].own = Empty
        /\ wsl_get[c].pc \in WslCached => wsl_metrics[wsl_get[c].handle] = Empty
        /\ wsl_get[c].activity = NA /\ wsl_get[c].power = NA /\ wsl_get[c].temperature = NA

WslInv ==
    /\ WslTyped
    /\ WslOverlap
    /\ \A c \in WslGetters : wsl_get[c].pc # "idle" => WslInTime(c) /\ WslQuiet(c)

LEMMA WslGettingTyped ==
  ASSUME WslTyped, NEW c \in WslGetters, wsl_get[c].pc # "idle"
  PROVE  /\ wsl_get[c] \in WslRecords /\ wsl_get[c].handle \in WslHandles
         /\ c \in WslGetting(wsl_get[c].handle)
<1>1. NoWslGet.pc = "idle"
  BY DEF NoWslGet
<1>2. wsl_get[c] \in WslRecords
  BY <1>1 DEF WslTyped
<1> QED
  BY <1>2 DEF WslGetting, WslRecords

LEMMA EmptyMetrics ==
  /\ Empty \in Metrics /\ ~Empty.size /\ \A f \in Fields : Empty.val[f] = 0
  /\ \A m \in Metrics : ~m.size /\ (\A f \in Fields : m.val[f] = 0) => m = Empty
BY DEF Empty, Metrics

\* What the calls for single fields make of a structure.
LEMMA FilledMetrics ==
  ASSUME NEW m \in Metrics, NEW n \in Nat, NEW r \in fill_metrics_from_individual(m, n)
  PROVE  /\ r \in Metrics
         /\ \A f \in Fields : IF m.val[f] = 0 THEN r.val[f] \in {0, n} ELSE r.val[f] = m.val[f]
         /\ r.size = (m.size \/ \E f \in Counted : r.val[f] # 0)
<1> DEFINE W == {w \in [Fields -> {m.val[f] : f \in Fields} \union {0, n}] :
                     \A f \in Fields : w[f] \in IF m.val[f] = 0 THEN {0, n} ELSE {m.val[f]}}
<1>1. PICK v \in W : r = [size |-> m.size \/ (\E f \in Counted : v[f] # 0), val |-> v]
  BY DEF fill_metrics_from_individual
<1>2. v \in [Fields -> Nat]
  BY DEF Metrics
<1>3. r.val = v /\ r.size = (m.size \/ \E f \in Counted : v[f] # 0)
  BY <1>1
<1>4. r \in Metrics
  BY <1>1, <1>2 DEF Metrics
<1> QED
  BY <1>3, <1>4

\* A fetch leaves what was there, or gives nothing, or what it fetched; without an
\* answer it leaves an empty structure.
LEMMA WslFetched ==
  ASSUME WslInv, NEW c \in WslGetters, wsl_get[c].pc # "idle", NEW pc \in WslPcs,
         NEW n \in Nat, Fetch(c, pc, n)
  PROVE  \E m \in Metrics, answered \in BOOLEAN :
            /\ wsl_get' = [wsl_get EXCEPT ![c] = [wsl_get[c] EXCEPT !.pc = pc, !.own = m,
                                                                  !.answered = answered]]
            /\ \A f \in Fields : m.val[f] \in {wsl_get[c].own.val[f], 0, n}
            /\ \A f \in Counted : m.val[f] # 0 => m.size
            /\ ~answered => m = Empty /\ ~wsl_get[c].answered
<1> DEFINE own == wsl_get[c].own
<1>1. own \in Metrics /\ wsl_get[c].answered \in BOOLEAN
  BY WslGettingTyped DEF WslInv, WslRecords
<1>2. PICK answer \in Answers(own) : \E m \in fill_metrics_from_individual(answer, n) :
        wsl_get' = [wsl_get EXCEPT ![c] = [wsl_get[c] EXCEPT !.pc = pc, !.own = m,
            !.answered = wsl_get[c].answered \/ answer.size \/ \E f \in Fields : m.val[f] # 0]]
  BY DEF Fetch
<1>3. PICK m \in fill_metrics_from_individual(answer, n) :
        wsl_get' = [wsl_get EXCEPT ![c] = [wsl_get[c] EXCEPT !.pc = pc, !.own = m,
            !.answered = wsl_get[c].answered \/ answer.size \/ \E f \in Fields : m.val[f] # 0]]
  BY <1>2
<1>4. answer \in Metrics /\ \A f \in Fields : answer.val[f] \in {own.val[f], 0}
  BY <1>1, EmptyMetrics DEF Answers, Empty, Metrics
<1>5. /\ m \in Metrics
      /\ \A f \in Fields : IF answer.val[f] = 0 THEN m.val[f] \in {0, n} ELSE m.val[f] = answer.val[f]
      /\ m.size = (answer.size \/ \E f \in Counted : m.val[f] # 0)
  BY <1>4, FilledMetrics
<1> DEFINE answered == wsl_get[c].answered \/ answer.size \/ (\E f \in Fields : m.val[f] # 0)
<1>6. ~answered => m = Empty /\ ~wsl_get[c].answered
  <2> SUFFICES ASSUME ~answered PROVE m = Empty
    OBVIOUS
  <2>1. ~answer.size /\ \A f \in Fields : m.val[f] = 0
    OBVIOUS
  <2>2. ~m.size
    BY <1>5, <2>1 DEF Counted, Fields
  <2> QED
    BY <1>5, <2>1, <2>2, EmptyMetrics
<1>7. wsl_get' = [wsl_get EXCEPT ![c] = [wsl_get[c] EXCEPT !.pc = pc, !.own = m,
                                                        !.answered = answered]]
  BY <1>3
<1>8. answered \in BOOLEAN
  BY <1>1
<1>9. /\ \A f \in Fields : m.val[f] \in {own.val[f], 0, n}
      /\ \A f \in Counted : m.val[f] # 0 => m.size
  BY <1>4, <1>5 DEF Counted, Fields
<1> HIDE DEF answered
<1>10. m \in Metrics
  BY <1>5
<1> USE <1>8, <1>10
<1> WITNESS m \in Metrics, answered \in BOOLEAN
<1> QED
  BY <1>6, <1>7, <1>9

LEMMA SoundStaysSound ==
  ASSUME NEW m \in Metrics, WslSound(m, fetched), fetched \in Nat, fetched' \in Nat, fetched <= fetched'
  PROVE  WslSound(m, fetched')
<1>1. \A f \in Fields : m.val[f] \in Nat /\ m.val[f] <= fetched
  BY DEF Metrics, WslSound
<1> QED
  BY <1>1 DEF WslSound

\* A step of one Get keeps the invariant if the Get stays in time and quiet, and the
\* cache keeps its entry or takes what the Get holds.
LEMMA WslStep ==
  ASSUME WslInv, NEW c \in WslGetters, wsl_get[c].pc # "idle", NEW r \in WslRecords,
         wsl_get' = [wsl_get EXCEPT ![c] = r],
         wsl_metrics' \in {wsl_metrics, [wsl_metrics EXCEPT ![wsl_get[c].handle] = r.own]},
         fetched' \in 0 .. MaxFetches, fetched <= fetched',
         r.handle = wsl_get[c].handle, r.since = wsl_get[c].since, r.alone = wsl_get[c].alone,
         WslSound(r.own, fetched'), WslRecent(r.own, r.since),
         r.pc \in WslCached => WslRecent(wsl_metrics'[r.handle], r.since),
         WslValue(r.activity, r.since), WslValue(r.power, r.since),
         WslValue(r.temperature, r.since),
         r.alone /\ ~r.answered =>
            /\ r.own = Empty
            /\ r.pc \in WslCached => wsl_metrics'[r.handle] = Empty
            /\ r.activity = NA /\ r.power = NA /\ r.temperature = NA
  PROVE  WslInv'
<1> DEFINE h0 == wsl_get[c].handle
<1>1. /\ WslTyped /\ WslOverlap /\ fetched \in Nat /\ fetched' \in Nat
      /\ h0 \in WslHandles /\ wsl_get[c] \in WslRecords
      /\ c \in WslGetting(h0) /\ r.own \in Metrics /\ r.pc # "idle"
  BY WslGettingTyped, WslAssumption DEF WslInv, WslTyped, WslRecords, WslPcs, WslCached
<1>2. wsl_get'[c] = r /\ \A x \in WslGetters \ {c} : wsl_get'[x] = wsl_get[x]
  BY <1>1 DEF WslTyped
<1>3. /\ wsl_metrics' \in [WslHandles -> Metrics]
      /\ wsl_metrics'[h0] \in {wsl_metrics[h0], r.own}
      /\ \A h \in WslHandles \ {h0} : wsl_metrics'[h] = wsl_metrics[h]
  BY <1>1 DEF WslTyped
<1>4. \A h \in WslHandles : WslGetting(h)' = WslGetting(h)
  <2> TAKE h \in WslHandles
  <2>1. \A x \in WslGetters : x \in WslGetting(h)' <=> x \in WslGetting(h)
    BY <1>1, <1>2 DEF WslGetting
  <2> QED
    BY <2>1 DEF WslGetting
<1>5. WslTyped'
  <2>1. \A h \in WslHandles : WslSound(wsl_metrics'[h], fetched')
    <3> TAKE h \in WslHandles
    <3>1. wsl_metrics[h] \in Metrics /\ WslSound(wsl_metrics[h], fetched)
      BY <1>1 DEF WslTyped
    <3>2. \A f \in Fields : wsl_metrics[h].val[f] \in Nat
      BY <3>1 DEF Metrics
    <3>3. CASE wsl_metrics'[h] = wsl_metrics[h]
      BY <1>1, <3>1, <3>2, <3>3 DEF WslSound
    <3>4. CASE wsl_metrics'[h] = r.own
      BY <3>4 DEF WslSound
    <3> QED
      BY <1>3, <3>3, <3>4
  <2> QED
    BY <1>1, <1>3, <2>1 DEF WslTyped
<1>6. WslOverlap'
  BY <1>1, <1>2, <1>4 DEF WslOverlap, WslGetting
<1>7. ASSUME NEW x \in WslGetters, wsl_get'[x].pc # "idle" PROVE WslInTime(x)'
  <2>1. CASE x = c
    <3>1. r.since <= fetched'
      <4>1. wsl_get[c].since <= fetched /\ wsl_get[c].since \in Nat
        BY <1>1 DEF WslInv, WslInTime, WslRecords
      <4> QED
        BY <1>1, <4>1
    <3> QED
      BY <1>2, <2>1, <3>1 DEF WslInTime, WslSound, WslRecent, WslValue
  <2>2. CASE x # c
    <3>1. /\ wsl_get'[x] = wsl_get[x] /\ WslInTime(x) /\ wsl_get[x] \in WslRecords
          /\ wsl_get[x].handle \in WslHandles /\ x \in WslGetting(wsl_get[x].handle)
      BY <1>1, <1>2, <1>7, <2>2, WslGettingTyped DEF WslInv
    <3>2. wsl_get[x].since <= fetched' /\ WslSound(wsl_get[x].own, fetched')
      <4>1. /\ wsl_get[x].own \in Metrics /\ wsl_get[x].since \in Nat
            /\ wsl_get[x].since <= fetched /\ WslSound(wsl_get[x].own, fetched)
        BY <3>1 DEF WslRecords, WslInTime
      <4>2. \A f \in Fields : wsl_get[x].own.val[f] \in Nat
        BY <4>1 DEF Metrics
      <4> QED
        BY <1>1, <3>1, <4>1, <4>2 DEF WslSound
    <3>3. wsl_get[x].pc \in WslCached
            => WslRecent(wsl_metrics'[wsl_get[x].handle], wsl_get[x].since)
      <4>1. CASE wsl_get[x].handle = h0
        <5>1. wsl_get[x].since = r.since
          BY <1>1, <3>1, <4>1 DEF WslOverlap
        <5> QED
          BY <1>3, <3>1, <4>1, <5>1 DEF WslInTime
      <4>2. CASE wsl_get[x].handle # h0
        BY <1>3, <3>1, <4>2 DEF WslInTime
      <4> QED
        BY <4>1, <4>2
    <3> QED
      BY <3>1, <3>2, <3>3 DEF WslInTime, WslRecent, WslValue, WslSound
  <2> QED
    BY <2>1, <2>2
<1>8. ASSUME NEW x \in WslGetters, wsl_get'[x].pc # "idle" PROVE WslQuiet(x)'
  <2>1. CASE x = c
    BY <1>2, <2>1 DEF WslQuiet
  <2>2. CASE x # c
    <3>1. /\ wsl_get'[x] = wsl_get[x] /\ WslQuiet(x)
          /\ wsl_get[x].handle \in WslHandles /\ x \in WslGetting(wsl_get[x].handle)
      BY <1>1, <1>2, <1>8, <2>2, WslGettingTyped DEF WslInv
    <3>2. wsl_get[x].alone => wsl_get[x].handle # h0
      BY <1>1, <2>2, <3>1 DEF WslOverlap
    <3> QED
      BY <1>3, <3>1, <3>2 DEF WslQuiet
  <2> QED
    BY <2>1, <2>2
<1> QED
  BY <1>5, <1>6, <1>7, <1>8 DEF WslInv

\* What holds of a Get under way, in the shape the lemmas about its steps use.
LEMMA WslFinds ==
  ASSUME WslInv, NEW c \in WslGetters, wsl_get[c].pc # "idle"
  PROVE  /\ wsl_get[c] \in WslRecords /\ wsl_get[c].handle \in WslHandles
         /\ wsl_get[c].own \in Metrics /\ wsl_get[c].since \in Nat
         /\ wsl_get \in [WslGetters -> {NoWslGet} \union WslRecords]
         /\ wsl_metrics \in [WslHandles -> Metrics]
         /\ wsl_metrics[wsl_get[c].handle] \in Metrics
         /\ WslSound(wsl_metrics[wsl_get[c].handle], fetched)
         /\ fetched \in 0 .. MaxFetches /\ fetched \in Nat
         /\ WslInTime(c) /\ WslQuiet(c)
BY WslGettingTyped, WslAssumption DEF WslInv, WslTyped, WslRecords

\* A step that fetches, and goes on with m.
LEMMA WslFetchStep ==
  ASSUME WslInv, NEW c \in WslGetters, wsl_get[c].pc # "idle", NEW pc \in WslPcs,
         fetched < MaxFetches, fetched' = fetched + 1, wsl_metrics' = wsl_metrics,
         pc \in WslCached => wsl_get[c].pc \in WslCached,
         Fetch(c, pc, fetched + 1)
  PROVE  WslInv'
<1>1. /\ wsl_get[c] \in WslRecords /\ wsl_get[c].own \in Metrics /\ fetched \in Nat
      /\ wsl_get[c].since \in Nat /\ WslInTime(c) /\ WslQuiet(c)
      /\ fetched' \in 0 .. MaxFetches /\ fetched <= fetched'
  BY WslFinds, WslAssumption
<1>2. PICK m \in Metrics, answered \in BOOLEAN :
            /\ wsl_get' = [wsl_get EXCEPT ![c] = [wsl_get[c] EXCEPT !.pc = pc, !.own = m,
                                                                  !.answered = answered]]
            /\ \A f \in Fields : m.val[f] \in {wsl_get[c].own.val[f], 0, fetched + 1}
            /\ \A f \in Counted : m.val[f] # 0 => m.size
            /\ ~answered => m = Empty /\ ~wsl_get[c].answered
  <2>1. PICK n \in Nat : n = fetched + 1
    BY <1>1
  <2>2. Fetch(c, pc, n)
    BY <2>1
  <2>3. \E m \in Metrics, answered \in BOOLEAN :
            /\ wsl_get' = [wsl_get EXCEPT ![c] = [wsl_get[c] EXCEPT !.pc = pc, !.own = m,
                                                                  !.answered = answered]]
            /\ \A f \in Fields : m.val[f] \in {wsl_get[c].own.val[f], 0, n}
            /\ \A f \in Counted : m.val[f] # 0 => m.size
            /\ ~answered => m = Empty /\ ~wsl_get[c].answered
    BY <2>2, WslFetched, Zenon
  <2> QED
    BY <2>1, <2>3
<1> DEFINE r == [wsl_get[c] EXCEPT !.pc = pc, !.own = m, !.answered = answered]
<1>3. /\ r \in WslRecords /\ r.pc = pc /\ r.own = m /\ r.answered = answered
      /\ r.handle = wsl_get[c].handle /\ r.since = wsl_get[c].since
      /\ r.alone = wsl_get[c].alone /\ r.activity = wsl_get[c].activity
      /\ r.power = wsl_get[c].power /\ r.temperature = wsl_get[c].temperature
  BY <1>1, <1>2 DEF WslRecords
<1>4. wsl_get' = [wsl_get EXCEPT ![c] = r]
  BY <1>2
<1> HIDE DEF r
<1>5. \A f \in Fields : m.val[f] \in Nat /\ wsl_get[c].own.val[f] \in Nat
  BY <1>1 DEF Metrics
<1>6. WslSound(m, fetched') /\ WslRecent(m, r.since)
  <2>1. /\ wsl_get[c].since <= fetched
        /\ \A f \in Fields : /\ wsl_get[c].own.val[f] <= fetched
                             /\ \/ wsl_get[c].own.val[f] = 0
                                \/ wsl_get[c].own.val[f] > wsl_get[c].since
    BY <1>1 DEF WslInTime, WslSound, WslRecent
  <2> QED
    BY <1>1, <1>2, <1>3, <1>5, <2>1 DEF WslSound, WslRecent
<1>7. /\ r.pc \in WslCached => WslRecent(wsl_metrics'[r.handle], r.since)
      /\ WslValue(r.activity, r.since) /\ WslValue(r.power, r.since)
      /\ WslValue(r.temperature, r.since)
  BY <1>1, <1>3 DEF WslInTime
<1>8. r.alone /\ ~r.answered =>
            /\ r.own = Empty
            /\ r.pc \in WslCached => wsl_metrics'[r.handle] = Empty
            /\ r.activity = NA /\ r.power = NA /\ r.temperature = NA
  BY <1>1, <1>2, <1>3 DEF WslQuiet
<1>9. WslSound(r.own, fetched') /\ WslRecent(r.own, r.since)
  BY <1>3, <1>6
<1> QED
  BY <1>1, <1>3, <1>4, <1>7, <1>8, <1>9, WslStep

\* A step that neither fetches nor takes a value, and caches or drops what it holds.
LEMMA WslMoveStep ==
  ASSUME WslInv, NEW c \in WslGetters, wsl_get[c].pc # "idle", NEW pc \in WslPcs,
         NEW m \in {wsl_get[c].own, wsl_metrics[wsl_get[c].handle], Empty},
         m = wsl_metrics[wsl_get[c].handle] => m = wsl_get[c].own \/ wsl_get[c].pc \in WslCached,
         \/ /\ wsl_metrics' = wsl_metrics
            /\ pc \in WslCached => wsl_get[c].pc \in WslCached
         \/ /\ wsl_metrics' = [wsl_metrics EXCEPT ![wsl_get[c].handle] = wsl_get[c].own]
            /\ m = wsl_get[c].own,
         fetched' \in 0 .. MaxFetches, fetched <= fetched',
         wsl_get' = [wsl_get EXCEPT ![c] = [wsl_get[c] EXCEPT !.pc = pc, !.own = m]]
  PROVE  WslInv'
<1>1. /\ wsl_get[c] \in WslRecords /\ wsl_get[c].own \in Metrics /\ fetched \in Nat
      /\ wsl_get[c].since \in Nat /\ WslInTime(c) /\ WslQuiet(c)
      /\ wsl_get[c].handle \in WslHandles /\ wsl_metrics \in [WslHandles -> Metrics]
      /\ wsl_metrics[wsl_get[c].handle] \in Metrics
      /\ WslSound(wsl_metrics[wsl_get[c].handle], fetched) /\ m \in Metrics /\ fetched' \in Nat
  BY WslFinds, EmptyMetrics, WslAssumption
<1> DEFINE r == [wsl_get[c] EXCEPT !.pc = pc, !.own = m]
<1>2. /\ r \in WslRecords /\ r.pc = pc /\ r.own = m /\ r.answered = wsl_get[c].answered
      /\ r.handle = wsl_get[c].handle /\ r.since = wsl_get[c].since
      /\ r.alone = wsl_get[c].alone /\ r.activity = wsl_get[c].activity
      /\ r.power = wsl_get[c].power /\ r.temperature = wsl_get[c].temperature
  BY <1>1 DEF WslRecords
<1>3. wsl_get' = [wsl_get EXCEPT ![c] = r]
  OBVIOUS
<1> HIDE DEF r
<1>4. WslSound(m, fetched) /\ WslRecent(m, r.since)
  <2>1. CASE m = wsl_get[c].own
    BY <1>1, <1>2, <2>1 DEF WslInTime
  <2>2. CASE m = wsl_metrics[wsl_get[c].handle] /\ wsl_get[c].pc \in WslCached
    BY <1>1, <1>2, <2>2 DEF WslInTime
  <2>3. CASE m = Empty
    BY <1>1, <2>3, EmptyMetrics DEF WslSound, WslRecent, Counted, Fields
  <2> QED
    BY <2>1, <2>2, <2>3
<1>5. WslSound(r.own, fetched') /\ WslRecent(r.own, r.since)
  BY <1>1, <1>2, <1>4, SoundStaysSound
<1>6. wsl_metrics' \in {wsl_metrics, [wsl_metrics EXCEPT ![wsl_get[c].handle] = r.own]}
  BY <1>2
<1>7. /\ r.pc \in WslCached => WslRecent(wsl_metrics'[r.handle], r.since)
      /\ WslValue(r.activity, r.since) /\ WslValue(r.power, r.since)
      /\ WslValue(r.temperature, r.since)
  BY <1>1, <1>2, <1>4 DEF WslInTime
<1>8. r.alone /\ ~r.answered =>
            /\ r.own = Empty
            /\ r.pc \in WslCached => wsl_metrics'[r.handle] = Empty
            /\ r.activity = NA /\ r.power = NA /\ r.temperature = NA
  BY <1>1, <1>2 DEF WslQuiet
<1> QED
  BY <1>1, <1>2, <1>3, <1>5, <1>6, <1>7, <1>8, WslStep

\* A step that only goes on is one that takes up again what it holds.
LEMMA WslGoesOn ==
  ASSUME WslInv, NEW c \in WslGetters, wsl_get[c].pc # "idle", NEW pc \in WslPcs
  PROVE  [wsl_get EXCEPT ![c].pc = pc]
            = [wsl_get EXCEPT ![c] = [wsl_get[c] EXCEPT !.pc = pc, !.own = wsl_get[c].own]]
<1>1. wsl_get[c] \in WslRecords
  BY WslFinds
<1>2. [wsl_get[c] EXCEPT !.pc = pc]
        = [wsl_get[c] EXCEPT !.pc = pc, !.own = wsl_get[c].own]
  BY <1>1 DEF WslRecords
<1> QED
  BY <1>2

LEMMA WslSpecFetchPreserves ==
  ASSUME WslInv, NEW c \in WslGetters, WslSpecFetch(c)
  PROVE  WslInv'
<1>1. /\ wsl_get[c].pc = "fetch" /\ wsl_get[c].pc # "idle" /\ "cache" \in WslPcs
      /\ "cache" \notin WslCached /\ fetched' = fetched + 1 /\ wsl_metrics' = wsl_metrics
      /\ fetched < MaxFetches
  BY DEF WslSpecFetch, WslPcs, WslCached
<1>2. CASE Fetch(c, "cache", fetched + 1)
  BY <1>1, <1>2, WslFetchStep
<1>3. CASE wsl_get' = [wsl_get EXCEPT ![c].pc = "cache"]
  <2>1. fetched' \in 0 .. MaxFetches /\ fetched <= fetched'
    BY <1>1, WslFinds, WslAssumption
  <2>2. wsl_get' = [wsl_get EXCEPT ![c] = [wsl_get[c] EXCEPT !.pc = "cache",
                                                           !.own = wsl_get[c].own]]
    BY <1>1, <1>3, WslGoesOn
  <2> QED
    BY <1>1, <2>1, <2>2, WslMoveStep
<1> QED
  BY <1>2, <1>3 DEF WslSpecFetch

LEMMA WslCachePreserves ==
  ASSUME WslInv, NEW c \in WslGetters, WslSpecCache(c) \/ WslStatsRecache(c)
  PROVE  WslInv'
<1>1. PICK pc \in WslPcs : /\ wsl_get' = [wsl_get EXCEPT ![c].pc = pc]
                           /\ wsl_get[c].pc \in {"cache", "recache"} /\ wsl_get[c].pc # "idle"
  BY DEF WslSpecCache, WslStatsRecache, WslPcs, WslCached
<1>2. /\ wsl_metrics' = [wsl_metrics EXCEPT ![wsl_get[c].handle] = wsl_get[c].own]
      /\ fetched' = fetched
  BY DEF WslSpecCache, WslStatsRecache
<1>3. wsl_get' = [wsl_get EXCEPT ![c] = [wsl_get[c] EXCEPT !.pc = pc,
                                                         !.own = wsl_get[c].own]]
  BY <1>1, WslGoesOn
<1>4. fetched' \in 0 .. MaxFetches /\ fetched <= fetched'
  BY <1>1, <1>2, WslFinds
<1> QED
  BY <1>1, <1>2, <1>3, <1>4, WslMoveStep

LEMMA WslCopyPreserves ==
  ASSUME WslInv, NEW c \in WslGetters, WslStatsCopy(c)
  PROVE  WslInv'
<1> DEFINE m == wsl_metrics[wsl_get[c].handle]
           pc == IF m.size THEN "fill" ELSE "refetch"
<1>1. /\ wsl_get[c].pc = "stats" /\ wsl_get[c].pc # "idle" /\ wsl_get[c].pc \in WslCached
      /\ wsl_metrics' = wsl_metrics /\ fetched' = fetched
      /\ wsl_get' = [wsl_get EXCEPT ![c] = [wsl_get[c] EXCEPT !.pc = pc, !.own = m]]
      /\ pc \in WslPcs
  BY DEF WslStatsCopy, WslCached, WslPcs
<1>2. fetched' \in 0 .. MaxFetches /\ fetched <= fetched'
  BY <1>1, WslFinds
<1> HIDE DEF pc
<1> QED
  BY <1>1, <1>2, WslMoveStep

LEMMA WslRefetchPreserves ==
  ASSUME WslInv, NEW c \in WslGetters, WslStatsRefetch(c)
  PROVE  WslInv'
<1>1. /\ wsl_get[c].pc = "refetch" /\ wsl_get[c].pc # "idle" /\ wsl_get[c].pc \in WslCached
      /\ {"recache", "fill"} \subseteq WslPcs
      /\ fetched' = fetched + 1 /\ wsl_metrics' = wsl_metrics /\ fetched < MaxFetches
  BY DEF WslStatsRefetch, WslPcs, WslCached
<1>2. CASE Fetch(c, "recache", fetched + 1)
  BY <1>1, <1>2, WslFetchStep
<1>3. CASE wsl_get' = [wsl_get EXCEPT ![c] = [@ EXCEPT !.pc = "fill", !.own = Empty]]
  <2>1. fetched' \in 0 .. MaxFetches /\ fetched <= fetched'
    BY <1>1, WslFinds, WslAssumption
  <2>2. wsl_get' = [wsl_get EXCEPT ![c] = [wsl_get[c] EXCEPT !.pc = "fill", !.own = Empty]]
    BY <1>3
  <2> QED
    BY <1>1, <2>1, <2>2, WslMoveStep
<1> QED
  BY <1>2, <1>3 DEF WslStatsRefetch

\* A step that takes values for the response.
LEMMA WslTakeStep ==
  ASSUME WslInv, NEW c \in WslGetters, wsl_get[c].pc \in WslCached, NEW r \in WslRecords,
         wsl_get' = [wsl_get EXCEPT ![c] = r], r.pc \in WslCached,
         r.handle = wsl_get[c].handle, r.since = wsl_get[c].since,
         r.alone = wsl_get[c].alone, r.own = wsl_get[c].own,
         wsl_get[c].answered => r.answered,
         WslValue(r.activity, r.since), WslValue(r.power, r.since),
         WslValue(r.temperature, r.since),
         r.alone /\ ~r.answered => r.activity = NA /\ r.power = NA /\ r.temperature = NA,
         wsl_metrics' = wsl_metrics, fetched' \in 0 .. MaxFetches, fetched <= fetched'
  PROVE  WslInv'
<1>0. wsl_get[c].pc # "idle"
  BY DEF WslCached
<1>1. /\ wsl_get[c] \in WslRecords /\ wsl_get[c].own \in Metrics /\ fetched \in Nat
      /\ wsl_get[c].since \in Nat /\ WslInTime(c) /\ WslQuiet(c) /\ fetched' \in Nat
  BY <1>0, WslFinds, WslAssumption
<1>2. WslSound(r.own, fetched') /\ WslRecent(r.own, r.since)
  <2>1. WslSound(r.own, fetched) /\ r.own \in Metrics
    BY <1>1 DEF WslInTime
  <2> QED
    BY <1>1, <2>1, SoundStaysSound DEF WslInTime
<1>3. /\ r.pc \in WslCached => WslRecent(wsl_metrics'[r.handle], r.since)
      /\ WslValue(r.activity, r.since) /\ WslValue(r.power, r.since)
      /\ WslValue(r.temperature, r.since)
  BY <1>1 DEF WslInTime
<1>4. r.alone /\ ~r.answered =>
            /\ r.own = Empty
            /\ r.pc \in WslCached => wsl_metrics'[r.handle] = Empty
            /\ r.activity = NA /\ r.power = NA /\ r.temperature = NA
  BY <1>1 DEF WslQuiet
<1> QED
  BY <1>0, <1>1, <1>2, <1>3, <1>4, WslStep

LEMMA WslFillPreserves ==
  ASSUME WslInv, NEW c \in WslGetters, NEW skip \in BOOLEAN, WslStatsFill(c, skip)
  PROVE  WslInv'
<1> DEFINE m == wsl_get[c].own
           partition == wsl_get[c].handle \in WslPartitioned
           unused == partition \/ skip
           pc == IF partition THEN "partition" ELSE "usage"
<1>1. /\ wsl_get[c].pc = "fill" /\ wsl_get[c].pc # "idle" /\ wsl_get[c].pc \in WslCached
      /\ pc \in WslCached /\ wsl_metrics' = wsl_metrics
  BY DEF WslStatsFill, WslCached
<1>2. /\ wsl_get[c] \in WslRecords /\ m \in Metrics /\ fetched \in Nat
      /\ wsl_get[c].since \in Nat /\ WslInTime(c) /\ WslQuiet(c)
      /\ fetched \in 0 .. MaxFetches
      /\ wsl_get \in [WslGetters -> {NoWslGet} \union WslRecords]
      /\ wsl_get[c].answered \in BOOLEAN
  <2>1. /\ wsl_get[c] \in WslRecords /\ m \in Metrics /\ fetched \in Nat
        /\ wsl_get[c].since \in Nat /\ WslInTime(c) /\ WslQuiet(c)
        /\ fetched \in 0 .. MaxFetches
        /\ wsl_get \in [WslGetters -> {NoWslGet} \union WslRecords]
    BY <1>1, WslFinds
  <2> QED
    BY <2>1 DEF WslRecords
<1>3. CASE /\ ~m.size /\ UNCHANGED fetched
           /\ wsl_get' = [wsl_get EXCEPT ![c] = [@ EXCEPT !.pc = pc, !.skip = skip]]
  <2> DEFINE r == [wsl_get[c] EXCEPT !.pc = pc, !.skip = skip]
  <2>1. /\ r \in WslRecords /\ r.pc = pc
        /\ r.handle = wsl_get[c].handle /\ r.since = wsl_get[c].since
        /\ r.alone = wsl_get[c].alone /\ r.own = m /\ r.answered = wsl_get[c].answered
        /\ r.activity = wsl_get[c].activity /\ r.power = wsl_get[c].power
        /\ r.temperature = wsl_get[c].temperature
    BY <1>1, <1>2 DEF WslRecords, WslPcs
  <2>2. wsl_get' = [wsl_get EXCEPT ![c] = r]
    BY <1>3
  <2> HIDE DEF r, pc, unused
  <2>3. /\ WslValue(r.activity, r.since) /\ WslValue(r.power, r.since)
        /\ WslValue(r.temperature, r.since)
        /\ r.alone /\ ~r.answered => r.activity = NA /\ r.power = NA /\ r.temperature = NA
    BY <1>2, <2>1 DEF WslInTime, WslQuiet
  <2>4. fetched' \in 0 .. MaxFetches /\ fetched <= fetched'
    BY <1>2, <1>3
  <2> QED
    BY <1>1, <2>1, <2>2, <2>3, <2>4, WslTakeStep
<1>4. CASE m.size
  <2>1. PICK p \in {0, fetched'}, a \in {0, fetched'} :
           wsl_get' = [wsl_get EXCEPT ![c] = [@ EXCEPT !.pc = pc, !.skip = skip,
                         !.power = IF m.val["power"] = 0 THEN p ELSE m.val["power"],
                         !.temperature = m.val["temperature"],
                         !.activity = IF unused THEN NA
                                      ELSE IF m.val["activity"] = 0 THEN a
                                      ELSE m.val["activity"]]]
    BY <1>4 DEF WslStatsFill
  <2>2. /\ fetched' = IF m.val["power"] = 0 \/ (~unused /\ m.val["activity"] = 0)
                      THEN fetched + 1 ELSE fetched
        /\ m.val["power"] = 0 \/ (~unused /\ m.val["activity"] = 0) => fetched < MaxFetches
    BY <1>4 DEF WslStatsFill
  <2> DEFINE P == IF m.val["power"] = 0 THEN p ELSE m.val["power"]
             T == m.val["temperature"]
             A == IF unused THEN NA ELSE IF m.val["activity"] = 0 THEN a ELSE m.val["activity"]
  <2>3. fetched' \in 0 .. MaxFetches /\ fetched' \in Nat /\ fetched <= fetched'
    BY <1>2, <2>2, WslAssumption
  <2>4. /\ m.val["power"] \in Nat /\ m.val["temperature"] \in Nat /\ m.val["activity"] \in Nat
        /\ WslValue(m.val["power"], wsl_get[c].since)
        /\ WslValue(m.val["temperature"], wsl_get[c].since)
        /\ WslValue(m.val["activity"], wsl_get[c].since)
    <3>1. \A f \in Fields : m.val[f] \in Nat /\ WslValue(m.val[f], wsl_get[c].since)
      BY <1>2 DEF Metrics, WslInTime, WslRecent, WslValue
    <3> QED
      BY <3>1 DEF Fields
  <2>5. P \in Nat \union {NA} /\ T \in Nat \union {NA} /\ A \in Nat \union {NA}
    BY <2>1, <2>3, <2>4
  <2>6. WslValue(P, wsl_get[c].since) /\ WslValue(T, wsl_get[c].since)
    <3>1. wsl_get[c].since <= fetched
      BY <1>2 DEF WslInTime
    <3>2. m.val["power"] = 0 => WslValue(p, wsl_get[c].since)
      BY <1>2, <2>1, <2>2, <3>1 DEF WslValue
    <3> QED
      BY <2>4, <3>2
  <2>7. WslValue(A, wsl_get[c].since)
    <3>1. wsl_get[c].since <= fetched
      BY <1>2 DEF WslInTime
    <3>2. ~unused /\ m.val["activity"] = 0 => WslValue(a, wsl_get[c].since)
      BY <1>2, <2>1, <2>2, <3>1 DEF WslValue
    <3>3. WslValue(NA, wsl_get[c].since)
      BY DEF WslValue, NA
    <3> QED
      BY <2>4, <3>2, <3>3
  <2>8. wsl_get[c].alone => wsl_get[c].answered
    BY <1>2, <1>4, EmptyMetrics DEF WslQuiet
  <2> DEFINE r == [wsl_get[c] EXCEPT !.pc = pc, !.skip = skip, !.power = P, !.temperature = T,
                                     !.activity = A]
  <2>9. wsl_get' = [wsl_get EXCEPT ![c] = r]
    BY <2>1
  <2> HIDE DEF P, T, A
  <2>10. /\ r \in WslRecords /\ r.pc = pc
         /\ r.handle = wsl_get[c].handle /\ r.since = wsl_get[c].since
         /\ r.alone = wsl_get[c].alone /\ r.own = m /\ r.answered = wsl_get[c].answered
         /\ r.activity = A /\ r.power = P /\ r.temperature = T
    BY <1>1, <1>2, <2>5 DEF WslRecords, WslPcs
  <2> HIDE DEF r, pc, unused
  <2> QED
    BY <1>1, <2>3, <2>6, <2>7, <2>8, <2>9, <2>10, WslTakeStep
<1> QED
  BY <1>3, <1>4 DEF WslStatsFill

\* The fetch of a partition: an activity of its own, or nothing changes.
LEMMA WslPartitionPreserves ==
  ASSUME WslInv, NEW c \in WslGetters, WslStatsPartition(c)
  PROVE  WslInv'
<1> DEFINE pc == IF wsl_get[c].handle = WslFirst THEN "usage" ELSE "done"
<1>1. /\ wsl_get[c].pc = "partition" /\ wsl_get[c].pc # "idle" /\ wsl_get[c].pc \in WslCached
      /\ pc \in WslCached /\ pc \in WslPcs /\ wsl_metrics' = wsl_metrics
  BY DEF WslStatsPartition, WslPcs, WslCached
<1>2. /\ wsl_get[c] \in WslRecords /\ fetched \in Nat /\ fetched \in 0 .. MaxFetches
      /\ wsl_get[c].since \in Nat /\ WslInTime(c) /\ wsl_get[c].since <= fetched
  BY <1>1, WslFinds DEF WslInTime
<1>3. ASSUME NEW a \in {0, fetched + 1}, fetched < MaxFetches, fetched' = fetched + 1,
             wsl_get' = [wsl_get EXCEPT ![c] = [@ EXCEPT !.pc = pc, !.activity = a,
                                                         !.answered = TRUE]]
      PROVE  WslInv'
  <2>1. a \in Nat \union {NA} /\ WslValue(a, wsl_get[c].since)
    BY <1>2, <1>3 DEF WslValue
  <2> DEFINE r == [wsl_get[c] EXCEPT !.pc = pc, !.activity = a, !.answered = TRUE]
  <2>2. /\ r \in WslRecords /\ r.pc = pc
        /\ r.handle = wsl_get[c].handle /\ r.since = wsl_get[c].since
        /\ r.alone = wsl_get[c].alone /\ r.own = wsl_get[c].own /\ r.answered
        /\ r.activity = a /\ r.power = wsl_get[c].power
        /\ r.temperature = wsl_get[c].temperature
    BY <1>1, <1>2, <2>1 DEF WslRecords
  <2>3. wsl_get' = [wsl_get EXCEPT ![c] = r]
    BY <1>3
  <2> HIDE DEF r, pc
  <2>4. /\ WslValue(r.activity, r.since) /\ WslValue(r.power, r.since)
        /\ WslValue(r.temperature, r.since)
        /\ fetched' \in 0 .. MaxFetches /\ fetched <= fetched'
    BY <1>2, <1>3, <2>1, <2>2, WslAssumption DEF WslInTime
  <2> QED
    BY <1>1, <2>2, <2>3, <2>4, WslTakeStep
<1>4. CASE /\ wsl_get' = [wsl_get EXCEPT ![c].pc = pc]
           /\ fetched' = fetched \/ (fetched < MaxFetches /\ fetched' = fetched + 1)
  <2> HIDE DEF pc
  <2>1. wsl_get' = [wsl_get EXCEPT ![c] = [wsl_get[c] EXCEPT !.pc = pc,
                                                           !.own = wsl_get[c].own]]
    BY <1>1, <1>4, WslGoesOn
  <2>2. fetched' \in 0 .. MaxFetches /\ fetched <= fetched'
    BY <1>2, <1>4, WslAssumption
  <2> QED
    BY <1>1, <2>1, <2>2, WslMoveStep
<1> QED
  BY <1>3, <1>4 DEF WslStatsPartition

LEMMA WslUsagePreserves ==
  ASSUME WslInv, NEW c \in WslGetters, WslStatsUsage(c)
  PROVE  WslInv'
<1> DEFINE m == wsl_metrics[wsl_get[c].handle]
           v == IF wsl_get[c].skip \/ ~m.size THEN wsl_get[c].activity ELSE m.val["activity"]
<1>1. /\ wsl_get[c].pc = "usage" /\ wsl_get[c].pc # "idle" /\ wsl_get[c].pc \in WslCached
      /\ "done" \in WslCached /\ wsl_metrics' = wsl_metrics /\ fetched' = fetched
      /\ wsl_get' = [wsl_get EXCEPT ![c] = [@ EXCEPT !.pc = "done", !.activity = v]]
  BY DEF WslStatsUsage, WslCached
<1>2. /\ wsl_get[c] \in WslRecords /\ m \in Metrics /\ fetched \in Nat
      /\ fetched \in 0 .. MaxFetches /\ WslInTime(c) /\ WslQuiet(c)
  BY <1>1, WslFinds
<1>3. v \in Nat \union {NA} /\ WslValue(v, wsl_get[c].since)
  <2>1. m.val["activity"] \in Nat /\ WslValue(m.val["activity"], wsl_get[c].since)
    <3>1. \A f \in Fields : m.val[f] \in Nat /\ WslValue(m.val[f], wsl_get[c].since)
      BY <1>1, <1>2 DEF Metrics, WslInTime, WslRecent, WslValue
    <3> QED
      BY <3>1 DEF Fields
  <2> QED
    BY <1>2, <2>1 DEF WslRecords, WslInTime
<1>4. wsl_get[c].alone /\ ~wsl_get[c].answered => v = NA
  <2>1. wsl_get[c].alone /\ ~wsl_get[c].answered => m = Empty /\ wsl_get[c].activity = NA
    BY <1>1, <1>2 DEF WslQuiet
  <2> QED
    BY <2>1, EmptyMetrics
<1> HIDE DEF v, m
<1> DEFINE r == [wsl_get[c] EXCEPT !.pc = "done", !.activity = v]
<1>5. /\ r \in WslRecords /\ r.pc = "done"
      /\ r.handle = wsl_get[c].handle /\ r.since = wsl_get[c].since
      /\ r.alone = wsl_get[c].alone /\ r.own = wsl_get[c].own
      /\ r.answered = wsl_get[c].answered
      /\ r.activity = v /\ r.power = wsl_get[c].power /\ r.temperature = wsl_get[c].temperature
  BY <1>1, <1>2, <1>3 DEF WslRecords, WslPcs
<1>6. wsl_get' = [wsl_get EXCEPT ![c] = r]
  BY <1>1
<1> HIDE DEF r
<1>7. /\ WslValue(r.activity, r.since) /\ WslValue(r.power, r.since)
      /\ WslValue(r.temperature, r.since)
      /\ r.alone /\ ~r.answered => r.activity = NA /\ r.power = NA /\ r.temperature = NA
  BY <1>2, <1>3, <1>4, <1>5 DEF WslInTime, WslQuiet
<1>8. /\ fetched' \in 0 .. MaxFetches /\ fetched <= fetched'
      /\ wsl_metrics' = wsl_metrics /\ (wsl_get[c].answered => r.answered)
      /\ wsl_get[c].pc \in WslCached /\ r.pc \in WslCached
  BY <1>1, <1>2, <1>5
<1> QED
  BY <1>5, <1>6, <1>7, <1>8, WslTakeStep

\* A read that begins joins those under way: all of them agree on when that began.
LEMMA WslStartPreserves ==
  ASSUME WslInv, NEW c \in WslGetters, NEW h \in WslHandles, WslStart(c, h)
  PROVE  WslInv'
<1> DEFINE S == {fetched} \union {wsl_get[y].since : y \in WslGetting(h)}
           s == Min(S)
           new == [pc |-> "fetch", handle |-> h, since |-> s, alone |-> WslGetting(h) = {},
                   skip |-> FALSE, answered |-> FALSE, own |-> Empty,
                   activity |-> NA, power |-> NA, temperature |-> NA]
<1>1. /\ wsl_get[c].pc = "idle" /\ UNCHANGED <<wsl_metrics, fetched>>
      /\ wsl_get' = [x \in WslGetters |->
           IF x = c THEN new
           ELSE IF x \in WslGetting(h) THEN [wsl_get[x] EXCEPT !.alone = FALSE]
           ELSE wsl_get[x]]
  BY DEF WslStart, NoWslGet
<1>2. WslTyped /\ WslOverlap /\ fetched \in Nat
  BY WslAssumption DEF WslInv, WslTyped
<1>3. \A x \in WslGetting(h) : /\ x \in WslGetters \ {c} /\ wsl_get[x] \in WslRecords
                              /\ wsl_get[x].since \in Nat /\ wsl_get[x].since <= fetched
                              /\ wsl_get[x].handle = h
  <2> TAKE x \in WslGetting(h)
  <2>1. x \in WslGetters /\ wsl_get[x].pc # "idle" /\ wsl_get[x].handle = h
    BY DEF WslGetting
  <2>2. wsl_get[x] \in WslRecords /\ WslInTime(x)
    BY <1>2, <2>1, WslGettingTyped DEF WslInv
  <2> QED
    BY <1>1, <2>1, <2>2 DEF WslRecords, WslInTime
<1>4. s \in S /\ \A t \in S : s <= t
  <2>1. S \subseteq Nat /\ S # {}
    BY <1>2, <1>3
  <2> HIDE DEF S
  <2> QED
    BY <2>1, LeastNumber DEF Min
<1> HIDE DEF S
<1>5. s \in Nat /\ s <= fetched /\ \A x \in WslGetting(h) : s = wsl_get[x].since
  <2>1. s \in Nat /\ s <= fetched
    BY <1>2, <1>3, <1>4 DEF S
  <2>2. ASSUME NEW x \in WslGetting(h) PROVE s = wsl_get[x].since
    <3>1. s <= wsl_get[x].since
      BY <1>4 DEF S
    <3>2. CASE s = fetched
      BY <1>2, <1>3, <3>1, <3>2
    <3>3. CASE \E y \in WslGetting(h) : s = wsl_get[y].since
      BY <1>2, <1>3, <3>3 DEF WslOverlap
    <3> QED
      BY <1>4, <3>2, <3>3 DEF S
  <2> QED
    BY <2>1, <2>2
<1> HIDE DEF s
<1>6. /\ new \in WslRecords /\ new.pc = "fetch" /\ new.pc \notin WslCached /\ new.handle = h
      /\ new.since = s /\ new.alone = (WslGetting(h) = {}) /\ new.own = Empty
      /\ new.activity = NA /\ new.power = NA /\ new.temperature = NA
  BY <1>5, EmptyMetrics DEF WslRecords, WslPcs, WslCached
<1> HIDE DEF new
<1>7. wsl_get'[c] = new
  BY <1>1
<1>8. \A x \in WslGetters \ {c} :
        wsl_get'[x] = IF x \in WslGetting(h) THEN [wsl_get[x] EXCEPT !.alone = FALSE]
                      ELSE wsl_get[x]
  BY <1>1
<1>9. \A x \in WslGetting(h) :
        LET old == wsl_get[x]
            r == [wsl_get[x] EXCEPT !.alone = FALSE]
        IN  /\ r \in WslRecords /\ r.pc = old.pc /\ r.handle = h /\ r.since = old.since
            /\ ~r.alone /\ r.own = old.own /\ r.activity = old.activity
            /\ r.power = old.power /\ r.temperature = old.temperature
  BY <1>3 DEF WslRecords
<1>10. \A x \in WslGetters \ {c} :
        /\ wsl_get'[x].pc = wsl_get[x].pc
        /\ wsl_get'[x].pc # "idle" =>
             /\ wsl_get'[x] \in WslRecords
             /\ wsl_get'[x].handle = wsl_get[x].handle
             /\ wsl_get'[x].since = wsl_get[x].since
             /\ wsl_get'[x].alone => wsl_get[x].alone /\ x \notin WslGetting(h)
             /\ wsl_get'[x].own = wsl_get[x].own
             /\ wsl_get'[x].activity = wsl_get[x].activity
             /\ wsl_get'[x].power = wsl_get[x].power
             /\ wsl_get'[x].temperature = wsl_get[x].temperature
             /\ wsl_get'[x].alone => wsl_get'[x].answered = wsl_get[x].answered
  <2> TAKE x \in WslGetters \ {c}
  <2>1. CASE x \in WslGetting(h)
    BY <1>3, <1>8, <1>9, <2>1
  <2>2. CASE x \notin WslGetting(h)
    BY <1>2, <1>8, <2>2, WslGettingTyped
  <2> QED
    BY <2>1, <2>2
<1>11. \A k \in WslHandles : \A x \in WslGetting(k)' :
          \/ x = c /\ k = h
          \/ x \in WslGetters \ {c} /\ x \in WslGetting(k)
  BY <1>6, <1>7, <1>10 DEF WslGetting
<1>12. WslTyped'
  <2>1. wsl_get' \in [WslGetters -> {NoWslGet} \union WslRecords]
    <3>1. \A x \in WslGetters : wsl_get'[x] \in {NoWslGet} \union WslRecords
      <4> TAKE x \in WslGetters
      <4>1. CASE x = c
        BY <1>6, <1>7, <4>1
      <4>2. CASE x # c /\ x \in WslGetting(h)
        BY <1>8, <1>9, <4>2
      <4>3. CASE x # c /\ x \notin WslGetting(h)
        BY <1>2, <1>8, <4>3 DEF WslTyped
      <4> QED
        BY <4>1, <4>2, <4>3
    <3> QED
      BY <1>1, <3>1
  <2> QED
    BY <1>1, <1>2, <2>1 DEF WslTyped, WslSound
<1>13. WslOverlap'
  <2> SUFFICES ASSUME NEW k \in WslHandles, NEW x \in WslGetting(k)', NEW y \in WslGetting(k)'
               PROVE  /\ wsl_get'[x].since = wsl_get'[y].since
                      /\ wsl_get'[x].alone => x = y
    BY DEF WslOverlap
  <2>1. x \in WslGetters \ {c} => wsl_get'[x].pc # "idle"
    BY DEF WslGetting
  <2>2. y \in WslGetters \ {c} => wsl_get'[y].pc # "idle"
    BY DEF WslGetting
  <2>3. CASE x = c /\ y = c
    BY <2>3
  <2>4. CASE x = c /\ y # c
    BY <1>5, <1>6, <1>7, <1>10, <1>11, <2>2, <2>4
  <2>5. CASE x # c /\ y = c
    BY <1>5, <1>6, <1>7, <1>10, <1>11, <2>1, <2>5
  <2>6. CASE x # c /\ y # c
    BY <1>2, <1>10, <1>11, <2>1, <2>2, <2>6 DEF WslOverlap
  <2> QED
    BY <2>3, <2>4, <2>5, <2>6
<1>14. ASSUME NEW x \in WslGetters, wsl_get'[x].pc # "idle" PROVE WslInTime(x)'
  <2>1. CASE x = c
    <3>1. /\ WslSound(Empty, fetched') /\ WslRecent(Empty, s)
          /\ WslValue(NA, s)
      BY <1>1, <1>2, EmptyMetrics DEF WslSound, WslRecent, WslValue, NA, Counted, Fields
    <3>2. wsl_get'[c].own = Empty /\ wsl_get'[c].since = s
      BY <1>6, <1>7
    <3>3. WslSound(wsl_get'[c].own, fetched')
      BY <3>1, <3>2 DEF WslSound
    <3>4. WslRecent(wsl_get'[c].own, wsl_get'[c].since) /\ wsl_get'[c].since <= fetched'
      BY <1>1, <1>5, <3>1, <3>2
    <3>5. /\ WslValue(wsl_get'[c].activity, s) /\ WslValue(wsl_get'[c].power, s)
          /\ WslValue(wsl_get'[c].temperature, s) /\ wsl_get'[c].pc \notin WslCached
      BY <1>6, <1>7, <3>1
    <3> QED
      BY <2>1, <3>2, <3>3, <3>4, <3>5 DEF WslInTime, WslRecent, WslValue
  <2>2. CASE x # c
    <3>1. WslInTime(x)
      BY <1>10, <1>14, <2>2 DEF WslInv
    <3>2. WslSound(wsl_get[x].own, fetched')
      BY <1>1, <1>10, <1>14, <2>2, <3>1 DEF WslInTime, WslSound
    <3> QED
      BY <1>1, <1>10, <1>14, <2>2, <3>1, <3>2 DEF WslInTime, WslRecent, WslValue
  <2> QED
    BY <2>1, <2>2
<1>15. ASSUME NEW x \in WslGetters, wsl_get'[x].pc # "idle" PROVE WslQuiet(x)'
  <2>1. CASE x = c
    BY <1>6, <1>7, <2>1 DEF WslQuiet
  <2>2. CASE x # c
    <3>1. WslQuiet(x)
      BY <1>10, <1>15, <2>2 DEF WslInv
    <3> QED
      BY <1>1, <1>10, <1>15, <2>2, <3>1 DEF WslQuiet
  <2> QED
    BY <2>1, <2>2
<1> QED
  BY <1>12, <1>13, <1>14, <1>15 DEF WslInv

LEMMA WslDonePreserves ==
  ASSUME WslInv, NEW c \in WslGetters, WslDone(c)
  PROVE  WslInv'
<1>1. /\ wsl_get' = [wsl_get EXCEPT ![c] = NoWslGet] /\ UNCHANGED <<wsl_metrics, fetched>>
      /\ wsl_get \in [WslGetters -> {NoWslGet} \union WslRecords]
  BY DEF WslDone, WslInv, WslTyped
<1>2. /\ wsl_get'[c] = NoWslGet /\ NoWslGet.pc = "idle"
      /\ \A x \in WslGetters \ {c} : wsl_get'[x] = wsl_get[x]
  BY <1>1 DEF NoWslGet
<1>3. \A h \in WslHandles : \A x \in WslGetting(h)' : x \in WslGetting(h) /\ wsl_get'[x] = wsl_get[x]
  BY <1>2 DEF WslGetting
<1>4. WslTyped'
  BY <1>1 DEF WslInv, WslTyped, WslSound
<1>5. WslOverlap'
  BY <1>3 DEF WslInv, WslOverlap
<1>6. ASSUME NEW x \in WslGetters, wsl_get'[x].pc # "idle"
      PROVE  WslInTime(x)' /\ WslQuiet(x)'
  <2>1. wsl_get'[x] = wsl_get[x] /\ WslInTime(x) /\ WslQuiet(x)
    BY <1>2, <1>6 DEF WslInv
  <2> QED
    BY <1>1, <2>1 DEF WslInTime, WslQuiet, WslSound, WslRecent, WslValue
<1> QED
  BY <1>4, <1>5, <1>6 DEF WslInv

LEMMA WslInitHolds == WslInit => WslInv
<1> SUFFICES ASSUME WslInit PROVE WslInv
  OBVIOUS
<1>1. \A c \in WslGetters : wsl_get[c].pc = "idle"
  BY DEF WslInit, NoWslGet
<1>2. \A h \in WslHandles : WslGetting(h) = {}
  BY <1>1 DEF WslGetting
<1>3. \A h \in WslHandles : wsl_metrics[h] = Empty /\ WslSound(Empty, fetched)
  BY EmptyMetrics DEF WslInit, WslSound, Counted, Fields
<1> QED
  BY <1>1, <1>2, <1>3, EmptyMetrics, WslAssumption DEF WslInit, WslInv, WslTyped, WslOverlap

LEMMA WslStepPreserves == WslInv /\ [WslNext]_wslVars => WslInv'
<1> SUFFICES ASSUME WslInv, [WslNext]_wslVars PROVE WslInv'
  OBVIOUS
<1>1. CASE UNCHANGED wslVars
  BY <1>1 DEF wslVars, WslInv, WslTyped, WslOverlap, WslGetting, WslInTime, WslQuiet, WslSound,
              WslRecent, WslValue
<1>2. ASSUME NEW c \in WslGetters,
             \/ \E h \in WslHandles : WslStart(c, h)
             \/ WslSpecFetch(c) \/ WslSpecCache(c) \/ WslStatsCopy(c) \/ WslStatsRefetch(c)
             \/ WslStatsRecache(c) \/ WslStatsPartition(c) \/ WslStatsUsage(c) \/ WslDone(c)
             \/ \E skip \in BOOLEAN : WslStatsFill(c, skip)
      PROVE  WslInv'
  BY <1>2, WslStartPreserves, WslSpecFetchPreserves, WslCachePreserves, WslCopyPreserves,
     WslRefetchPreserves, WslDonePreserves, WslFillPreserves,
     WslPartitionPreserves, WslUsagePreserves
<1> QED
  BY <1>1, <1>2 DEF WslNext

\* The invariant holds however Gets overlap (wslamdsmi).
THEOREM WslInvariant == WslSpec => []WslInv
BY WslInitHolds, WslStepPreserves, PTL DEF WslSpec

\* No cached structure holds a value that was not fetched, and none that holds one of
\* the values that count passes for empty (smi_wsl_fill_metrics_from_individual_).
THEOREM WslTypeCorrect == WslSpec => []WslTypeOK
<1>1. WslInv => WslTypeOK
  <2> SUFFICES ASSUME WslInv PROVE WslTypeOK
    OBVIOUS
  <2>1. \A c \in WslGetters : wsl_get[c].pc \in WslPcs \union {"idle"}
    BY WslGettingTyped DEF WslInv, WslRecords
  <2> QED
    BY <2>1 DEF WslInv, WslTyped, WslTypeOK, WslSound, WslPcs, WslCached
<1> QED
  BY <1>1, WslInvariant, PTL

\* However Gets overlap and the library answers in pieces, a response tells of the time
\* since the GPU was last left alone, and a Get that nothing overlapped and nothing was
\* answered to reports nothing (smi_gpu_fill_spec, smi_gpu_fill_stats of
\* wslamdsmi/smi_api.cc).
THEOREM WslReportsWell == WslSpec => []WslReportsItsSample
<1>1. WslInv => WslReportsItsSample
  <2> SUFFICES ASSUME WslInv, NEW c \in WslGetters, wsl_get[c].pc = "done"
               PROVE  /\ \A v \in {wsl_get[c].activity, wsl_get[c].power, wsl_get[c].temperature} :
                             v > 0 => v > wsl_get[c].since
                      /\ wsl_get[c].alone /\ ~wsl_get[c].answered =>
                             {wsl_get[c].activity, wsl_get[c].power, wsl_get[c].temperature} = {NA}
    BY DEF WslReportsItsSample, WslNeverOlderThanOverlap, NothingFromNothing
  <2>1. WslInTime(c) /\ WslQuiet(c)
    BY DEF WslInv
  <2> QED
    BY <2>1 DEF WslInTime, WslQuiet, WslValue
<1> QED
  BY <1>1, WslInvariant, PTL
=============================================================================
