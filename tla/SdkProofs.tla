----------------------------- MODULE SdkProofs -----------------------------
(***************************************************************************)
(* What the parts of the SDK promise gpuagent, for every size of them: the *)
(* slab (Slab), the event thread (EventThread), the thread pool            *)
(* (ThreadPool) and the timer wheel (TimerWheel).  They share no state,    *)
(* and a section proves each; the last one puts them together, with the    *)
(* requests between threads (IpcProofs) and a watch (ShowProofs).          *)
(***************************************************************************)
EXTENDS IpcProofs, ShowProofs, MCSdk, SequenceTheorems, FiniteSetTheorems, TLAPS

-----------------------------------------------------------------------------
(***************************************************************************)
(* The slab hands out an element once, for every number of blocks and      *)
(* elements: Slab implements Allocator.  That needs more than the counts   *)
(* of the callers: an element is in use in its block exactly when a caller *)
(* holds it, a block that is not allocated has no elements at all, and the *)
(* counter that decides when a block goes is that of its elements in use.  *)
(* How the blocks are linked does not matter for it.                       *)
(***************************************************************************)

Blocks == [prev: SlabBlocks \union {Null}, next: SlabBlocks \union {Null},
           free: SUBSET Elems, in_use: SUBSET Elems, num_in_use: Nat]
Taken(h) == {o \in Objects : h[o] > 0}

\* A block whose elements are what its callers and its counter say.
SoundBlock(r, b, h) ==
    /\ r.free \cap r.in_use = {}
    /\ r.num_in_use = Cardinality(r.in_use)
    /\ \A e \in Elems : h[<<b, e>>] = IF e \in r.in_use THEN 1 ELSE 0

SoundBlocks(blocks, alloc, h) ==
    /\ blocks \in [SlabBlocks -> Blocks]
    /\ alloc \subseteq SlabBlocks
    /\ h \in [Objects -> Nat]
    /\ \A b \in SlabBlocks : /\ SoundBlock(blocks[b], b, h)
                             /\ b \notin alloc => blocks[b].free \union blocks[b].in_use = {}

\* The inductive invariant.
SlabInv ==
    /\ SlabTypeOK
    /\ SoundBlocks(block, allocated, held)
    /\ slab.num_in_use = Cardinality(Taken(held))
    /\ slab.exists \/ slab.num_in_use = 0

LEMMA ElemsFinite == IsFiniteSet(Elems) /\ \A S \in SUBSET Elems : IsFiniteSet(S)
<1>1. IsFiniteSet(0 .. ElemsPerBlock - 1)
  <2>1. 0 \in Int /\ ElemsPerBlock - 1 \in Int
    BY SlabAssumption
  <2> QED
    BY <2>1, FS_Interval
<1> QED
  BY <1>1, FS_Subset DEF Elems

LEMMA ObjectsFinite == IsFiniteSet(Objects) /\ \A S \in SUBSET Objects : IsFiniteSet(S)
BY ElemsFinite, FS_Product, FS_Subset, SlabAssumption DEF Objects

\* Elements change hands one at a time.
LEMMA TakenOneMore ==
  ASSUME NEW h \in [Objects -> Nat], NEW o \in Objects, h[o] = 0
  PROVE  Cardinality(Taken([h EXCEPT ![o] = @ + 1])) = Cardinality(Taken(h)) + 1
<1>1. Taken([h EXCEPT ![o] = @ + 1]) = Taken(h) \union {o} /\ o \notin Taken(h)
  BY DEF Taken
<1>2. IsFiniteSet(Taken(h))
  BY ObjectsFinite DEF Taken
<1> QED
  BY <1>1, <1>2, FS_AddElement

LEMMA TakenOneLess ==
  ASSUME NEW h \in [Objects -> Nat], NEW o \in Objects, h[o] = 1
  PROVE  /\ Cardinality(Taken([h EXCEPT ![o] = @ - 1])) = Cardinality(Taken(h)) - 1
         /\ Cardinality(Taken(h)) - 1 \in Nat
<1>1. Taken([h EXCEPT ![o] = @ - 1]) = Taken(h) \ {o} /\ o \in Taken(h)
  BY DEF Taken
<1>2. IsFiniteSet(Taken(h)) /\ IsFiniteSet(Taken(h) \ {o})
  BY ObjectsFinite DEF Taken
<1>3. Cardinality(Taken(h) \ {o}) = Cardinality(Taken(h)) - 1
  BY <1>1, <1>2, FS_RemoveElement
<1>4. Cardinality(Taken(h) \ {o}) \in Nat
  BY <1>2, FS_CardinalityType
<1> QED
  BY <1>1, <1>3, <1>4

LEMMA EmptyBlock ==
  /\ NoBlock \in Blocks
  /\ NoBlock.free = {} /\ NoBlock.in_use = {} /\ NoBlock.num_in_use = Cardinality({})
BY FS_EmptySet DEF NoBlock, Blocks

\* TakeElem keeps sound blocks sound: the element was in nobody's hands.
LEMMA TakeElemPreserves ==
  ASSUME NEW blocks, NEW alloc, SoundBlocks(blocks, alloc, held),
         NEW b \in alloc, NEW e \in blocks[b].free, NEW head \in SlabBlocks \union {Null},
         slab.num_in_use = Cardinality(Taken(held)), SlabTypeOK, slab.exists,
         TakeElem(blocks, head, b, e), allocated' = alloc
  PROVE  SlabInv' /\ Abstract!Acquire(<<b, e>>) /\ <<b, e>> \in Objects
<1> DEFINE r == blocks[b]
           o == <<b, e>>
<1>1. /\ b \in SlabBlocks /\ r \in Blocks /\ e \in Elems /\ o \in Objects
      /\ SoundBlock(r, b, held) /\ held \in [Objects -> Nat]
  BY DEF SoundBlocks, Blocks, Objects
<1>2. e \notin r.in_use /\ held[o] = 0
  BY <1>1 DEF SoundBlock
<1>3. /\ held' = [held EXCEPT ![o] = @ + 1] /\ held'[o] = 1
      /\ held' \in [Objects -> Nat]
  BY <1>1, <1>2 DEF TakeElem
<1>4. block'[b] = [r EXCEPT !.free = @ \ {e}, !.in_use = @ \union {e}, !.num_in_use = @ + 1]
      /\ block' \in [SlabBlocks -> Blocks]
      /\ \A x \in SlabBlocks \ {b} : block'[x] = blocks[x]
  BY <1>1 DEF TakeElem, SoundBlocks, Blocks
<1>5. Cardinality(r.in_use \union {e}) = Cardinality(r.in_use) + 1
  BY <1>1, <1>2, ElemsFinite, FS_AddElement DEF Blocks
<1>6. SoundBlock(block'[b], b, held')
  <2>1. /\ block'[b].free = r.free \ {e} /\ block'[b].in_use = r.in_use \union {e}
        /\ block'[b].num_in_use = r.num_in_use + 1
    BY <1>1, <1>4 DEF Blocks
  <2>2. \A f \in Elems : held'[<<b, f>>] = IF f \in r.in_use \union {e} THEN 1 ELSE 0
    BY <1>1, <1>3 DEF SoundBlock, Objects
  <2> QED
    BY <1>1, <1>5, <2>1, <2>2 DEF SoundBlock
<1>7. SoundBlocks(block', allocated', held')
  <2>1. ASSUME NEW x \in SlabBlocks, x # b
        PROVE  SoundBlock(block'[x], x, held')
    BY <1>1, <1>3, <1>4, <2>1 DEF SoundBlocks, SoundBlock, Objects
  <2> QED
    BY <1>3, <1>4, <1>6, <2>1 DEF SoundBlocks
<1>8. slab'.num_in_use = Cardinality(Taken(held'))
  <2>1. Cardinality(Taken(held')) = Cardinality(Taken(held)) + 1
    BY <1>1, <1>2, <1>3, TakenOneMore
  <2>2. slab'.num_in_use = slab.num_in_use + 1
    BY DEF TakeElem, SlabTypeOK
  <2> QED
    BY <2>1, <2>2
<1>9. SlabTypeOK' /\ slab'.exists
  BY <1>3, <1>4, <1>7 DEF SlabTypeOK, TakeElem, SoundBlocks, Blocks
<1> QED
  BY <1>1, <1>2, <1>3, <1>7, <1>8, <1>9 DEF SlabInv, Abstract!Acquire

\* alloc, out of a block of the list or of a fresh one.
LEMMA AllocPreserves ==
  ASSUME SlabInv, NEW b \in SlabBlocks, NEW e \in Elems,
         AllocFromBlock(b, e) \/ AllocNewBlock(b, e)
  PROVE  SlabInv' /\ Abstract!Acquire(<<b, e>>) /\ <<b, e>> \in Objects
<1>1. CASE AllocFromBlock(b, e)
  <2>1. b \in allocated
    BY <1>1 DEF AllocFromBlock, SlabInv, SoundBlocks
  <2>2. slab.head \in SlabBlocks \union {Null}
    BY DEF SlabInv, SlabTypeOK
  <2> QED
    BY <1>1, <2>1, <2>2, TakeElemPreserves DEF AllocFromBlock, SlabInv
<1>2. CASE AllocNewBlock(b, e)
  <2>1. b \notin allocated /\ allocated' = allocated \union {b}
    BY <1>2 DEF AllocNewBlock
  <2>2. slab.head \in SlabBlocks \union {Null} /\ block \in [SlabBlocks -> Blocks]
    BY DEF SlabInv, SlabTypeOK, SoundBlocks
  <2>3. /\ alloc_block(b) \in [SlabBlocks -> Blocks]
        /\ alloc_block(b)[b].free = Elems /\ alloc_block(b)[b].in_use = {}
        /\ alloc_block(b)[b].num_in_use = Cardinality({})
    <3>1. alloc_block(b)[b] = [NoBlock EXCEPT !.next = slab.head, !.free = Elems]
      BY DEF alloc_block
    <3>2. ASSUME NEW x \in SlabBlocks PROVE alloc_block(b)[x] \in Blocks
      BY <2>2, <3>1, EmptyBlock DEF alloc_block, Blocks
    <3>3. alloc_block(b) \in [SlabBlocks -> Blocks]
      BY <3>2 DEF alloc_block
    <3> QED
      BY <3>1, <3>3, EmptyBlock DEF Blocks
  <2>4. ASSUME NEW x \in SlabBlocks, x # b
        PROVE  /\ alloc_block(b)[x].free = block[x].free
               /\ alloc_block(b)[x].in_use = block[x].in_use
               /\ alloc_block(b)[x].num_in_use = block[x].num_in_use
    BY <2>2, <2>4 DEF alloc_block, Blocks
  <2>5. SoundBlock(alloc_block(b)[b], b, held)
    <3>1. \A f \in Elems : held[<<b, f>>] = 0
      BY <2>1 DEF SlabInv, SoundBlocks, SoundBlock
    <3> QED
      BY <2>3, <3>1 DEF SoundBlock
  <2>6. SoundBlocks(alloc_block(b), allocated \union {b}, held)
    <3>1. ASSUME NEW x \in SlabBlocks, x # b
          PROVE  /\ SoundBlock(alloc_block(b)[x], x, held)
                 /\ x \notin allocated => alloc_block(b)[x].free \union alloc_block(b)[x].in_use = {}
      BY <2>4, <3>1 DEF SlabInv, SoundBlocks, SoundBlock
    <3> QED
      BY <2>3, <2>5, <3>1 DEF SlabInv, SoundBlocks
  <2> QED
    BY <1>2, <2>1, <2>3, <2>6, TakeElemPreserves DEF AllocNewBlock, SlabInv
<1> QED
  BY <1>1, <1>2

\* free, up to the point where the block may go.
LEMMA FreedElem ==
  ASSUME SlabInv, NEW b \in SlabBlocks, NEW e \in Elems, held[<<b, e>>] > 0,
         held' = [held EXCEPT ![<<b, e>>] = @ - 1],
         NEW freed, freed = [block[b] EXCEPT !.free = @ \union {e}, !.in_use = @ \ {e},
                                             !.num_in_use = @ - 1]
  PROVE  /\ SoundBlocks([block EXCEPT ![b] = freed], allocated, held')
         /\ slab.num_in_use - 1 = Cardinality(Taken(held'))
         /\ slab.num_in_use - 1 \in Nat
         /\ freed.num_in_use = 0 => freed.in_use = {}
         /\ Abstract!Release(<<b, e>>) /\ <<b, e>> \in Objects
<1> DEFINE r == block[b]
           o == <<b, e>>
<1>1. /\ r \in Blocks /\ o \in Objects /\ SoundBlock(r, b, held)
      /\ block \in [SlabBlocks -> Blocks] /\ held \in [Objects -> Nat]
  BY DEF SlabInv, SoundBlocks, Objects
<1>2. e \in r.in_use /\ held[o] = 1 /\ b \in allocated
  BY <1>1 DEF SoundBlock, SlabInv, SoundBlocks
<1>3. held'[o] = 0 /\ held' \in [Objects -> Nat]
  BY <1>1, <1>2
<1>4. /\ freed.free = r.free \union {e} /\ freed.in_use = r.in_use \ {e}
      /\ freed.num_in_use = r.num_in_use - 1
      /\ freed.prev = r.prev /\ freed.next = r.next
  BY <1>1 DEF Blocks
<1>5. /\ IsFiniteSet(r.in_use) /\ IsFiniteSet(r.in_use \ {e})
      /\ Cardinality(r.in_use \ {e}) = Cardinality(r.in_use) - 1
      /\ Cardinality(r.in_use \ {e}) \in Nat
  <2>1. IsFiniteSet(r.in_use) /\ IsFiniteSet(r.in_use \ {e})
    BY <1>1, ElemsFinite DEF Blocks
  <2>2. Cardinality(r.in_use \ {e}) = Cardinality(r.in_use) - 1
    BY <1>2, <2>1, FS_RemoveElement
  <2> QED
    BY <2>1, <2>2, FS_CardinalityType
<1>6. freed \in Blocks
  BY <1>1, <1>2, <1>4, <1>5 DEF Blocks, SoundBlock
<1>7. SoundBlock(freed, b, held')
  <2>1. \A f \in Elems : held'[<<b, f>>] = IF f \in r.in_use \ {e} THEN 1 ELSE 0
    BY <1>1, <1>2, <1>3 DEF SoundBlock, Objects
  <2>2. freed.num_in_use = Cardinality(freed.in_use)
    BY <1>1, <1>4, <1>5 DEF SoundBlock
  <2>3. freed.free \cap freed.in_use = {}
    BY <1>1, <1>4 DEF SoundBlock
  <2> QED
    BY <1>4, <2>1, <2>2, <2>3 DEF SoundBlock
<1>8. SoundBlocks([block EXCEPT ![b] = freed], allocated, held')
  <2>1. ASSUME NEW x \in SlabBlocks, x # b
        PROVE  SoundBlock(block[x], x, held')
    BY <1>1, <1>3, <2>1 DEF SlabInv, SoundBlocks, SoundBlock, Objects
  <2> QED
    BY <1>1, <1>2, <1>3, <1>6, <1>7, <2>1 DEF SlabInv, SoundBlocks
<1>9. /\ slab.num_in_use - 1 = Cardinality(Taken(held'))
      /\ slab.num_in_use - 1 \in Nat
  <2>1. /\ Cardinality(Taken(held')) = Cardinality(Taken(held)) - 1
        /\ Cardinality(Taken(held)) - 1 \in Nat
    BY <1>1, <1>2, TakenOneLess
  <2> QED
    BY <2>1 DEF SlabInv
<1>10. freed.num_in_use = 0 => freed.in_use = {}
  BY <1>4, <1>5, <1>7, FS_EmptySet DEF SoundBlock
<1> QED
  BY <1>1, <1>2, <1>3, <1>8, <1>9, <1>10 DEF Abstract!Release

\* free_block_ gives back a block none of whose elements is in use.
LEMMA FreeBlockPreserves ==
  ASSUME NEW blocks, SoundBlocks(blocks, allocated, held'), SlabTypeOK, slab.exists,
         NEW b \in SlabBlocks, blocks[b].in_use = {},
         slab.num_in_use - 1 = Cardinality(Taken(held')), slab.num_in_use - 1 \in Nat,
         free_block(blocks, b)
  PROVE  SlabInv'
<1>1. /\ blocks \in [SlabBlocks -> Blocks] /\ allocated' = allocated \ {b}
      /\ held' \in [Objects -> Nat] /\ allocated \subseteq SlabBlocks
  BY DEF free_block, SoundBlocks
<1>2. /\ slab' \in [exists: BOOLEAN, grow: BOOLEAN, head: SlabBlocks \union {Null},
                    num_in_use: Nat]
      /\ slab'.num_in_use = slab.num_in_use - 1 /\ slab'.exists
  <2>1. PICK head \in SlabBlocks \union {Null} :
           slab' = [slab EXCEPT !.head = head, !.num_in_use = @ - 1]
    <3>1. CASE slab.head = b
      BY <1>1, <3>1 DEF free_block, Blocks
    <3>2. CASE slab.head # b
      <4>1. slab' = [slab EXCEPT !.head = slab.head, !.num_in_use = @ - 1]
        BY <3>2 DEF free_block, SlabTypeOK
      <4> QED
        BY <4>1 DEF SlabTypeOK
    <3> QED
      BY <3>1, <3>2
  <2> QED
    BY <2>1 DEF SlabTypeOK
<1>3. /\ block' \in [SlabBlocks -> Blocks]
      /\ block'[b] = NoBlock
      /\ \A x \in SlabBlocks \ {b} : /\ block'[x].free = blocks[x].free
                                     /\ block'[x].in_use = blocks[x].in_use
                                     /\ block'[x].num_in_use = blocks[x].num_in_use
  <2>1. CASE slab.head = b
    BY <1>1, <2>1, EmptyBlock DEF free_block
  <2>2. CASE slab.head # b
    <3>1. ASSUME NEW x \in SlabBlocks
          PROVE  /\ block'[x] \in Blocks
                 /\ x = b => block'[x] = NoBlock
                 /\ x # b => /\ block'[x].free = blocks[x].free
                             /\ block'[x].in_use = blocks[x].in_use
                             /\ block'[x].num_in_use = blocks[x].num_in_use
      <4>1. block'[x] = IF x = b THEN NoBlock
                        ELSE IF x = blocks[b].prev THEN [blocks[x] EXCEPT !.next = blocks[b].next]
                        ELSE IF x = blocks[b].next THEN [blocks[x] EXCEPT !.prev = blocks[b].prev]
                        ELSE blocks[x]
        BY <2>2 DEF free_block
      <4> QED
        BY <1>1, <4>1, EmptyBlock DEF Blocks
    <3>2. block' = [x \in SlabBlocks |-> block'[x]]
      BY <2>2 DEF free_block
    <3> QED
      BY <3>1, <3>2
  <2> QED
    BY <2>1, <2>2
<1>4. SoundBlocks(block', allocated', held')
  <2>1. SoundBlock(block'[b], b, held') /\ block'[b].free \union block'[b].in_use = {}
    BY <1>3, EmptyBlock DEF SoundBlocks, SoundBlock
  <2>2. ASSUME NEW x \in SlabBlocks, x # b
        PROVE  /\ SoundBlock(block'[x], x, held')
               /\ x \notin allocated' => block'[x].free \union block'[x].in_use = {}
    BY <1>1, <1>3, <2>2 DEF SoundBlocks, SoundBlock
  <2> QED
    BY <1>1, <1>3, <2>1, <2>2 DEF SoundBlocks
<1>5. SlabTypeOK'
  BY <1>1, <1>2, <1>3 DEF SlabTypeOK, Blocks
<1> QED
  BY <1>2, <1>4, <1>5 DEF SlabInv

\* free, whether or not the block goes.
LEMMA FreePreserves ==
  ASSUME SlabInv, NEW b \in SlabBlocks, NEW e \in Elems, SlabFree(b, e)
  PROVE  SlabInv' /\ Abstract!Release(<<b, e>>) /\ <<b, e>> \in Objects
<1> DEFINE freed == [block[b] EXCEPT !.free = @ \union {e}, !.in_use = @ \ {e},
                                     !.num_in_use = @ - 1]
           blocks == [block EXCEPT ![b] = freed]
<1>1. /\ SoundBlocks(blocks, allocated, held')
      /\ slab.num_in_use - 1 = Cardinality(Taken(held'))
      /\ slab.num_in_use - 1 \in Nat
      /\ freed.num_in_use = 0 => freed.in_use = {}
      /\ Abstract!Release(<<b, e>>) /\ <<b, e>> \in Objects
  BY FreedElem DEF SlabFree
<1>2. blocks[b] = freed /\ SlabTypeOK /\ slab.exists
  <2>1. slab.num_in_use \in Nat /\ slab.num_in_use # 0
    BY <1>1 DEF SlabInv, SlabTypeOK
  <2> QED
    BY <2>1 DEF SlabInv, SlabTypeOK
<1>3. CASE FreesBlock(freed)
  <2>1. free_block(blocks, b)
    BY <1>3 DEF SlabFree
  <2>2. blocks[b].in_use = {}
    BY <1>1, <1>2, <1>3 DEF FreesBlock
  <2> QED
    BY <1>1, <1>2, <2>1, <2>2, FreeBlockPreserves
<1>4. CASE ~FreesBlock(freed)
  <2>1. /\ block' = blocks /\ allocated' = allocated
        /\ slab' = [slab EXCEPT !.num_in_use = @ - 1]
    BY <1>4 DEF SlabFree
  <2>2. SoundBlocks(block', allocated', held')
    BY <1>1, <2>1
  <2>3. slab'.num_in_use = Cardinality(Taken(held')) /\ slab'.exists
    BY <1>1, <1>2, <2>1 DEF SlabTypeOK
  <2>4. SlabTypeOK'
    BY <1>1, <1>2, <2>1, <2>2 DEF SlabTypeOK, SoundBlocks, Blocks
  <2> QED
    BY <1>1, <2>2, <2>3, <2>4 DEF SlabInv
<1> QED
  BY <1>3, <1>4

\* factory and destroy leave a slab without elements.
LEMMA NoElements ==
  /\ \A alloc \in SUBSET SlabBlocks :
        SoundBlocks([x \in SlabBlocks |-> NoBlock], alloc, [o \in Objects |-> 0])
  /\ Cardinality(Taken([o \in Objects |-> 0])) = 0
<1>1. Taken([o \in Objects |-> 0]) = {}
  BY DEF Taken
<1>2. \A b \in SlabBlocks : SoundBlock(NoBlock, b, [o \in Objects |-> 0])
  BY EmptyBlock DEF SoundBlock, Objects
<1> QED
  BY <1>1, <1>2, EmptyBlock, FS_EmptySet DEF SoundBlocks

\* Destroying the slab takes every element back, whatever blocks the list had.
LEMMA DestroyPreserves ==
  ASSUME SlabInv, SlabDestroy
  PROVE  SlabInv' /\ Abstract!Destroy
<1>1. /\ block' = [b \in SlabBlocks |-> NoBlock] /\ held' = [o \in Objects |-> 0]
      /\ allocated' \in SUBSET SlabBlocks
      /\ slab' = [slab EXCEPT !.exists = FALSE, !.head = Null, !.num_in_use = 0]
  BY DEF SlabDestroy, SlabInv, SlabTypeOK
<1>2. SlabTypeOK' /\ slab'.num_in_use = 0
  BY <1>1, EmptyBlock DEF SlabInv, SlabTypeOK, Blocks
<1>3. SoundBlocks(block', allocated', held') /\ Cardinality(Taken(held')) = 0
  BY <1>1, NoElements
<1> QED
  BY <1>1, <1>2, <1>3 DEF SlabInv, Abstract!Destroy, Abstract!Nobody

\* Every call either moves one element or destroys the slab, as Allocator says.
LEMMA SlabStep ==
  ASSUME SlabInv, [SlabNext]_slabVars
  PROVE  SlabInv' /\ [Abstract!Next]_held
<1>1. CASE UNCHANGED slabVars
  BY <1>1 DEF slabVars, SlabInv, SlabTypeOK, SoundBlocks, SoundBlock, Taken
<1>2. ASSUME NEW grow \in BOOLEAN, SlabFactory(grow)
      PROVE  SlabInv' /\ [Abstract!Next]_held
  <2>1. /\ slab' = [exists |-> TRUE, grow |-> grow, head |-> Null, num_in_use |-> 0]
        /\ block' = block /\ allocated' = allocated /\ held' = held
    BY <1>2 DEF SlabFactory
  <2>2. slab.num_in_use = 0
    BY <1>2 DEF SlabFactory, SlabInv
  <2> QED
    BY <2>1, <2>2 DEF SlabInv, SlabTypeOK
<1>3. ASSUME NEW b \in SlabBlocks, NEW e \in Elems,
             AllocFromBlock(b, e) \/ AllocNewBlock(b, e) \/ SlabFree(b, e)
      PROVE  SlabInv' /\ [Abstract!Next]_held
  BY <1>3, AllocPreserves, FreePreserves DEF Abstract!Next
<1>4. CASE SlabDestroy
  BY <1>4, DestroyPreserves DEF Abstract!Next
<1> QED
  BY <1>1, <1>2, <1>3, <1>4 DEF SlabNext

\* The slab hands out an element once, however it grows and shrinks.
THEOREM SlabHandsOutOnce == SlabSpec => SlabAllocator
<1>1. SlabInit => SlabInv /\ Abstract!Init
  BY NoElements, EmptyBlock DEF SlabInit, SlabInv, SlabTypeOK, Blocks, Abstract!Init,
                                Abstract!Nobody
<1>2. SlabInv /\ [SlabNext]_slabVars => SlabInv' /\ [Abstract!Next]_held
  BY SlabStep
<1> QED
  BY <1>1, <1>2, PTL DEF SlabSpec, SlabAllocator, Abstract!Spec

\* The counters that decide when a block goes and when the slab grows never go
\* below zero, and every block keeps to its own elements.
THEOREM SlabTypeCorrect == SlabSpec => []SlabTypeOK
<1>1. SlabInit => SlabInv
  BY NoElements, EmptyBlock DEF SlabInit, SlabInv, SlabTypeOK, Blocks
<1>2. SlabInv /\ [SlabNext]_slabVars => SlabInv'
  BY SlabStep
<1>3. SlabInv => SlabTypeOK
  BY DEF SlabInv
<1> QED
  BY <1>1, <1>2, <1>3, PTL DEF SlabSpec

-----------------------------------------------------------------------------
(***************************************************************************)
(* The event thread outlives the call that stops it, and no wake-up of its *)
(* loop is lost, for any number of senders and messages.  Both come down   *)
(* to two facts: the stop mutex is the loop's exactly while it serves its  *)
(* queue, so no stop falls into the middle of it; and while messages are   *)
(* queued and the loop may block, the async handle is set or a sender is   *)
(* about to set it.                                                        *)
(***************************************************************************)

EvPcs == {"created", "init", "loop", "run", "process", "suspend", "to wait", "waiting",
          "woken", "exit", "destroyed", "dead"}

Asked == \E s \in Senders : sender[s] = "enqueued"

LoopTyped ==
    /\ ev \in [pc: EvPcs, loop: BOOLEAN]
    /\ flags \in [stop: BOOLEAN, running: BOOLEAN, suspend: BOOLEAN, suspended: BOOLEAN]
    /\ async \in BOOLEAN
    /\ stop_mutex \in {"free", "loop", "owner"}
    /\ lfq \in Nat
    /\ sender \in [Senders -> {"idle", "enqueued"}]
    /\ owner \in [pc: {"created", "started", "stopping", "stopped", "joined"}, early: BOOLEAN]
    /\ bounds \in [sent: 0 .. MaxMessages, suspends: 0 .. MaxSuspends]
    /\ lfq <= bounds.sent

\* The mutex: the loop serves its queue with it, stop sets its flags with it.
LoopMutex ==
    /\ (stop_mutex = "loop") <=> (ev.pc = "process")
    /\ ev.pc \in {"waiting", "woken"} => flags.suspended
    /\ (stop_mutex = "owner") <=> (owner.pc = "stopping")
    /\ flags.stop <=> owner.pc \in {"stopping", "stopped", "joined"}
    /\ flags.stop => ev.pc # "process"
    /\ ev.pc \notin {"destroyed", "dead"} => ev.loop
    /\ owner.pc = "stopping" /\ ~owner.early => ev.pc = "run"

\* The wake-ups.
LoopWoken ==
    /\ owner.pc \in {"stopped", "joined"} /\ ev.pc = "run" /\ ~flags.suspended => async
    /\ bounds.suspends = 0 =>
          /\ ~flags.suspend /\ ~flags.suspended
          /\ ev.pc \notin {"to wait", "waiting", "woken"}
          /\ ev.pc = "suspend" => flags.stop
          /\ lfq > 0 /\ ev.pc \in {"created", "init", "run"} => async \/ Asked
          /\ lfq > 0 /\ ev.pc = "loop" => async \/ Asked \/ flags.stop

LoopInv == LoopTyped /\ LoopMutex /\ LoopWoken

LEMMA LoopStarts ==
  ASSUME EventThreadInit
  PROVE  LoopInv
<1>1. ev.pc = "created" /\ ev.loop /\ ev \in [pc: EvPcs, loop: BOOLEAN]
  BY DEF EventThreadInit, EvPcs
<1>2. /\ flags.stop = FALSE /\ flags.suspend = FALSE /\ flags.suspended = FALSE
      /\ flags \in [stop: BOOLEAN, running: BOOLEAN, suspend: BOOLEAN, suspended: BOOLEAN]
  BY DEF EventThreadInit
<1>3. /\ owner.pc = "created"
      /\ owner \in [pc: {"created", "started", "stopping", "stopped", "joined"}, early: BOOLEAN]
  BY DEF EventThreadInit
<1>4. bounds.sent = 0 /\ bounds \in [sent: 0 .. MaxMessages, suspends: 0 .. MaxSuspends]
  BY EventThreadAssumption DEF EventThreadInit
<1>5. /\ async = FALSE /\ stop_mutex = "free" /\ lfq = 0
      /\ sender \in [Senders -> {"idle", "enqueued"}]
  BY DEF EventThreadInit
<1>6. LoopTyped
  <2>1. lfq \in Nat /\ lfq <= bounds.sent
    BY <1>4, <1>5
  <2>2. async \in BOOLEAN /\ stop_mutex \in {"free", "loop", "owner"}
    BY <1>5
  <2> QED
    BY <1>1, <1>2, <1>3, <1>4, <1>5, <2>1, <2>2 DEF LoopTyped
<1>7. LoopMutex
  BY <1>1, <1>2, <1>3, <1>5 DEF LoopMutex
<1>8. LoopWoken
  BY <1>1, <1>2, <1>3, <1>5 DEF LoopWoken
<1> QED
  BY <1>6, <1>7, <1>8 DEF LoopInv

\* The thread's own steps.
LEMMA LoopThreadStep ==
  ASSUME LoopInv,
         \/ ThreadStart \/ ThreadRunning \/ ThreadInit \/ LoopTest \/ AsyncFires \/ process_lfq
         \/ CheckAndSuspend \/ SuspendWait \/ SuspendReturn \/ ThreadExits \/ ThreadDies
  PROVE  LoopInv'
<1>1. LoopTyped /\ LoopMutex /\ LoopWoken
  BY DEF LoopInv
<1>2. UNCHANGED <<sender, bounds>> /\ (Asked' <=> Asked)
  BY DEF Asked, ThreadStart, ThreadRunning, ThreadInit, LoopTest, AsyncFires, process_lfq,
         CheckAndSuspend, SuspendWait, SuspendReturn, ThreadExits, ThreadDies
<1>3. /\ ev \in [pc: EvPcs, loop: BOOLEAN]
      /\ flags \in [stop: BOOLEAN, running: BOOLEAN, suspend: BOOLEAN, suspended: BOOLEAN]
      /\ owner \in [pc: {"created", "started", "stopping", "stopped", "joined"}, early: BOOLEAN]
      /\ async \in BOOLEAN /\ stop_mutex \in {"free", "loop", "owner"} /\ lfq \in Nat
      /\ bounds.sent \in Nat /\ lfq <= bounds.sent
  BY <1>1, EventThreadAssumption DEF LoopTyped
<1>4. \A x : x \in {"created", "init", "loop", "run", "process", "suspend", "to wait", "waiting",
                    "woken", "exit", "destroyed", "dead"} => x \in EvPcs
  BY DEF EvPcs
<1>5. ASSUME /\ ev' \in [pc: EvPcs, loop: BOOLEAN]
             /\ flags' \in [stop: BOOLEAN, running: BOOLEAN, suspend: BOOLEAN, suspended: BOOLEAN]
             /\ owner' \in [pc: {"created", "started", "stopping", "stopped", "joined"}, early: BOOLEAN]
             /\ async' \in BOOLEAN /\ stop_mutex' \in {"free", "loop", "owner"} /\ lfq' \in Nat
             /\ lfq' <= lfq
      PROVE  LoopTyped'
  <2>1. /\ sender' \in [Senders -> {"idle", "enqueued"}]
        /\ bounds' \in [sent: 0 .. MaxMessages, suspends: 0 .. MaxSuspends]
    BY <1>1, <1>2 DEF LoopTyped
  <2>2. lfq' <= bounds'.sent
    BY <1>2, <1>3, <1>5
  <2> QED
    BY <1>5, <2>1, <2>2 DEF LoopTyped
<1> DEFINE Step(pc) ==
      /\ ev'.pc = pc /\ ev'.loop = ev.loop /\ ev' \in [pc: EvPcs, loop: BOOLEAN]
<1>6. CASE ThreadStart \/ ThreadInit \/ LoopTest \/ ThreadDies
  <2>1. \/ ev.pc = "created" /\ owner.pc = "created" /\ Step("init")
        \/ ev.pc = "init" /\ Step("loop")
        \/ ev.pc = "loop" /\ flags.stop /\ Step("exit")
        \/ ev.pc = "loop" /\ ~flags.stop /\ Step("run")
        \/ ev.pc = "destroyed" /\ Step("dead")
    BY <1>3, <1>4, <1>6 DEF ThreadStart, ThreadInit, LoopTest, ThreadDies, ThreadAt
  <2>2. UNCHANGED <<flags, async, stop_mutex, lfq, owner>>
    BY <1>6 DEF ThreadStart, ThreadInit, LoopTest, ThreadDies
  <2>3. LoopTyped'
    BY <1>3, <1>5, <2>1, <2>2
  <2>4. LoopMutex'
    BY <1>1, <1>3, <2>1, <2>2 DEF LoopMutex
  <2>5. LoopWoken'
    BY <1>1, <1>2, <1>3, <2>1, <2>2 DEF LoopWoken, LoopMutex
  <2> QED
    BY <2>3, <2>4, <2>5 DEF LoopInv
<1>7. CASE ThreadRunning
  <2>1. /\ flags'.stop = flags.stop /\ flags'.suspend = flags.suspend /\ flags'.suspended = flags.suspended
        /\ flags' \in [stop: BOOLEAN, running: BOOLEAN, suspend: BOOLEAN, suspended: BOOLEAN]
        /\ owner.pc = "created" /\ owner'.pc = "started"
        /\ owner' \in [pc: {"created", "started", "stopping", "stopped", "joined"}, early: BOOLEAN]
        /\ UNCHANGED <<ev, async, stop_mutex, lfq>>
    BY <1>3, <1>7 DEF ThreadRunning
  <2>2. LoopTyped'
    BY <1>3, <1>5, <2>1
  <2>3. LoopMutex'
    BY <1>1, <1>3, <2>1 DEF LoopMutex
  <2>4. LoopWoken'
    BY <1>1, <1>2, <1>3, <2>1 DEF LoopWoken
  <2> QED
    BY <2>2, <2>3, <2>4 DEF LoopInv
<1>8. CASE AsyncFires
  <2>1. /\ ev.pc = "run" /\ stop_mutex = "free" /\ async' = FALSE
        /\ UNCHANGED <<flags, lfq, owner>>
        /\ \/ (flags.stop \/ flags.suspend) /\ Step("suspend") /\ stop_mutex' = "free"
           \/ ~flags.stop /\ ~flags.suspend /\ Step("process") /\ stop_mutex' = "loop"
    BY <1>3, <1>4, <1>8 DEF AsyncFires, handle_async, ThreadAt
  <2>2. LoopTyped'
    <3>1. ev' \in [pc: EvPcs, loop: BOOLEAN] /\ stop_mutex' \in {"free", "loop", "owner"}
      BY <2>1
    <3>2. async' \in BOOLEAN
      BY <2>1
    <3>3. /\ flags' \in [stop: BOOLEAN, running: BOOLEAN, suspend: BOOLEAN, suspended: BOOLEAN]
          /\ owner' \in [pc: {"created", "started", "stopping", "stopped", "joined"},
                         early: BOOLEAN]
      BY <1>3, <2>1
    <3>4. lfq' \in Nat /\ lfq' <= lfq
      BY <1>3, <2>1
    <3> QED
      BY <1>5, <3>1, <3>2, <3>3, <3>4
  <2>3. LoopMutex'
    BY <1>1, <1>3, <2>1 DEF LoopMutex
  <2>4. LoopWoken'
    BY <1>1, <1>2, <1>3, <2>1 DEF LoopWoken
  <2> QED
    BY <2>2, <2>3, <2>4 DEF LoopInv
<1>9. CASE process_lfq
  <2>1. /\ ev.pc = "process" /\ UNCHANGED <<flags, async, owner>>
        /\ \/ lfq = 0 /\ lfq' = 0 /\ Step("run") /\ stop_mutex' = "free"
           \/ lfq # 0 /\ lfq' = lfq - 1 /\ ev' = ev /\ stop_mutex' = stop_mutex
    BY <1>3, <1>4, <1>9 DEF process_lfq, ThreadAt
  <2>2. LoopTyped'
    <3>1. lfq' \in Nat /\ lfq' <= lfq
      BY <1>3, <2>1
    <3>2. ev' \in [pc: EvPcs, loop: BOOLEAN] /\ stop_mutex' \in {"free", "loop", "owner"}
      BY <1>3, <2>1
    <3>3. flags' = flags /\ owner' = owner /\ async' = async
      BY <2>1
    <3> QED
      BY <1>3, <1>5, <3>1, <3>2, <3>3
  <2>3. LoopMutex'
    BY <1>1, <1>3, <2>1 DEF LoopMutex
  <2>4. LoopWoken'
    <3>1. ~flags.stop /\ owner.pc \notin {"stopped", "joined"}
      BY <1>1, <2>1 DEF LoopMutex
    <3>2. flags' = flags /\ owner' = owner /\ async' = async /\ bounds' = bounds
      BY <1>2, <2>1
    <3>3. CASE lfq' = 0 /\ ev'.pc = "run"
      <4>1. ~(lfq' > 0)
        BY <3>3
      <4>2. owner'.pc \notin {"stopped", "joined"}
        BY <3>1, <3>2
      <4>3. bounds'.suspends = 0 => ~flags'.suspend /\ ~flags'.suspended
        BY <1>1, <3>2 DEF LoopWoken
      <4>4. ev'.pc \notin {"to wait", "waiting", "woken", "suspend", "loop"}
        BY <3>3
      <4> QED
        BY <4>1, <4>2, <4>3, <4>4 DEF LoopWoken
    <3>4. CASE ev'.pc = "process"
      BY <1>1, <3>1, <3>2, <3>4 DEF LoopWoken
    <3> QED
      BY <2>1, <3>3, <3>4
  <2> QED
    BY <2>2, <2>3, <2>4 DEF LoopInv
<1>10. CASE CheckAndSuspend \/ SuspendWait \/ SuspendReturn
  <2> DEFINE Flags(suspend, suspended) ==
        /\ flags'.stop = flags.stop /\ flags'.suspend = suspend /\ flags'.suspended = suspended
        /\ flags' \in [stop: BOOLEAN, running: BOOLEAN, suspend: BOOLEAN, suspended: BOOLEAN]
  <2>1. \/ ev.pc = "suspend" /\ ~flags.suspend /\ Step("loop") /\ Flags(flags.suspend, flags.suspended)
        \/ ev.pc = "suspend" /\ flags.suspend /\ Step("to wait") /\ Flags(flags.suspend, flags.suspended)
        \/ ev.pc = "suspend" /\ flags.suspend /\ Step("loop") /\ Flags(FALSE, flags.suspended)
        \/ ev.pc = "to wait" /\ Step("waiting") /\ Flags(flags.suspend, TRUE)
        \/ ev.pc \in {"waiting", "woken"} /\ Step("suspend") /\ Flags(flags.suspend, FALSE)
        \/ ev.pc \in {"waiting", "woken"} /\ Step("suspend") /\ Flags(flags.suspend, flags.suspended)
    <3>1. CASE CheckAndSuspend
      BY <1>3, <1>4, <3>1 DEF CheckAndSuspend, ThreadAt
    <3>2. CASE SuspendWait
      BY <1>3, <1>4, <3>2 DEF SuspendWait, ThreadAt
    <3>3. CASE SuspendReturn
      BY <1>3, <1>4, <3>3 DEF SuspendReturn, ThreadAt
    <3> QED
      BY <1>10, <3>1, <3>2, <3>3
  <2>2. UNCHANGED <<async, stop_mutex, lfq, owner>>
    BY <1>10 DEF CheckAndSuspend, SuspendWait, SuspendReturn
  <2>3. LoopTyped'
    <3>1. ev' \in [pc: EvPcs, loop: BOOLEAN]
      BY <2>1
    <3>2. flags' \in [stop: BOOLEAN, running: BOOLEAN, suspend: BOOLEAN, suspended: BOOLEAN]
      BY <2>1
    <3> QED
      BY <1>3, <1>5, <2>2, <3>1, <3>2
  <2>4. LoopMutex'
    BY <1>1, <1>3, <2>1, <2>2 DEF LoopMutex
  <2>5. LoopWoken'
    BY <1>1, <1>2, <1>3, <2>1, <2>2 DEF LoopWoken, LoopMutex
  <2> QED
    BY <2>3, <2>4, <2>5 DEF LoopInv
<1>11. CASE ThreadExits
  <2>1. /\ ev.pc = "exit" /\ ev'.pc = "destroyed" /\ ev' \in [pc: EvPcs, loop: BOOLEAN]
        /\ UNCHANGED <<flags, async, stop_mutex, lfq, owner>>
    BY <1>3, <1>4, <1>11 DEF ThreadExits
  <2>2. LoopTyped'
    BY <1>3, <1>5, <2>1
  <2>3. LoopMutex'
    BY <1>1, <1>3, <2>1 DEF LoopMutex
  <2>4. LoopWoken'
    BY <1>1, <1>2, <1>3, <2>1 DEF LoopWoken
  <2> QED
    BY <2>2, <2>3, <2>4 DEF LoopInv
<1> QED
  BY <1>6, <1>7, <1>8, <1>9, <1>10, <1>11

\* The steps of the threads around it.
LEMMA LoopOthersStep ==
  ASSUME LoopInv,
         \/ \E s \in Senders : message_send(s)
         \/ suspend_req \/ ResumeReq \/ StopSet \/ StopSend \/ ThreadWait
  PROVE  LoopInv'
<1>1. LoopTyped /\ LoopMutex /\ LoopWoken
  BY DEF LoopInv
<1>2. /\ ev \in [pc: EvPcs, loop: BOOLEAN]
      /\ flags \in [stop: BOOLEAN, running: BOOLEAN, suspend: BOOLEAN, suspended: BOOLEAN]
      /\ owner \in [pc: {"created", "started", "stopping", "stopped", "joined"}, early: BOOLEAN]
      /\ async \in BOOLEAN /\ stop_mutex \in {"free", "loop", "owner"} /\ lfq \in Nat
      /\ bounds.sent \in Nat /\ bounds.suspends \in Nat /\ lfq <= bounds.sent
      /\ bounds \in [sent: 0 .. MaxMessages, suspends: 0 .. MaxSuspends]
      /\ sender \in [Senders -> {"idle", "enqueued"}]
      /\ MaxMessages \in Nat /\ MaxSuspends \in Nat
  BY <1>1, EventThreadAssumption DEF LoopTyped
<1>3. ASSUME NEW s \in Senders, message_send(s)
      PROVE  LoopInv'
  <2>1. UNCHANGED <<ev, flags, stop_mutex, owner>>
    BY <1>3 DEF message_send
  <2>2. \/ async' = TRUE /\ lfq' = lfq /\ bounds' = bounds
        \/ /\ async' = async /\ sender'[s] = "enqueued" /\ lfq' = lfq + 1
           /\ bounds' = [bounds EXCEPT !.sent = @ + 1] /\ bounds.sent < MaxMessages
    BY <1>2, <1>3 DEF message_send
  <2>3. /\ bounds' \in [sent: 0 .. MaxMessages, suspends: 0 .. MaxSuspends]
        /\ bounds'.suspends = bounds.suspends /\ lfq' <= bounds'.sent /\ lfq' \in Nat
    BY <1>2, <2>2
  <2>4. sender' \in [Senders -> {"idle", "enqueued"}]
    BY <1>2, <1>3 DEF message_send
  <2>5. LoopTyped'
    BY <1>2, <2>1, <2>2, <2>3, <2>4 DEF LoopTyped
  <2>6. LoopMutex'
    BY <1>1, <2>1 DEF LoopMutex
  <2>7. (async' \/ Asked') /\ (async => async')
    BY <1>3, <2>2 DEF Asked
  <2>8. LoopWoken'
    BY <1>1, <2>1, <2>3, <2>7 DEF LoopWoken
  <2> QED
    BY <2>5, <2>6, <2>8 DEF LoopInv
<1>4. ASSUME sender' = sender, lfq' = lfq,
             /\ ev' \in [pc: EvPcs, loop: BOOLEAN]
             /\ flags' \in [stop: BOOLEAN, running: BOOLEAN, suspend: BOOLEAN, suspended: BOOLEAN]
             /\ owner' \in [pc: {"created", "started", "stopping", "stopped", "joined"}, early: BOOLEAN]
             /\ async' \in BOOLEAN /\ stop_mutex' \in {"free", "loop", "owner"}
             /\ bounds' \in [sent: 0 .. MaxMessages, suspends: 0 .. MaxSuspends]
             /\ bounds'.sent = bounds.sent
      PROVE  LoopTyped' /\ (Asked' <=> Asked)
  <2>1. LoopTyped'
    BY <1>2, <1>4 DEF LoopTyped
  <2> QED
    BY <1>4, <2>1 DEF Asked
<1>5. CASE suspend_req
  <2>1. /\ flags' \in [stop: BOOLEAN, running: BOOLEAN, suspend: BOOLEAN, suspended: BOOLEAN]
        /\ flags'.stop = flags.stop /\ flags'.suspended = flags.suspended
        /\ bounds' \in [sent: 0 .. MaxMessages, suspends: 0 .. MaxSuspends]
        /\ bounds'.sent = bounds.sent /\ bounds'.suspends > 0
        /\ async' = TRUE /\ UNCHANGED <<ev, stop_mutex, lfq, sender, owner>>
    <3>1. /\ flags' = [flags EXCEPT !.suspend = TRUE]
          /\ bounds' = [bounds EXCEPT !.suspends = @ + 1] /\ bounds.suspends < MaxSuspends
          /\ async' = TRUE /\ UNCHANGED <<ev, stop_mutex, lfq, sender, owner>>
      BY <1>5 DEF suspend_req
    <3>2. /\ bounds' \in [sent: 0 .. MaxMessages, suspends: 0 .. MaxSuspends]
          /\ bounds'.sent = bounds.sent /\ bounds'.suspends = bounds.suspends + 1
      BY <1>2, <3>1
    <3>3. bounds'.suspends > 0
      BY <1>2, <3>2
    <3>4. /\ flags' \in [stop: BOOLEAN, running: BOOLEAN, suspend: BOOLEAN, suspended: BOOLEAN]
          /\ flags'.stop = flags.stop /\ flags'.suspended = flags.suspended
      BY <1>2, <3>1
    <3> QED
      BY <3>1, <3>2, <3>3, <3>4
  <2>2. LoopTyped'
    BY <1>2, <1>4, <2>1
  <2>3. LoopMutex'
    BY <1>1, <2>1 DEF LoopMutex
  <2>4. LoopWoken'
    <3>1. bounds'.suspends # 0
      BY <1>2, <2>1
    <3> QED
      BY <2>1, <3>1 DEF LoopWoken
  <2> QED
    BY <2>2, <2>3, <2>4 DEF LoopInv
<1>6. ASSUME resume_req
      PROVE  /\ flags' \in [stop: BOOLEAN, running: BOOLEAN, suspend: BOOLEAN, suspended: BOOLEAN]
             /\ flags'.stop = flags.stop /\ flags'.suspended = flags.suspended /\ ~flags'.suspend
             /\ ev' \in [pc: EvPcs, loop: BOOLEAN] /\ ev'.loop = ev.loop
             /\ ev'.pc = ev.pc \/ (ev.pc = "waiting" /\ ev'.pc = "woken" /\ flags.suspend)
  <2>1. "woken" \in EvPcs
    BY DEF EvPcs
  <2> QED
    BY <1>2, <1>6, <2>1 DEF resume_req
<1>7. CASE ResumeReq
  <2>1. resume_req /\ owner.pc = "started" /\ UNCHANGED <<async, stop_mutex, lfq, sender, owner, bounds>>
    BY <1>7 DEF ResumeReq
  <2>2. LoopTyped' /\ (Asked' <=> Asked)
    BY <1>2, <1>4, <1>6, <2>1
  <2>3. LoopMutex'
    BY <1>1, <1>6, <2>1 DEF LoopMutex
  <2>4. LoopWoken'
    BY <1>1, <1>2, <1>6, <2>1, <2>2 DEF LoopWoken
  <2> QED
    BY <2>2, <2>3, <2>4 DEF LoopInv
<1>8. CASE StopSet
  <2>1. /\ flags' \in [stop: BOOLEAN, running: BOOLEAN, suspend: BOOLEAN, suspended: BOOLEAN]
        /\ flags'.stop /\ flags'.suspended = flags.suspended /\ flags'.suspend = flags.suspend
        /\ owner' \in [pc: {"created", "started", "stopping", "stopped", "joined"}, early: BOOLEAN]
        /\ owner.pc = "started" /\ owner'.pc = "stopping" /\ owner'.early = (ev.pc # "run")
        /\ stop_mutex = "free" /\ stop_mutex' = "owner"
        /\ UNCHANGED <<ev, async, lfq, sender, bounds>>
    BY <1>2, <1>8 DEF StopSet
  <2>2. LoopTyped' /\ (Asked' <=> Asked)
    BY <1>2, <1>4, <2>1
  <2>3. LoopMutex'
    BY <1>1, <2>1 DEF LoopMutex
  <2>4. LoopWoken'
    BY <1>1, <1>2, <2>1, <2>2 DEF LoopWoken
  <2> QED
    BY <2>2, <2>3, <2>4 DEF LoopInv
<1>9. CASE StopSend
  <2>1. /\ owner' \in [pc: {"created", "started", "stopping", "stopped", "joined"}, early: BOOLEAN]
        /\ owner.pc = "stopping" /\ owner'.pc = "stopped" /\ owner'.early = owner.early
        /\ stop_mutex' = "free"
        /\ UNCHANGED <<lfq, sender, bounds>>
        /\ \/ flags.suspended /\ resume_req /\ async' = async
           \/ ~flags.suspended /\ async' = TRUE /\ ev' = ev /\ flags' = flags
    BY <1>2, <1>9 DEF StopSend
  <2>2. LoopTyped' /\ (Asked' <=> Asked)
    BY <1>2, <1>4, <1>6, <2>1
  <2>3. LoopMutex'
    BY <1>1, <1>6, <2>1 DEF LoopMutex
  <2>4. LoopWoken'
    BY <1>1, <1>2, <1>6, <2>1, <2>2 DEF LoopWoken
  <2> QED
    BY <2>2, <2>3, <2>4 DEF LoopInv
<1>10. CASE ThreadWait
  <2>1. /\ owner' \in [pc: {"created", "started", "stopping", "stopped", "joined"}, early: BOOLEAN]
        /\ owner.pc = "stopped" /\ owner'.pc = "joined" /\ owner'.early = owner.early
        /\ UNCHANGED <<ev, flags, async, stop_mutex, lfq, sender, bounds>>
    BY <1>2, <1>10 DEF ThreadWait
  <2>2. LoopTyped' /\ (Asked' <=> Asked)
    BY <1>2, <1>4, <2>1
  <2>3. LoopMutex'
    BY <1>1, <2>1 DEF LoopMutex
  <2>4. LoopWoken'
    BY <1>1, <2>1, <2>2 DEF LoopWoken
  <2> QED
    BY <2>2, <2>3, <2>4 DEF LoopInv
<1> QED
  BY <1>3, <1>5, <1>7, <1>8, <1>9, <1>10

LEMMA LoopStays ==
  ASSUME LoopInv, UNCHANGED eventThreadVars
  PROVE  LoopInv'
<1>1. LoopTyped' /\ LoopMutex'
  BY DEF LoopInv, LoopTyped, LoopMutex, eventThreadVars
<1>2. Asked' <=> Asked
  BY DEF Asked, eventThreadVars
<1>3. LoopWoken'
  BY <1>2 DEF LoopInv, LoopWoken, eventThreadVars
<1> QED
  BY <1>1, <1>3 DEF LoopInv

\* The event thread: the mutex, the flags and the wake-ups agree.
THEOREM LoopInvariant == EventThreadSpec => []LoopInv
<1>1. EventThreadInit => LoopInv
  BY LoopStarts
<1>2. LoopInv /\ [EventThreadNext]_eventThreadVars => LoopInv'
  BY LoopThreadStep, LoopOthersStep, LoopStays DEF EventThreadNext
<1> QED
  BY <1>1, <1>2, PTL DEF EventThreadSpec

\* The type invariant of the event thread.
THEOREM LoopTypeCorrect == EventThreadSpec => []EventThreadTypeOK
<1>1. LoopInv => EventThreadTypeOK
  <2> SUFFICES ASSUME LoopInv PROVE EventThreadTypeOK
    OBVIOUS
  <2>1. LoopTyped /\ LoopMutex
    BY DEF LoopInv
  <2>2. lfq \in 0 .. MaxMessages
    BY <2>1, EventThreadAssumption DEF LoopTyped
  <2> QED
    BY <2>1, <2>2 DEF LoopTyped, LoopMutex, EventThreadTypeOK, EvPcs
<1> QED
  BY <1>1, LoopInvariant, PTL

\* event_thread::stop finds the loop it wakes, if the thread was inside ev_run.
THEOREM LoopIsThereForStop == EventThreadSpec => []LoopOutlivesStop
<1>1. LoopInv => LoopOutlivesStop
  BY DEF LoopInv, LoopMutex, LoopOutlivesStop
<1> QED
  BY <1>1, LoopInvariant, PTL

\* One async stands for stop and for messages, and neither is lost in it
\* (event_thread::stop, message_send, handle_async_).
THEOREM WakeUpsDoArrive == EventThreadSpec => []WakeUpsArrive
<1>1. LoopInv => WakeUpsArrive
  BY DEF LoopInv, LoopWoken, WakeUpsArrive, StopIsHeard, NoMessageStranded, Asked
<1> QED
  BY <1>1, LoopInvariant, PTL

-----------------------------------------------------------------------------
(***************************************************************************)
(* The thread pool, for any number of workers and of works in a round.  A  *)
(* barrier knows nothing of works, it only counts.  That its count says    *)
(* what barrier_wait promises needs the sum: the works of the round that   *)
(* are still to be posted, in the queue, in a worker's hands and done are  *)
(* those of the round, and the barrier's count is those not yet reported   *)
(* (WorksAddUp).  The mutex is then unlocked only when that count is zero, *)
(* however many workers unlock it.  And the semaphore holds a token for    *)
(* every worker that may still sleep, once the pool stops (WorkersWake).   *)
(***************************************************************************)

\* How many workers are at one of the places, and the works still to be posted.
At(f, pcs) == {w \in Workers : f[w].pc \in pcs}
Busy       == {"run", "ran", "done"}
ToPost     == IF poster.pc = "post" THEN poster.left
              ELSE IF poster.pc = "signal" THEN poster.left - 1 ELSE 0

WorkerPcs == {"off", "loop", "get", "sleep", "run", "ran", "done", "check", "exit"}
InRound   == {"post", "signal", "wait"}

PoolTyped ==
    /\ pool \in [stop: BOOLEAN, pending: Nat, sem: Nat, active: Int]
    /\ work_q \in Seq(RoundIds)
    /\ worker \in [Workers -> [pc: WorkerPcs, round: 0 .. Rounds]]
    /\ barrier \in [RoundIds -> [pending: 0 .. Count, locked: BOOLEAN]]
    /\ poster \in [pc: {"no pool", "idle", "post", "signal", "wait", "join"},
                   round: 0 .. Rounds, left: 0 .. Count]
    /\ ran \in [RoundIds -> 0 .. Count]

\* The works of a round, wherever they are.
WorksAddUp ==
    /\ \A r \in RoundIds : /\ r < poster.round => ran[r] = Count
                           /\ r > poster.round => ran[r] = 0
    /\ poster.pc \in InRound =>
         /\ poster.round > 0
         /\ poster.pc # "wait" => poster.left > 0
         /\ barrier[poster.round].pending = ToPost + Len(work_q) + Cardinality(At(worker, Busy))
         /\ ran[poster.round] + ToPost + Len(work_q) + Cardinality(At(worker, {"run"})) = Count
         /\ ~barrier[poster.round].locked => barrier[poster.round].pending = 0
    /\ poster.pc \notin InRound =>
         /\ work_q = <<>> /\ At(worker, Busy) = {}
         /\ poster.round > 0 => ran[poster.round] = Count
    /\ \A i \in 1 .. Len(work_q) : work_q[i] = poster.round
    /\ \A w \in Workers : /\ worker[w].pc \in Busy => worker[w].round = poster.round
                          /\ worker[w].pc \in Busy \union {"check"} => worker[w].round > 0
    /\ pool.pending = Len(work_q) + Cardinality(At(worker, {"run", "ran"}))

\* Who is awake, and who will wake.
WorkersWake ==
    /\ poster.pc \in InRound \union {"idle"} => ~pool.stop
    /\ pool.stop => pool.sem >= Cardinality(At(worker, {"get", "sleep"}))
    /\ work_q # <<>> /\ poster.pc # "signal" /\ (\A w \in Workers : worker[w].pc = "sleep") =>
         pool.sem > 0

PoolInv == PoolTyped /\ WorksAddUp /\ WorkersWake

Workforce == [Workers -> [pc: WorkerPcs, round: 0 .. Rounds]]

LEMMA AtIsFinite ==
  ASSUME NEW f, NEW pcs
  PROVE  IsFiniteSet(At(f, pcs)) /\ Cardinality(At(f, pcs)) \in Nat
<1>1. IsFiniteSet(At(f, pcs))
  BY PoolAssumption, FS_Subset DEF At
<1> QED
  BY <1>1, FS_CardinalityType

\* One worker moves.
LEMMA Recount ==
  ASSUME NEW f, NEW g, NEW w \in Workers, NEW pcs,
         \A x \in Workers \ {w} : g[x].pc = f[x].pc
  PROVE  /\ Cardinality(At(f, pcs)) \in Nat /\ Cardinality(At(g, pcs)) \in Nat
         /\ (f[w].pc \in pcs <=> g[w].pc \in pcs) => Cardinality(At(g, pcs)) = Cardinality(At(f, pcs))
         /\ f[w].pc \notin pcs /\ g[w].pc \in pcs => Cardinality(At(g, pcs)) = Cardinality(At(f, pcs)) + 1
         /\ f[w].pc \in pcs /\ g[w].pc \notin pcs => /\ Cardinality(At(g, pcs)) = Cardinality(At(f, pcs)) - 1
                                                    /\ Cardinality(At(f, pcs)) > 0
<1>1. /\ IsFiniteSet(At(f, pcs)) /\ Cardinality(At(f, pcs)) \in Nat
      /\ IsFiniteSet(At(g, pcs)) /\ Cardinality(At(g, pcs)) \in Nat
  BY AtIsFinite
<1>2. (f[w].pc \in pcs <=> g[w].pc \in pcs) => At(g, pcs) = At(f, pcs)
  BY DEF At
<1>3. ASSUME f[w].pc \notin pcs, g[w].pc \in pcs
      PROVE  Cardinality(At(g, pcs)) = Cardinality(At(f, pcs)) + 1
  <2>1. At(g, pcs) = At(f, pcs) \union {w} /\ w \notin At(f, pcs)
    BY <1>3 DEF At
  <2> QED
    BY <1>1, <2>1, FS_AddElement
<1>4. ASSUME f[w].pc \in pcs, g[w].pc \notin pcs
      PROVE  /\ Cardinality(At(g, pcs)) = Cardinality(At(f, pcs)) - 1
             /\ Cardinality(At(f, pcs)) > 0
  <2>1. At(g, pcs) = At(f, pcs) \ {w} /\ w \in At(f, pcs)
    BY <1>4 DEF At
  <2>2. Cardinality(At(g, pcs)) = Cardinality(At(f, pcs)) - 1
    BY <1>1, <2>1, FS_RemoveElement
  <2> QED
    BY <1>1, <2>2
<1> QED
  BY <1>1, <1>2, <1>3, <1>4

LEMMA Tally ==
  ASSUME NEW w \in Workers, \A x \in Workers \ {w} : worker'[x].pc = worker[x].pc, NEW S
  PROVE  /\ Cardinality(At(worker, S)) \in Nat /\ Cardinality(At(worker', S)) \in Nat
         /\ (worker[w].pc \in S <=> worker'[w].pc \in S) =>
              Cardinality(At(worker', S)) = Cardinality(At(worker, S))
         /\ worker[w].pc \notin S /\ worker'[w].pc \in S =>
              Cardinality(At(worker', S)) = Cardinality(At(worker, S)) + 1
         /\ worker[w].pc \in S /\ worker'[w].pc \notin S =>
              Cardinality(At(worker', S)) = Cardinality(At(worker, S)) - 1
         /\ worker[w].pc \in S /\ worker'[w].pc \notin S => Cardinality(At(worker, S)) > 0
<1>1. PICK f : f = worker
  OBVIOUS
<1>2. PICK g : g = worker'
  OBVIOUS
<1>3. \A x \in Workers \ {w} : g[x].pc = f[x].pc
  BY <1>1, <1>2
<1>4. /\ Cardinality(At(f, S)) \in Nat /\ Cardinality(At(g, S)) \in Nat
      /\ (f[w].pc \in S <=> g[w].pc \in S) => Cardinality(At(g, S)) = Cardinality(At(f, S))
      /\ f[w].pc \notin S /\ g[w].pc \in S => Cardinality(At(g, S)) = Cardinality(At(f, S)) + 1
      /\ f[w].pc \in S /\ g[w].pc \notin S => /\ Cardinality(At(g, S)) = Cardinality(At(f, S)) - 1
                                              /\ Cardinality(At(f, S)) > 0
  BY <1>3, Recount, Zenon
<1> QED
  BY <1>1, <1>2, <1>4

LEMMA Moves ==
  ASSUME PoolTyped, NEW w \in Workers, NEW pc \in WorkerPcs, Go(w, pc)
  PROVE  /\ worker' \in Workforce /\ worker'[w].pc = pc /\ worker'[w].round = worker[w].round
         /\ \A x \in Workers \ {w} : worker'[x] = worker[x] /\ worker'[x].pc = worker[x].pc
BY DEF PoolTyped, Workforce, Go

\* A worker goes round its loop, or to sleep, or wakes up: no work moves.
LEMMA IdleStep ==
  ASSUME PoolInv, NEW w \in Workers,
         \/ WorkLoop(w) \/ Wake(w)
         \/ worker[w].pc = "get" /\ work_q = <<>> /\ Go(w, "sleep") /\ UNCHANGED <<pool, work_q, barrier, poster, once, ran>>
  PROVE  PoolInv'
<1>1. PoolTyped /\ WorksAddUp /\ WorkersWake
  BY DEF PoolInv
<1>2. PICK pc \in {"exit", "get", "loop", "sleep"} :
        /\ Go(w, pc) /\ worker[w].pc \in {"loop", "sleep", "get"}
        /\ pc = "get" => ~pool.stop
        /\ pc = "sleep" => worker[w].pc = "get" /\ work_q = <<>>
        /\ pc = "loop" => worker[w].pc = "sleep"
        /\ \/ pc = "loop" /\ pool.sem > 0 /\ pool' = [pool EXCEPT !.sem = @ - 1]
           \/ pc # "loop" /\ pool' = pool
  BY DEF WorkLoop, Wake
<1>3. UNCHANGED work_q /\ UNCHANGED barrier /\ UNCHANGED poster /\ UNCHANGED ran
  BY DEF WorkLoop, Wake
<1>4. pc \in WorkerPcs
  BY DEF WorkerPcs
<1>5. /\ worker' \in Workforce /\ worker'[w].pc = pc /\ worker'[w].round = worker[w].round
      /\ \A x \in Workers \ {w} : worker'[x] = worker[x] /\ worker'[x].pc = worker[x].pc
  BY <1>1, <1>2, <1>4, Moves
<1>6. /\ pool' \in [stop: BOOLEAN, pending: Nat, sem: Nat, active: Int]
      /\ pool'.stop = pool.stop /\ pool'.pending = pool.pending
      /\ pool'.sem = IF pc = "loop" THEN pool.sem - 1 ELSE pool.sem
  <2>1. pool \in [stop: BOOLEAN, pending: Nat, sem: Nat, active: Int]
    BY <1>1 DEF PoolTyped
  <2> QED
    BY <1>2, <2>1
<1>7. PoolTyped'
  BY <1>1, <1>3, <1>5, <1>6 DEF PoolTyped, Workforce
<1>8. At(worker, Busy)' = At(worker, Busy) /\ At(worker, {"run"})' = At(worker, {"run"})
      /\ At(worker, {"run", "ran"})' = At(worker, {"run", "ran"})
  BY <1>2, <1>5 DEF At, Busy
<1>9. WorksAddUp'
  <2>1. \A x \in Workers :
          /\ worker'[x].pc \in Busy => worker'[x].round = poster'.round
          /\ worker'[x].pc \in Busy \union {"check"} => worker'[x].round > 0
    <3>1. ASSUME NEW x \in Workers
          PROVE  /\ worker'[x].pc \in Busy => worker'[x].round = poster'.round
                 /\ worker'[x].pc \in Busy \union {"check"} => worker'[x].round > 0
      <4>1. CASE x = w
        BY <1>2, <1>5, <4>1 DEF Busy
      <4>2. CASE x # w
        BY <1>1, <1>3, <1>5, <4>2 DEF WorksAddUp
      <4> QED
        BY <4>1, <4>2
    <3> QED
      BY <3>1
  <2>2. ToPost' = ToPost
    BY <1>3 DEF ToPost
  <2> QED
    BY <1>1, <1>3, <1>6, <1>8, <2>1, <2>2 DEF WorksAddUp
<1>10. WorkersWake'
  <2>1. /\ Cardinality(At(worker, {"get", "sleep"})) \in Nat
        /\ Cardinality(At(worker', {"get", "sleep"})) \in Nat
        /\ pc = "loop" => Cardinality(At(worker', {"get", "sleep"})) = Cardinality(At(worker, {"get", "sleep"})) - 1
        /\ pc # "get" => Cardinality(At(worker', {"get", "sleep"})) <= Cardinality(At(worker, {"get", "sleep"}))
    <3>1. PICK S : S = {"get", "sleep"}
      OBVIOUS
    <3>2. /\ Cardinality(At(worker, S)) \in Nat /\ Cardinality(At(worker', S)) \in Nat
          /\ (worker[w].pc \in S <=> worker'[w].pc \in S) =>
               Cardinality(At(worker', S)) = Cardinality(At(worker, S))
          /\ worker[w].pc \in S /\ worker'[w].pc \notin S =>
               Cardinality(At(worker', S)) = Cardinality(At(worker, S)) - 1
      BY <1>5, Tally
    <3>3. /\ pc = "loop" => worker[w].pc \in S /\ worker'[w].pc \notin S
          /\ pc = "sleep" => (worker[w].pc \in S <=> worker'[w].pc \in S)
          /\ pc = "exit" => worker'[w].pc \notin S
      BY <1>2, <1>5, <3>1
    <3>4. /\ pc = "loop" => Cardinality(At(worker', S)) = Cardinality(At(worker, S)) - 1
          /\ pc # "get" => Cardinality(At(worker', S)) <= Cardinality(At(worker, S))
      BY <1>2, <3>2, <3>3
    <3> QED
      BY <3>1, <3>2, <3>4
  <2>2. pool'.stop => pool'.sem >= Cardinality(At(worker', {"get", "sleep"}))
    <3>1. CASE pool.stop
      <4>1. pool.sem >= Cardinality(At(worker, {"get", "sleep"})) /\ pool.sem \in Nat
        BY <1>1, <3>1 DEF WorkersWake, PoolTyped
      <4>2. pc # "get"
        BY <1>2, <3>1
      <4> QED
        BY <1>6, <2>1, <4>1, <4>2
    <3> QED
      BY <1>6, <3>1
  <2>3. work_q' = <<>> \/ ~\A x \in Workers : worker'[x].pc = "sleep"
    BY <1>2, <1>3, <1>5
  <2>4. At(worker, {"get", "sleep"})' = At(worker', {"get", "sleep"})
    BY DEF At
  <2> QED
    BY <1>1, <1>3, <1>6, <2>2, <2>3, <2>4 DEF WorkersWake
<1> QED
  BY <1>7, <1>9, <1>10 DEF PoolInv

\* A step of a worker that does not go to sleep leaves the wake-ups in order.
LEMMA WakeKept ==
  ASSUME PoolInv, NEW w \in Workers, \A x \in Workers \ {w} : worker'[x].pc = worker[x].pc,
         worker'[w].pc \notin {"get", "sleep"}, pool'.stop = pool.stop, pool'.sem = pool.sem,
         poster' = poster
  PROVE  WorkersWake'
<1>1. PoolTyped /\ WorkersWake /\ pool.sem \in Nat
  BY DEF PoolInv, PoolTyped
<1>2. PICK S : S = {"get", "sleep"}
  OBVIOUS
<1>3. /\ Cardinality(At(worker, S)) \in Nat /\ Cardinality(At(worker', S)) \in Nat
      /\ (worker[w].pc \in S <=> worker'[w].pc \in S) =>
           Cardinality(At(worker', S)) = Cardinality(At(worker, S))
      /\ worker[w].pc \in S /\ worker'[w].pc \notin S =>
           Cardinality(At(worker', S)) = Cardinality(At(worker, S)) - 1
  BY Tally
<1>4. Cardinality(At(worker', S)) <= Cardinality(At(worker, S))
  BY <1>2, <1>3
<1>5. At(worker, S)' = At(worker', S)
  BY DEF At
<1>6. pool'.stop => pool'.sem >= Cardinality(At(worker', S))
  <2>1. pool.stop => pool.sem >= Cardinality(At(worker, S))
    BY <1>1, <1>2 DEF WorkersWake
  <2> QED
    BY <1>1, <1>3, <1>4, <2>1
<1>7. ~\A x \in Workers : worker'[x].pc = "sleep"
  OBVIOUS
<1> QED
  BY <1>1, <1>2, <1>5, <1>6, <1>7 DEF WorkersWake

\* What the counts say when a worker has a work in hand.
LEMMA WorkInHand ==
  ASSUME PoolInv, NEW w \in Workers, worker[w].pc \in Busy
  PROVE  /\ poster.pc \in InRound /\ poster.round \in RoundIds /\ worker[w].round = poster.round
<1>1. At(worker, Busy) # {}
  BY DEF At
<1>2. poster.pc \in InRound /\ worker[w].round = poster.round
  BY <1>1 DEF PoolInv, WorksAddUp
<1>3. poster.round > 0 /\ poster.round \in 0 .. Rounds
  BY <1>2 DEF PoolInv, WorksAddUp, PoolTyped
<1> QED
  BY <1>2, <1>3, PoolAssumption DEF RoundIds

\* The counts before and after a worker moves from one place to another.
LEMMA CountsMove ==
  ASSUME PoolTyped, NEW w \in Workers, \A x \in Workers \ {w} : worker'[x].pc = worker[x].pc
  PROVE  /\ \A S \in {Busy, {"run"}, {"run", "ran"}} :
              /\ Cardinality(At(worker, S)) \in Nat /\ Cardinality(At(worker', S)) \in Nat
              /\ At(worker, S)' = At(worker', S)
         /\ worker[w].pc = "get" /\ worker'[w].pc = "run" =>
              /\ Cardinality(At(worker', Busy)) = Cardinality(At(worker, Busy)) + 1
              /\ Cardinality(At(worker', {"run"})) = Cardinality(At(worker, {"run"})) + 1
              /\ Cardinality(At(worker', {"run", "ran"})) = Cardinality(At(worker, {"run", "ran"})) + 1
         /\ worker[w].pc = "run" /\ worker'[w].pc = "ran" =>
              /\ Cardinality(At(worker', Busy)) = Cardinality(At(worker, Busy))
              /\ Cardinality(At(worker', {"run"})) = Cardinality(At(worker, {"run"})) - 1
              /\ Cardinality(At(worker, {"run"})) > 0
              /\ Cardinality(At(worker', {"run", "ran"})) = Cardinality(At(worker, {"run", "ran"}))
         /\ worker[w].pc = "ran" /\ worker'[w].pc = "done" =>
              /\ Cardinality(At(worker', Busy)) = Cardinality(At(worker, Busy))
              /\ Cardinality(At(worker', {"run"})) = Cardinality(At(worker, {"run"}))
              /\ Cardinality(At(worker', {"run", "ran"})) = Cardinality(At(worker, {"run", "ran"})) - 1
              /\ Cardinality(At(worker, {"run", "ran"})) > 0
         /\ worker[w].pc = "done" /\ worker'[w].pc = "check" =>
              /\ Cardinality(At(worker', Busy)) = Cardinality(At(worker, Busy)) - 1
              /\ Cardinality(At(worker, Busy)) > 0
              /\ Cardinality(At(worker', {"run"})) = Cardinality(At(worker, {"run"}))
              /\ Cardinality(At(worker', {"run", "ran"})) = Cardinality(At(worker, {"run", "ran"}))
<1> DEFINE Facts(S) ==
      /\ Cardinality(At(worker, S)) \in Nat /\ Cardinality(At(worker', S)) \in Nat
      /\ (worker[w].pc \in S <=> worker'[w].pc \in S) =>
           Cardinality(At(worker', S)) = Cardinality(At(worker, S))
      /\ worker[w].pc \notin S /\ worker'[w].pc \in S =>
           Cardinality(At(worker', S)) = Cardinality(At(worker, S)) + 1
      /\ worker[w].pc \in S /\ worker'[w].pc \notin S =>
           Cardinality(At(worker', S)) = Cardinality(At(worker, S)) - 1
      /\ worker[w].pc \in S /\ worker'[w].pc \notin S => Cardinality(At(worker, S)) > 0
<1>1. ASSUME NEW S PROVE Facts(S) /\ At(worker, S)' = At(worker', S)
  BY Tally DEF At
<1>2. Facts(Busy) /\ Facts({"run"}) /\ Facts({"run", "ran"})
  BY <1>1
<1> QED
  BY <1>1, <1>2 DEF Busy

\* A work goes from the queue to a worker, and from there to what has run.
LEMMA OneOnward ==
  ASSUME NEW a \in Nat, NEW b \in Nat, NEW c \in Nat, NEW d \in Nat, NEW e \in Nat, a + b + c + d = e
  PROVE  /\ a + b + (c - 1) + (d + 1) = e
         /\ d > 0 => (a + 1) + b + c + (d - 1) = e /\ a + 1 \in 0 .. e
OBVIOUS

\* work_get_ finds an entry.
LEMMA GetStep ==
  ASSUME PoolInv, NEW w \in Workers, worker[w].pc = "get", work_q # <<>>,
         worker' = [worker EXCEPT ![w] = [pc |-> "run", round |-> Head(work_q)]],
         work_q' = Tail(work_q), pool' = pool, barrier' = barrier, poster' = poster, ran' = ran
  PROVE  PoolInv'
<1>1. PoolTyped /\ WorksAddUp /\ WorkersWake
  BY DEF PoolInv
<1>2. /\ work_q \in Seq(RoundIds) /\ Len(work_q) \in Nat /\ Len(work_q) > 0
      /\ Tail(work_q) \in Seq(RoundIds) /\ Len(Tail(work_q)) = Len(work_q) - 1
      /\ Head(work_q) = work_q[1] /\ Head(work_q) \in RoundIds
      /\ \A i \in 1 .. Len(Tail(work_q)) : Tail(work_q)[i] = work_q[i + 1]
  <2>1. PICK q \in Seq(RoundIds) : q = work_q
    BY <1>1 DEF PoolTyped
  <2>2. /\ Tail(q) \in Seq(RoundIds) /\ Head(q) \in RoundIds /\ Head(q) = q[1]
        /\ Len(q) \in Nat /\ Len(q) > 0 /\ Len(Tail(q)) = Len(q) - 1
        /\ \A i \in 1 .. Len(Tail(q)) : Tail(q)[i] = q[i + 1]
    BY <2>1, HeadTailProperties, LenProperties, EmptySeq
  <2> QED
    BY <2>1, <2>2
<1>3. PICK r \in RoundIds : r = Head(work_q)
  BY <1>2
<1>4. poster.round = r /\ poster.pc \in InRound /\ r > 0 /\ r \in 0 .. Rounds
  BY <1>1, <1>2, <1>3, PoolAssumption DEF WorksAddUp, RoundIds
<1>5. /\ worker' \in Workforce /\ worker'[w].pc = "run" /\ worker'[w].round = r
      /\ \A x \in Workers \ {w} : worker'[x] = worker[x] /\ worker'[x].pc = worker[x].pc
  BY <1>1, <1>3, <1>4 DEF PoolTyped, Workforce, WorkerPcs
<1>6. PoolTyped'
  BY <1>1, <1>2, <1>5 DEF PoolTyped, Workforce
<1>7. WorkersWake'
  BY <1>5, WakeKept
<1>8. /\ Cardinality(At(worker, Busy))' = Cardinality(At(worker, Busy)) + 1
      /\ Cardinality(At(worker, {"run"}))' = Cardinality(At(worker, {"run"})) + 1
      /\ Cardinality(At(worker, {"run", "ran"}))' = Cardinality(At(worker, {"run", "ran"})) + 1
      /\ Cardinality(At(worker, Busy)) \in Nat /\ Cardinality(At(worker, {"run"})) \in Nat
      /\ Cardinality(At(worker, {"run", "ran"})) \in Nat
  BY <1>1, <1>5, CountsMove
<1>9. ToPost' = ToPost /\ ToPost \in Nat
  <2>1. poster.left \in 0 .. Count /\ (poster.pc # "wait" => poster.left > 0)
    BY <1>1, <1>4 DEF PoolTyped, WorksAddUp
  <2> QED
    BY <1>4, <2>1, PoolAssumption DEF ToPost, InRound
<1>10. \A i \in 1 .. Len(work_q') : work_q'[i] = poster.round
  BY <1>1, <1>2 DEF WorksAddUp
<1>11. \A x \in Workers : /\ worker'[x].pc \in Busy => worker'[x].round = poster.round
                          /\ worker'[x].pc \in Busy \union {"check"} => worker'[x].round > 0
  BY <1>1, <1>4, <1>5 DEF WorksAddUp
<1>12. /\ barrier'[r].pending = ToPost' + Len(work_q') + Cardinality(At(worker, Busy))'
       /\ ran'[r] + ToPost' + Len(work_q') + Cardinality(At(worker, {"run"}))' = Count
       /\ pool'.pending = Len(work_q') + Cardinality(At(worker, {"run", "ran"}))'
  <2>1. /\ barrier[r].pending = ToPost + Len(work_q) + Cardinality(At(worker, Busy))
        /\ ran[r] + ToPost + Len(work_q) + Cardinality(At(worker, {"run"})) = Count
        /\ pool.pending = Len(work_q) + Cardinality(At(worker, {"run", "ran"}))
    BY <1>1, <1>4 DEF WorksAddUp
  <2>2. ran[r] \in Nat
    <3>1. ran[r] \in 0 .. Count
      BY <1>1 DEF PoolTyped
    <3> QED
      BY <3>1, PoolAssumption
  <2>3. Len(work_q') = Len(work_q) - 1 /\ Len(work_q) \in Nat
    BY <1>2
  <2>4. barrier'[r].pending = ToPost' + Len(work_q') + Cardinality(At(worker, Busy))'
    BY <1>8, <1>9, <2>1, <2>3
  <2>5. ran'[r] + ToPost' + Len(work_q') + Cardinality(At(worker, {"run"}))' = Count
    <3>1. ran'[r] = ran[r] /\ ToPost' = ToPost
      BY <1>9
    <3>2. ran[r] + ToPost + (Len(work_q) - 1) + (Cardinality(At(worker, {"run"})) + 1) = Count
      <4>1. PICK a \in Nat, b \in Nat, c \in Nat, d \in Nat, e \in Nat :
              /\ a = ran[r] /\ b = ToPost /\ c = Len(work_q) /\ d = Cardinality(At(worker, {"run"}))
              /\ e = Count
        BY <1>8, <1>9, <2>2, <2>3, PoolAssumption, Zenon
      <4>2. a + b + c + d = e
        BY <2>1, <4>1, Zenon
      <4>3. a + b + (c - 1) + (d + 1) = e
        BY <4>2, OneOnward
      <4> QED
        BY <4>1, <4>3, Zenon
    <3> QED
      BY <1>8, <2>3, <3>1, <3>2, Zenon
  <2>6. pool'.pending = Len(work_q') + Cardinality(At(worker, {"run", "ran"}))'
    BY <1>8, <2>1, <2>3
  <2> QED
    BY <2>4, <2>5, <2>6
<1>13. WorksAddUp'
  BY <1>1, <1>4, <1>10, <1>11, <1>12 DEF WorksAddUp
<1> QED
  BY <1>6, <1>7, <1>13 DEF PoolInv

\* The worker runs its work, counts it down, and reports to the barrier.
LEMMA WorkingStep ==
  ASSUME PoolInv, NEW w \in Workers, \/ RunWork(w) \/ CountDown(w)
                                     \/ /\ worker[w].pc = "done"
                                        /\ barrier' = [barrier EXCEPT ![worker[w].round].pending = @ - 1]
                                        /\ Go(w, "check")
                                        /\ UNCHANGED <<pool, work_q, poster, once, ran>>
  PROVE  PoolInv'
<1>1. PoolTyped /\ WorksAddUp /\ WorkersWake
  BY DEF PoolInv
<1>2. PICK r \in RoundIds : poster.round = r /\ worker[w].round = r /\ poster.pc \in InRound
  <2>1. worker[w].pc \in Busy
    BY DEF RunWork, CountDown, Busy
  <2> QED
    BY <2>1, WorkInHand
<1>3. PICK pc \in {"ran", "done", "check"} :
        /\ Go(w, pc)
        /\ \/ /\ pc = "ran" /\ worker[w].pc = "run" /\ pool' = pool /\ barrier' = barrier
              /\ ran' = [ran EXCEPT ![r] = @ + 1]
           \/ /\ pc = "done" /\ worker[w].pc = "ran" /\ barrier' = barrier /\ ran' = ran
              /\ pool' = [pool EXCEPT !.pending = @ - 1]
           \/ /\ pc = "check" /\ worker[w].pc = "done" /\ pool' = pool /\ ran' = ran
              /\ barrier' = [barrier EXCEPT ![r].pending = @ - 1]
  BY <1>2 DEF RunWork, CountDown
<1>4. work_q' = work_q /\ poster' = poster
  BY DEF RunWork, CountDown
<1>5. /\ worker' \in Workforce /\ worker'[w].pc = pc /\ worker'[w].round = r
      /\ \A x \in Workers \ {w} : worker'[x] = worker[x] /\ worker'[x].pc = worker[x].pc
  BY <1>1, <1>2, <1>3, Moves DEF WorkerPcs
<1> DEFINE busy == Cardinality(At(worker, Busy))
           run  == Cardinality(At(worker, {"run"}))
           pend == Cardinality(At(worker, {"run", "ran"}))
           todo == ToPost + Len(work_q)
<1>6. busy \in Nat /\ run \in Nat /\ pend \in Nat
  BY <1>1, <1>5, CountsMove
<1>7. /\ Cardinality(At(worker, Busy))' = IF pc = "check" THEN busy - 1 ELSE busy
      /\ Cardinality(At(worker, {"run"}))' = IF pc = "ran" THEN run - 1 ELSE run
      /\ Cardinality(At(worker, {"run", "ran"}))' = IF pc = "done" THEN pend - 1 ELSE pend
      /\ pc = "check" => busy > 0
      /\ pc = "ran" => run > 0
      /\ pc = "done" => pend > 0
  <2>1. CASE pc = "ran"
    BY <1>1, <1>3, <1>5, <2>1, CountsMove
  <2>2. CASE pc = "done"
    BY <1>1, <1>3, <1>5, <2>2, CountsMove
  <2>3. CASE pc = "check"
    BY <1>1, <1>3, <1>5, <2>3, CountsMove
  <2> QED
    BY <2>1, <2>2, <2>3
<1>8. ToPost' = ToPost /\ Len(work_q) \in Nat /\ todo \in Nat
  <2>1. Len(work_q) \in Nat
    <3>1. PICK q \in Seq(RoundIds) : q = work_q
      BY <1>1 DEF PoolTyped
    <3> QED
      BY <3>1, LenProperties
  <2>2. ToPost \in Nat
    <3>1. poster.left \in 0 .. Count /\ (poster.pc # "wait" => poster.left > 0)
      BY <1>1, <1>2 DEF PoolTyped, WorksAddUp
    <3> QED
      BY <1>2, <3>1, PoolAssumption DEF ToPost, InRound
  <2>3. ToPost' = ToPost
    BY <1>4 DEF ToPost
  <2> QED
    BY <2>1, <2>2, <2>3
<1>9. /\ barrier[r].pending = ToPost + Len(work_q) + busy
      /\ ran[r] + ToPost + Len(work_q) + run = Count
      /\ pool.pending = Len(work_q) + pend
      /\ ~barrier[r].locked => barrier[r].pending = 0
  BY <1>1, <1>2 DEF WorksAddUp
<1>10. ran[r] \in Nat /\ barrier[r].pending \in Nat /\ Count \in Nat /\ ToPost \in Nat
  <2>1. ran[r] \in 0 .. Count /\ barrier[r].pending \in 0 .. Count
    BY <1>1 DEF PoolTyped
  <2>2. poster.left \in 0 .. Count /\ (poster.pc # "wait" => poster.left > 0)
    BY <1>1, <1>2 DEF PoolTyped, WorksAddUp
  <2>3. ToPost \in Nat
    BY <1>2, <2>2, PoolAssumption DEF ToPost, InRound
  <2> QED
    BY <2>1, <2>3, PoolAssumption
<1>11. pc = "ran" => /\ (ran[r] + 1) + ToPost + Len(work_q) + (run - 1) = Count
                     /\ ran[r] + 1 \in 0 .. Count
  <2>1. PICK a \in Nat, b \in Nat, c \in Nat, d \in Nat, e \in Nat :
          a = ran[r] /\ b = ToPost /\ c = Len(work_q) /\ d = run /\ e = Count
    BY <1>6, <1>8, <1>10, Zenon
  <2>2. a + b + c + d = e /\ (pc = "ran" => d > 0)
    BY <1>7, <1>9, <2>1, Zenon
  <2>3. pc = "ran" => (a + 1) + b + c + (d - 1) = e /\ a + 1 \in 0 .. e
    BY <2>2, OneOnward
  <2> QED
    BY <2>1, <2>3, Zenon
<1>12. /\ ran' \in [RoundIds -> 0 .. Count]
       /\ \A x \in RoundIds \ {r} : ran'[x] = ran[x]
       /\ ran'[r] = IF pc = "ran" THEN ran[r] + 1 ELSE ran[r]
  <2>1. pc = "ran" => ran[r] + 1 \in 0 .. Count
    BY <1>11
  <2>2. ran \in [RoundIds -> 0 .. Count]
    BY <1>1 DEF PoolTyped
  <2> QED
    BY <1>3, <2>1, <2>2
<1>13. /\ barrier' \in [RoundIds -> [pending: 0 .. Count, locked: BOOLEAN]]
       /\ barrier'[r].locked = barrier[r].locked
       /\ barrier'[r].pending = IF pc = "check" THEN barrier[r].pending - 1 ELSE barrier[r].pending
  <2>1. pc = "check" => barrier[r].pending - 1 \in 0 .. Count
    <3>1. barrier[r].pending \in 0 .. Count
      BY <1>1 DEF PoolTyped
    <3>2. pc = "check" => barrier[r].pending > 0
      BY <1>6, <1>7, <1>8, <1>9, <1>10
    <3> QED
      BY <3>1, <3>2, PoolAssumption
  <2>2. barrier \in [RoundIds -> [pending: 0 .. Count, locked: BOOLEAN]]
    BY <1>1 DEF PoolTyped
  <2> QED
    BY <1>3, <2>1, <2>2
<1>14. /\ pool' \in [stop: BOOLEAN, pending: Nat, sem: Nat, active: Int]
       /\ pool'.stop = pool.stop /\ pool'.sem = pool.sem
       /\ pool'.pending = IF pc = "done" THEN pool.pending - 1 ELSE pool.pending
  <2>1. pool \in [stop: BOOLEAN, pending: Nat, sem: Nat, active: Int]
    BY <1>1 DEF PoolTyped
  <2>2. pc = "done" => pool.pending > 0
    BY <1>6, <1>7, <1>8, <1>9
  <2> QED
    BY <1>3, <2>1, <2>2
<1>15. PoolTyped'
  BY <1>1, <1>4, <1>5, <1>12, <1>13, <1>14 DEF PoolTyped, Workforce
<1>16. WorkersWake'
  BY <1>4, <1>5, <1>14, WakeKept
<1>17. /\ barrier'[r].pending = ToPost' + Len(work_q') + Cardinality(At(worker, Busy))'
       /\ ran'[r] + ToPost' + Len(work_q') + Cardinality(At(worker, {"run"}))' = Count
       /\ pool'.pending = Len(work_q') + Cardinality(At(worker, {"run", "ran"}))'
       /\ ~barrier'[r].locked => barrier'[r].pending = 0
  <2>1. work_q' = work_q /\ Len(work_q') = Len(work_q) /\ ToPost' = ToPost
    BY <1>4, <1>8
  <2>2. /\ barrier'[r].pending = ToPost + Len(work_q) + Cardinality(At(worker, Busy))'
        /\ ran'[r] + ToPost + Len(work_q) + Cardinality(At(worker, {"run"}))' = Count
        /\ pool'.pending = Len(work_q) + Cardinality(At(worker, {"run", "ran"}))'
    <3>1. CASE pc = "ran"
      <4>1. (ran[r] + 1) + ToPost + Len(work_q) + (run - 1) = Count
        BY <1>11, <3>1
      <4>2. ran'[r] = ran[r] + 1 /\ Cardinality(At(worker, {"run"}))' = run - 1
        BY <1>7, <1>12, <3>1
      <4>3. ran'[r] + ToPost + Len(work_q) + Cardinality(At(worker, {"run"}))' = Count
        BY <4>1, <4>2, Zenon
      <4>4. /\ barrier'[r].pending = barrier[r].pending /\ pool'.pending = pool.pending
            /\ Cardinality(At(worker, Busy))' = busy /\ Cardinality(At(worker, {"run", "ran"}))' = pend
        BY <1>7, <1>13, <1>14, <3>1
      <4> QED
        BY <1>9, <4>3, <4>4, Zenon
    <3>2. CASE pc = "done"
      BY <1>6, <1>7, <1>8, <1>9, <1>10, <1>12, <1>13, <1>14, <3>2
    <3>3. CASE pc = "check"
      BY <1>6, <1>7, <1>8, <1>9, <1>10, <1>12, <1>13, <1>14, <3>3
    <3> QED
      BY <3>1, <3>2, <3>3
  <2>3. ~barrier'[r].locked => barrier'[r].pending = 0
    <3>1. ~barrier[r].locked => barrier[r].pending = 0 /\ pc # "check"
      BY <1>6, <1>7, <1>8, <1>9, <1>10
    <3> QED
      BY <1>13, <3>1
  <2> QED
    BY <2>1, <2>2, <2>3
<1>18. \A x \in Workers : /\ worker'[x].pc \in Busy => worker'[x].round = poster.round
                          /\ worker'[x].pc \in Busy \union {"check"} => worker'[x].round > 0
  <2>1. r > 0
    BY PoolAssumption DEF RoundIds
  <2> QED
    BY <1>1, <1>2, <1>5, <2>1 DEF WorksAddUp
<1>19. \A x \in RoundIds : /\ x < poster.round => ran'[x] = Count
                           /\ x > poster.round => ran'[x] = 0
  <2>1. ~(r < r) /\ ~(r > r)
    BY PoolAssumption DEF RoundIds
  <2> QED
    BY <1>1, <1>2, <1>12, <2>1 DEF WorksAddUp
<1>20. WorksAddUp'
  BY <1>1, <1>2, <1>4, <1>17, <1>18, <1>19 DEF WorksAddUp
<1> QED
  BY <1>15, <1>16, <1>20 DEF PoolInv

\* The count is read again, and the mutex unlocked at zero.
LEMMA CheckStep ==
  ASSUME PoolInv, NEW w \in Workers, worker[w].pc = "check",
         barrier' = [barrier EXCEPT ![worker[w].round].locked =
                       @ /\ barrier[worker[w].round].pending # 0],
         Go(w, "loop"), pool' = pool, work_q' = work_q, poster' = poster, ran' = ran
  PROVE  PoolInv'
<1>1. PoolTyped /\ WorksAddUp /\ WorkersWake
  BY DEF PoolInv
<1>2. PICK r \in RoundIds : worker[w].round = r
  <2>1. worker[w].round > 0 /\ worker[w].round \in 0 .. Rounds
    BY <1>1 DEF WorksAddUp, PoolTyped
  <2> QED
    BY <2>1, PoolAssumption DEF RoundIds
<1>3. /\ worker' \in Workforce /\ worker'[w].pc = "loop"
      /\ \A x \in Workers \ {w} : worker'[x] = worker[x] /\ worker'[x].pc = worker[x].pc
  BY <1>1, Moves DEF WorkerPcs
<1>4. /\ barrier' \in [RoundIds -> [pending: 0 .. Count, locked: BOOLEAN]]
      /\ \A x \in RoundIds : barrier'[x].pending = barrier[x].pending
      /\ \A x \in RoundIds : ~barrier'[x].locked => ~barrier[x].locked \/ barrier[x].pending = 0
  <2>1. barrier \in [RoundIds -> [pending: 0 .. Count, locked: BOOLEAN]]
    BY <1>1 DEF PoolTyped
  <2> QED
    BY <1>2, <2>1
<1>5. PoolTyped'
  BY <1>1, <1>3, <1>4 DEF PoolTyped, Workforce
<1>6. WorkersWake'
  BY <1>3, WakeKept
<1>7. /\ At(worker, Busy)' = At(worker, Busy) /\ At(worker, {"run"})' = At(worker, {"run"})
      /\ At(worker, {"run", "ran"})' = At(worker, {"run", "ran"})
  BY <1>3 DEF At, Busy
<1>8. ToPost' = ToPost
  BY DEF ToPost
<1>9. \A x \in Workers : /\ worker'[x].pc \in Busy => worker'[x].round = poster.round
                         /\ worker'[x].pc \in Busy \union {"check"} => worker'[x].round > 0
  BY <1>1, <1>3 DEF WorksAddUp, Busy
<1>10. poster.pc \in InRound => poster.round \in RoundIds
  <2>1. poster.round \in 0 .. Rounds /\ (poster.pc \in InRound => poster.round > 0)
    BY <1>1 DEF WorksAddUp, PoolTyped
  <2> QED
    BY <2>1, PoolAssumption DEF RoundIds
<1>11. poster.pc \in InRound =>
         /\ barrier'[poster.round].pending = barrier[poster.round].pending
         /\ ~barrier'[poster.round].locked => barrier[poster.round].pending = 0
  BY <1>1, <1>4, <1>10 DEF WorksAddUp
<1>12. WorksAddUp'
  BY <1>1, <1>7, <1>8, <1>9, <1>11 DEF WorksAddUp
<1> QED
  BY <1>5, <1>6, <1>12 DEF PoolInv

\* factory: the workers start at the top of their loop.
LEMMA FactoryStep ==
  ASSUME PoolInv, PoolFactory
  PROVE  PoolInv'
<1>1. PoolTyped /\ WorksAddUp /\ WorkersWake
  BY DEF PoolInv
<1>2. Cardinality(Workers) \in Nat
  BY PoolAssumption, FS_CardinalityType
<1>3. /\ pool' \in [stop: BOOLEAN, pending: Nat, sem: Nat, active: Int]
      /\ ~pool'.stop /\ pool'.pending = 0
  <2>1. PICK n \in Int : n = pool.active + Cardinality(Workers)
    <3>1. pool.active \in Int
      BY <1>1 DEF PoolTyped
    <3> QED
      BY <1>2, <3>1
  <2>2. pool' = [stop |-> FALSE, pending |-> 0, sem |-> 0, active |-> n]
    BY <2>1 DEF PoolFactory
  <2> QED
    BY <2>2
<1>4. /\ worker' \in Workforce
      /\ \A w \in Workers : worker'[w].pc = "loop"
  <2>1. worker' = [w \in Workers |-> [pc |-> "loop", round |-> 0]]
    BY DEF PoolFactory
  <2>2. 0 \in 0 .. Rounds
    BY PoolAssumption
  <2> QED
    BY <2>1, <2>2 DEF Workforce, WorkerPcs
<1>5. /\ poster.pc = "no pool"
      /\ poster' \in [pc: {"no pool", "idle", "post", "signal", "wait", "join"},
                      round: 0 .. Rounds, left: 0 .. Count]
      /\ poster'.pc = "idle" /\ poster'.round = poster.round
  BY <1>1 DEF PoolTyped, PoolFactory
<1>6. work_q' = work_q /\ barrier' = barrier /\ ran' = ran
  BY DEF PoolFactory
<1>7. PoolTyped'
  BY <1>1, <1>3, <1>4, <1>5, <1>6 DEF PoolTyped, Workforce
<1>8. \A S \in {Busy, {"run"}, {"run", "ran"}} : At(worker, S)' = {}
  BY <1>4 DEF At, Busy
<1>9. work_q = <<>> /\ (poster.round > 0 => ran[poster.round] = Count)
  BY <1>1, <1>5 DEF WorksAddUp, InRound
<1>10. pool'.pending = Len(work_q') + Cardinality(At(worker, {"run", "ran"}))'
  <2>1. Len(work_q') = 0 /\ Cardinality(At(worker, {"run", "ran"}))' = 0
    BY <1>6, <1>8, <1>9, FS_EmptySet, EmptySeq
  <2> QED
    BY <1>3, <2>1
<1>11. WorksAddUp'
  BY <1>1, <1>4, <1>5, <1>6, <1>8, <1>9, <1>10 DEF WorksAddUp, InRound, Busy
<1>12. WorkersWake'
  BY <1>3, <1>6, <1>9 DEF WorkersWake
<1> QED
  BY <1>7, <1>11, <1>12 DEF PoolInv

\* barrier_init: a new round, none of which is queued.
LEMMA InitBarrier ==
  ASSUME PoolInv, barrier_init
  PROVE  PoolInv'
<1>1. PoolTyped /\ WorksAddUp /\ WorkersWake
  BY DEF PoolInv
<1>2. PICK r \in RoundIds : r = poster.round + 1 /\ poster.round \in Nat /\ r \in Nat /\ r > 0
                            /\ r \in 0 .. Rounds
  <2>1. poster.round \in 0 .. Rounds /\ poster.round < Rounds
    BY <1>1 DEF PoolTyped, barrier_init
  <2> QED
    BY <2>1, PoolAssumption DEF RoundIds
<1>3. /\ poster.pc = "idle"
      /\ poster' = [pc |-> "post", round |-> r, left |-> Count]
      /\ barrier' = [barrier EXCEPT ![r] = [pending |-> Count, locked |-> TRUE]]
      /\ pool' = pool /\ work_q' = work_q /\ worker' = worker /\ ran' = ran
  BY <1>2 DEF barrier_init
<1>4. Count \in Nat /\ Count \in 0 .. Count /\ Count > 0
  BY PoolAssumption
<1>5. PoolTyped'
  BY <1>1, <1>2, <1>3, <1>4 DEF PoolTyped
<1>6. work_q = <<>> /\ At(worker, Busy) = {} /\ (poster.round > 0 => ran[poster.round] = Count)
  BY <1>1, <1>3 DEF WorksAddUp, InRound
<1>7. At(worker, {"run"}) = {}
  BY <1>6 DEF At, Busy
<1>8. \A S : At(worker, S)' = At(worker, S)
  BY <1>3 DEF At
<1>9. ran[r] = 0
  BY <1>1, <1>2 DEF WorksAddUp
<1>10. \A x \in RoundIds : /\ x < r => ran[x] = Count
                           /\ x > r => ran[x] = 0
  <2>1. ASSUME NEW x \in RoundIds
        PROVE  /\ x < r => ran[x] = Count
               /\ x > r => ran[x] = 0
    <3>1. x \in Nat /\ x > 0
      BY PoolAssumption DEF RoundIds
    <3>2. /\ x < r => x < poster.round \/ x = poster.round
          /\ x > r => x > poster.round
      BY <1>2, <3>1
    <3> QED
      BY <1>1, <1>6, <3>1, <3>2 DEF WorksAddUp
  <2> QED
    BY <2>1
<1>11. /\ poster'.pc = "post" /\ poster'.round = r /\ poster'.left = Count /\ ToPost' = Count
       /\ barrier'[r].pending = Count /\ barrier'[r].locked
  BY <1>1, <1>3 DEF ToPost, PoolTyped
<1>12. /\ barrier'[r].pending = ToPost' + Len(work_q') + Cardinality(At(worker, Busy))'
       /\ ran'[r] + ToPost' + Len(work_q') + Cardinality(At(worker, {"run"}))' = Count
  <2>1. Len(work_q') = 0 /\ Cardinality(At(worker, Busy))' = 0 /\ Cardinality(At(worker, {"run"}))' = 0
    BY <1>3, <1>6, <1>7, <1>8, FS_EmptySet, EmptySeq
  <2>2. ran'[r] = 0
    BY <1>3, <1>9
  <2> QED
    BY <1>4, <1>11, <2>1, <2>2
<1>13. \A x \in Workers : /\ worker[x].pc \notin Busy
                          /\ worker[x].pc \in Busy \union {"check"} => worker[x].round > 0
  BY <1>1, <1>6 DEF WorksAddUp, At
<1>14. pool.pending = Len(work_q) + Cardinality(At(worker, {"run", "ran"}))
  BY <1>1 DEF WorksAddUp
<1>15. /\ \A x \in RoundIds : /\ x < poster'.round => ran'[x] = Count
                              /\ x > poster'.round => ran'[x] = 0
       /\ \A i \in 1 .. Len(work_q') : work_q'[i] = poster'.round
       /\ \A w \in Workers : /\ worker'[w].pc \in Busy => worker'[w].round = poster'.round
                             /\ worker'[w].pc \in Busy \union {"check"} => worker'[w].round > 0
       /\ pool'.pending = Len(work_q') + Cardinality(At(worker, {"run", "ran"}))'
  <2>1. \A i \in 1 .. Len(work_q') : work_q'[i] = poster'.round
    BY <1>3, <1>6, EmptySeq
  <2> QED
    BY <1>3, <1>8, <1>10, <1>11, <1>13, <1>14, <2>1
<1>16. WorksAddUp'
  BY <1>2, <1>4, <1>11, <1>12, <1>15 DEF WorksAddUp, InRound
<1>17. WorkersWake'
  BY <1>1, <1>3, <1>6, <1>8 DEF WorkersWake, InRound
<1> QED
  BY <1>5, <1>16, <1>17 DEF PoolInv

\* work_post: the work is counted and queued ...
LEMMA PostStep ==
  ASSUME PoolInv, poster.pc = "post", pool' = [pool EXCEPT !.pending = @ + 1],
         work_q' = Append(work_q, poster.round), poster' = [poster EXCEPT !.pc = "signal"],
         worker' = worker, barrier' = barrier, ran' = ran
  PROVE  PoolInv'
<1>1. PoolTyped /\ WorksAddUp /\ WorkersWake
  BY DEF PoolInv
<1>2. PICK r \in RoundIds : r = poster.round /\ r > 0
  <2>1. poster.round \in 0 .. Rounds /\ poster.round > 0
    BY <1>1 DEF PoolTyped, WorksAddUp, InRound
  <2> QED
    BY <2>1, PoolAssumption DEF RoundIds
<1>3. /\ Append(work_q, r) \in Seq(RoundIds) /\ Len(work_q) \in Nat
      /\ Len(Append(work_q, r)) = Len(work_q) + 1
      /\ \A i \in 1 .. Len(Append(work_q, r)) :
           Append(work_q, r)[i] = IF i = Len(work_q) + 1 THEN r ELSE work_q[i]
      /\ \A i \in 1 .. Len(Append(work_q, r)) : i # Len(work_q) + 1 => i \in 1 .. Len(work_q)
  <2>1. PICK q \in Seq(RoundIds) : q = work_q
    BY <1>1 DEF PoolTyped
  <2>2. /\ Append(q, r) \in Seq(RoundIds) /\ Len(q) \in Nat /\ Len(Append(q, r)) = Len(q) + 1
        /\ \A i \in 1 .. Len(Append(q, r)) : Append(q, r)[i] = IF i = Len(q) + 1 THEN r ELSE q[i]
    BY AppendProperties, LenProperties
  <2>3. \A i \in 1 .. Len(Append(q, r)) : i # Len(q) + 1 => i \in 1 .. Len(q)
    BY <2>2
  <2> QED
    BY <2>1, <2>2, <2>3
<1>4. /\ pool' \in [stop: BOOLEAN, pending: Nat, sem: Nat, active: Int]
      /\ pool'.stop = pool.stop /\ pool'.sem = pool.sem /\ pool'.pending = pool.pending + 1
      /\ pool.pending \in Nat
  <2>1. pool \in [stop: BOOLEAN, pending: Nat, sem: Nat, active: Int]
    BY <1>1 DEF PoolTyped
  <2> QED
    BY <2>1
<1>5. /\ poster' \in [pc: {"no pool", "idle", "post", "signal", "wait", "join"},
                      round: 0 .. Rounds, left: 0 .. Count]
      /\ poster'.pc = "signal" /\ poster'.round = r /\ poster'.left = poster.left
      /\ poster.left \in Nat /\ poster.left > 0
  <2>1. poster.left \in 0 .. Count /\ poster.left > 0
    BY <1>1 DEF PoolTyped, WorksAddUp, InRound
  <2>2. poster.left \in Nat
    BY <2>1, PoolAssumption
  <2> QED
    BY <1>1, <1>2, <2>1, <2>2 DEF PoolTyped
<1>6. PoolTyped'
  BY <1>1, <1>2, <1>3, <1>4, <1>5 DEF PoolTyped
<1>7. \A S : At(worker, S)' = At(worker, S)
  BY DEF At
<1>8. /\ ToPost = poster.left /\ ToPost' = poster.left - 1
      /\ barrier[r].pending = ToPost + Len(work_q) + Cardinality(At(worker, Busy))
      /\ ran[r] + ToPost + Len(work_q) + Cardinality(At(worker, {"run"})) = Count
      /\ pool.pending = Len(work_q) + Cardinality(At(worker, {"run", "ran"}))
      /\ ~barrier[r].locked => barrier[r].pending = 0
  BY <1>1, <1>2, <1>5 DEF WorksAddUp, ToPost, InRound
<1>9. /\ barrier'[r].pending = ToPost' + Len(work_q') + Cardinality(At(worker, Busy))'
      /\ ran'[r] + ToPost' + Len(work_q') + Cardinality(At(worker, {"run"}))' = Count
      /\ pool'.pending = Len(work_q') + Cardinality(At(worker, {"run", "ran"}))'
  <2>1. /\ Cardinality(At(worker, Busy)) \in Nat /\ Cardinality(At(worker, {"run"})) \in Nat
        /\ Cardinality(At(worker, {"run", "ran"})) \in Nat
    BY AtIsFinite
  <2>2. ran[r] \in Nat
    <3>1. ran[r] \in 0 .. Count
      BY <1>1 DEF PoolTyped
    <3> QED
      BY <3>1, PoolAssumption
  <2>3. PICK a \in Nat, b \in Nat, c \in Nat, d \in Nat, e \in Nat :
          /\ a = ran[r] /\ b = poster.left /\ c = Len(work_q)
          /\ d = Cardinality(At(worker, {"run"})) /\ e = Cardinality(At(worker, Busy))
    BY <1>3, <1>5, <2>1, <2>2, Zenon
  <2>4. a + b + c + d = Count /\ barrier[r].pending = b + c + e
    BY <1>8, <2>3, Zenon
  <2>5. a + (b - 1) + (c + 1) + d = Count /\ barrier[r].pending = (b - 1) + (c + 1) + e
    BY <2>4, PoolAssumption
  <2>6. /\ ran'[r] = a /\ ToPost' = b - 1 /\ Len(work_q') = c + 1 /\ barrier'[r] = barrier[r]
        /\ Cardinality(At(worker, {"run"}))' = d /\ Cardinality(At(worker, Busy))' = e
        /\ Cardinality(At(worker, {"run", "ran"}))' = Cardinality(At(worker, {"run", "ran"}))
    BY <1>2, <1>3, <1>7, <1>8, <2>3
  <2>7. /\ barrier'[r].pending = ToPost' + Len(work_q') + Cardinality(At(worker, Busy))'
        /\ ran'[r] + ToPost' + Len(work_q') + Cardinality(At(worker, {"run"}))' = Count
    BY <2>5, <2>6, Zenon
  <2>8. pool'.pending = Len(work_q') + Cardinality(At(worker, {"run", "ran"}))'
    BY <1>3, <1>4, <1>8, <2>1, <2>3, <2>6
  <2> QED
    BY <2>7, <2>8
<1>10. \A i \in 1 .. Len(work_q') : work_q'[i] = r
  BY <1>1, <1>2, <1>3 DEF WorksAddUp
<1>11. WorksAddUp'
  BY <1>1, <1>2, <1>5, <1>8, <1>9, <1>10 DEF WorksAddUp, InRound
<1>12. WorkersWake'
  BY <1>1, <1>4, <1>5, <1>7 DEF WorkersWake, InRound
<1> QED
  BY <1>6, <1>11, <1>12 DEF PoolInv

\* ... then the semaphore is posted.
LEMMA SignalStep ==
  ASSUME PoolInv, poster.pc = "signal", pool' = [pool EXCEPT !.sem = @ + 1],
         poster' = [poster EXCEPT !.pc = IF poster.left = 1 THEN "wait" ELSE "post", !.left = @ - 1],
         work_q' = work_q, worker' = worker, barrier' = barrier, ran' = ran
  PROVE  PoolInv'
<1>1. PoolTyped /\ WorksAddUp /\ WorkersWake
  BY DEF PoolInv
<1>2. /\ pool' \in [stop: BOOLEAN, pending: Nat, sem: Nat, active: Int]
      /\ pool'.stop = pool.stop /\ pool'.sem = pool.sem + 1 /\ pool'.pending = pool.pending
      /\ pool.sem \in Nat
  <2>1. pool \in [stop: BOOLEAN, pending: Nat, sem: Nat, active: Int]
    BY <1>1 DEF PoolTyped
  <2> QED
    BY <2>1
<1>3. poster.left \in 0 .. Count /\ poster.left > 0 /\ poster.left - 1 \in 0 .. Count
  <2>1. poster.left \in 0 .. Count /\ poster.left > 0
    BY <1>1 DEF PoolTyped, WorksAddUp, InRound
  <2> QED
    BY <2>1, PoolAssumption
<1>4. PICK pc \in {"wait", "post"} : pc = IF poster.left = 1 THEN "wait" ELSE "post"
  OBVIOUS
<1>5. /\ poster' \in [pc: {"no pool", "idle", "post", "signal", "wait", "join"},
                      round: 0 .. Rounds, left: 0 .. Count]
      /\ poster'.pc = pc /\ poster'.round = poster.round /\ poster'.left = poster.left - 1
  <2>1. poster' = [poster EXCEPT !.pc = pc, !.left = @ - 1]
    BY <1>4
  <2>2. poster \in [pc: {"no pool", "idle", "post", "signal", "wait", "join"},
                    round: 0 .. Rounds, left: 0 .. Count]
    BY <1>1 DEF PoolTyped
  <2> QED
    BY <1>3, <1>4, <2>1, <2>2
<1>6. PoolTyped'
  BY <1>1, <1>2, <1>5 DEF PoolTyped
<1>7. \A S : At(worker, S)' = At(worker, S)
  BY DEF At
<1>8. ToPost' = ToPost /\ (pc # "wait" => poster'.left > 0)
  <2>1. poster.left \in Nat
    BY <1>3, PoolAssumption
  <2>2. CASE poster.left = 1
    <3>1. poster'.pc = "wait" /\ pc = "wait"
      BY <1>4, <1>5, <2>2
    <3> QED
      BY <2>2, <3>1 DEF ToPost
  <2>3. CASE poster.left # 1
    <3>1. poster'.pc = "post" /\ poster'.left = poster.left - 1
      BY <1>4, <1>5, <2>3
    <3>2. poster.left - 1 > 0
      BY <1>3, <2>1, <2>3
    <3> QED
      BY <3>1, <3>2 DEF ToPost
  <2> QED
    BY <2>2, <2>3
<1>9. WorksAddUp'
  BY <1>1, <1>2, <1>4, <1>5, <1>7, <1>8 DEF WorksAddUp, InRound
<1>10. WorkersWake'
  <2>1. pool'.sem > 0 /\ (pool.stop => FALSE)
    BY <1>1, <1>2 DEF WorkersWake, InRound
  <2> QED
    BY <1>2, <2>1 DEF WorkersWake
<1> QED
  BY <1>6, <1>9, <1>10 DEF PoolInv

\* barrier_wait returns: no work of the round is left anywhere.
LEMMA WaitStep ==
  ASSUME PoolInv, barrier_wait
  PROVE  PoolInv'
<1>1. PoolTyped /\ WorksAddUp /\ WorkersWake
  BY DEF PoolInv
<1>2. PICK r \in RoundIds : r = poster.round /\ r > 0
  <2>1. poster.round \in 0 .. Rounds /\ poster.round > 0
    BY <1>1 DEF PoolTyped, WorksAddUp, InRound, barrier_wait
  <2> QED
    BY <2>1, PoolAssumption DEF RoundIds
<1>3. /\ poster.pc = "wait" /\ ~barrier[r].locked
      /\ barrier' = [barrier EXCEPT ![r].locked = TRUE]
      /\ poster' = [poster EXCEPT !.pc = "idle"]
      /\ pool' = pool /\ work_q' = work_q /\ worker' = worker /\ ran' = ran
  BY <1>2 DEF barrier_wait
<1>4. barrier' \in [RoundIds -> [pending: 0 .. Count, locked: BOOLEAN]]
  BY <1>1, <1>3 DEF PoolTyped
<1>5. /\ poster' \in [pc: {"no pool", "idle", "post", "signal", "wait", "join"},
                      round: 0 .. Rounds, left: 0 .. Count]
      /\ poster'.pc = "idle" /\ poster'.round = poster.round
  BY <1>1, <1>3 DEF PoolTyped
<1>6. PoolTyped'
  BY <1>1, <1>3, <1>4, <1>5 DEF PoolTyped
<1>7. work_q = <<>> /\ At(worker, Busy) = {} /\ ran[r] = Count
  <2>1. /\ Cardinality(At(worker, Busy)) \in Nat /\ IsFiniteSet(At(worker, Busy))
        /\ Cardinality(At(worker, {"run"})) \in Nat
    BY AtIsFinite
  <2>2. PICK q \in Seq(RoundIds) : q = work_q
    BY <1>1 DEF PoolTyped
  <2>3. Len(q) \in Nat
    BY <2>2, LenProperties
  <2>4. /\ 0 = 0 + Len(q) + Cardinality(At(worker, Busy))
        /\ ran[r] + 0 + Len(q) + Cardinality(At(worker, {"run"})) = Count
    BY <1>1, <1>2, <1>3, <2>2 DEF WorksAddUp, InRound, ToPost
  <2>5. Len(q) = 0 /\ Cardinality(At(worker, Busy)) = 0
    BY <2>1, <2>3, <2>4
  <2>6. q = <<>> /\ At(worker, Busy) = {}
    BY <2>1, <2>2, <2>5, EmptySeq, FS_EmptySet
  <2>7. At(worker, {"run"}) = {}
    BY <2>6 DEF At, Busy
  <2>8. Cardinality(At(worker, {"run"})) = 0
    BY <2>7, FS_EmptySet
  <2>9. ran[r] \in 0 .. Count
    BY <1>1 DEF PoolTyped
  <2> QED
    BY <2>2, <2>4, <2>5, <2>6, <2>8, <2>9, PoolAssumption
<1>8. \A S : At(worker, S)' = At(worker, S)
  BY <1>3 DEF At
<1>9. WorksAddUp'
  BY <1>1, <1>2, <1>3, <1>5, <1>7, <1>8 DEF WorksAddUp, InRound
<1>10. WorkersWake'
  BY <1>1, <1>3, <1>5, <1>7, <1>8 DEF WorkersWake, InRound
<1> QED
  BY <1>6, <1>9, <1>10 DEF PoolInv

\* destroy: a token for every worker; and the join, when all have stopped.
LEMMA StopStep ==
  ASSUME PoolInv, PoolDestroy
  PROVE  PoolInv'
<1>1. PoolTyped /\ WorksAddUp /\ WorkersWake
  BY DEF PoolInv
<1>2. /\ Cardinality(Workers) \in Nat
      /\ Cardinality(At(worker, {"get", "sleep"})) \in Nat
      /\ Cardinality(At(worker, {"get", "sleep"})) <= Cardinality(Workers)
  <2>1. At(worker, {"get", "sleep"}) \subseteq Workers
    BY DEF At
  <2> QED
    BY <2>1, PoolAssumption, FS_Subset, FS_CardinalityType
<1>3. /\ pool' \in [stop: BOOLEAN, pending: Nat, sem: Nat, active: Int]
      /\ pool'.sem = pool.sem + Cardinality(Workers) /\ pool.sem \in Nat
      /\ pool'.pending = pool.pending
  <2>1. pool \in [stop: BOOLEAN, pending: Nat, sem: Nat, active: Int]
    BY <1>1 DEF PoolTyped
  <2>2. pool' = [pool EXCEPT !.stop = TRUE, !.sem = pool.sem + Cardinality(Workers)]
    BY DEF PoolDestroy
  <2>3. pool.sem + Cardinality(Workers) \in Nat
    BY <1>2, <2>1
  <2> QED
    BY <2>1, <2>2, <2>3
<1>4. /\ poster.pc = "idle" /\ work_q' = work_q /\ worker' = worker /\ barrier' = barrier
      /\ ran' = ran
  BY DEF PoolDestroy
<1>5. /\ poster' \in [pc: {"no pool", "idle", "post", "signal", "wait", "join"},
                      round: 0 .. Rounds, left: 0 .. Count]
      /\ poster'.pc = "join" /\ poster'.round = poster.round
  BY <1>1 DEF PoolTyped, PoolDestroy
<1>6. PoolTyped'
  BY <1>1, <1>3, <1>4, <1>5 DEF PoolTyped
<1>7. \A S : At(worker, S)' = At(worker, S)
  BY <1>4 DEF At
<1>8. WorksAddUp'
  BY <1>1, <1>3, <1>4, <1>5, <1>7 DEF WorksAddUp, InRound
<1>9. work_q = <<>>
  BY <1>1, <1>4 DEF WorksAddUp, InRound
<1>10. pool'.sem >= Cardinality(At(worker, {"get", "sleep"}))
  BY <1>2, <1>3
<1>11. WorkersWake'
  BY <1>4, <1>5, <1>7, <1>9, <1>10 DEF WorkersWake, InRound
<1> QED
  BY <1>6, <1>8, <1>11 DEF PoolInv

LEMMA JoinStep ==
  ASSUME PoolInv, PoolJoined
  PROVE  PoolInv'
<1>1. PoolTyped /\ WorksAddUp /\ WorkersWake
  BY DEF PoolInv
<1>2. /\ pool' \in [stop: BOOLEAN, pending: Nat, sem: Nat, active: Int]
      /\ pool'.sem \in Nat /\ pool'.pending = pool.pending
  <2>1. pool \in [stop: BOOLEAN, pending: Nat, sem: Nat, active: Int]
    BY <1>1 DEF PoolTyped
  <2>2. Cardinality(Workers) \in Nat
    BY PoolAssumption, FS_CardinalityType
  <2>3. PICK n \in Int : n = pool.active - Cardinality(Workers)
    BY <2>1, <2>2
  <2>4. pool' = [pool EXCEPT !.active = n]
    BY <2>3 DEF PoolJoined
  <2> QED
    BY <2>1, <2>4
<1>3. /\ worker' \in Workforce
      /\ \A w \in Workers : worker'[w].pc = "off" /\ worker[w].pc = "exit"
  <2>1. worker' = [w \in Workers |-> [pc |-> "off", round |-> 0]]
    BY DEF PoolJoined
  <2>2. 0 \in 0 .. Rounds
    BY PoolAssumption
  <2>3. \A w \in Workers : worker[w].pc = "exit"
    BY DEF PoolJoined
  <2> QED
    BY <2>1, <2>2, <2>3 DEF Workforce, WorkerPcs
<1>4. /\ poster.pc = "join" /\ work_q' = work_q /\ barrier' = barrier /\ ran' = ran
  BY DEF PoolJoined
<1>5. /\ poster' \in [pc: {"no pool", "idle", "post", "signal", "wait", "join"},
                      round: 0 .. Rounds, left: 0 .. Count]
      /\ poster'.pc = "no pool" /\ poster'.round = poster.round
  BY <1>1 DEF PoolTyped, PoolJoined
<1>6. PoolTyped'
  BY <1>1, <1>2, <1>3, <1>4, <1>5 DEF PoolTyped, Workforce
<1>7. /\ \A S \in {Busy, {"run"}, {"run", "ran"}} : At(worker, S)' = {} /\ At(worker, S) = {}
      /\ At(worker, {"get", "sleep"})' = {}
  BY <1>3 DEF At, Busy
<1>8. WorksAddUp'
  BY <1>1, <1>2, <1>3, <1>4, <1>5, <1>7 DEF WorksAddUp, InRound, Busy
<1>9. work_q = <<>>
  BY <1>1, <1>4 DEF WorksAddUp, InRound
<1>10. Cardinality(At(worker, {"get", "sleep"}))' = 0
  BY <1>7, FS_EmptySet
<1>11. WorkersWake'
  <2>1. pool'.sem >= Cardinality(At(worker, {"get", "sleep"}))'
    BY <1>2, <1>10
  <2> QED
    BY <1>4, <1>5, <1>9, <2>1 DEF WorkersWake, InRound
<1> QED
  BY <1>6, <1>8, <1>11 DEF PoolInv

\* work_post_once and thread_run_ only count a thread.
LEMMA OnceStep ==
  ASSUME PoolInv, NEW o \in OnceThreads, work_post_once(o) \/ thread_run(o)
  PROVE  PoolInv'
<1>1. PoolTyped /\ WorksAddUp /\ WorkersWake
  BY DEF PoolInv
<1>2. /\ pool' \in [stop: BOOLEAN, pending: Nat, sem: Nat, active: Int]
      /\ pool'.sem = pool.sem /\ pool'.pending = pool.pending /\ pool'.stop = pool.stop
  <2>1. pool \in [stop: BOOLEAN, pending: Nat, sem: Nat, active: Int]
    BY <1>1 DEF PoolTyped
  <2>2. \/ pool' = [pool EXCEPT !.active = pool.active + 1]
        \/ pool' = [pool EXCEPT !.active = pool.active - 1]
    BY DEF work_post_once, thread_run
  <2>3. PICK n \in Int : pool' = [pool EXCEPT !.active = n]
    BY <2>1, <2>2
  <2> QED
    BY <2>1, <2>3
<1>3. work_q' = work_q /\ worker' = worker /\ barrier' = barrier /\ ran' = ran /\ poster' = poster
  BY DEF work_post_once, thread_run
<1>4. PoolTyped'
  BY <1>1, <1>2, <1>3 DEF PoolTyped
<1>5. (\A S : At(worker, S)' = At(worker, S)) /\ ToPost' = ToPost
  BY <1>3 DEF At, ToPost
<1>6. WorksAddUp'
  BY <1>1, <1>2, <1>3, <1>5 DEF WorksAddUp
<1>7. WorkersWake'
  BY <1>1, <1>2, <1>3, <1>5 DEF WorkersWake
<1> QED
  BY <1>4, <1>6, <1>7 DEF PoolInv

LEMMA PoolStep ==
  ASSUME PoolInv, [PoolNext]_poolVars
  PROVE  PoolInv'
<1>1. CASE PoolFactory
  BY <1>1, FactoryStep
<1>2. CASE barrier_init
  BY <1>2, InitBarrier
<1>3. CASE work_post
  <2>1. poster.pc = "post" => PoolInv'
    BY <1>3, PostStep DEF work_post
  <2>2. poster.pc = "signal" => PoolInv'
    BY <1>3, SignalStep DEF work_post
  <2> QED
    BY <1>3, <2>1, <2>2 DEF work_post
<1>4. CASE barrier_wait
  BY <1>4, WaitStep
<1>5. CASE PoolDestroy
  BY <1>5, StopStep
<1>6. CASE PoolJoined
  BY <1>6, JoinStep
<1>7. ASSUME NEW w \in Workers,
             WorkLoop(w) \/ work_get(w) \/ Wake(w) \/ RunWork(w) \/ CountDown(w) \/ work_barrier_done(w)
      PROVE  PoolInv'
  <2>1. CASE WorkLoop(w) \/ Wake(w)
    BY <2>1, IdleStep
  <2>2. CASE work_get(w)
    <3>1. CASE work_q = <<>>
      <4>1. /\ worker[w].pc = "get" /\ work_q = <<>> /\ Go(w, "sleep")
            /\ UNCHANGED <<pool, work_q, barrier, poster, once, ran>>
        BY <2>2, <3>1 DEF work_get
      <4> QED
        BY <4>1, IdleStep
    <3>2. CASE work_q # <<>>
      <4>1. /\ worker[w].pc = "get"
            /\ worker' = [worker EXCEPT ![w] = [pc |-> "run", round |-> Head(work_q)]]
            /\ work_q' = Tail(work_q)
            /\ pool' = pool /\ barrier' = barrier /\ poster' = poster /\ ran' = ran
        BY <2>2, <3>2 DEF work_get
      <4> QED
        BY <3>2, <4>1, GetStep
    <3> QED
      BY <3>1, <3>2
  <2>3. CASE RunWork(w) \/ CountDown(w)
    BY <2>3, WorkingStep
  <2>4. CASE work_barrier_done(w)
    <3>1. worker[w].pc = "done" => PoolInv'
      BY <2>4, WorkingStep DEF work_barrier_done
    <3>2. worker[w].pc = "check" => PoolInv'
      <4>1. worker[w].pc = "check" =>
              /\ barrier' = [barrier EXCEPT ![worker[w].round].locked =
                               @ /\ barrier[worker[w].round].pending # 0]
              /\ Go(w, "loop") /\ pool' = pool /\ work_q' = work_q /\ poster' = poster
              /\ ran' = ran
        BY <2>4 DEF work_barrier_done
      <4> QED
        BY <4>1, CheckStep
    <3> QED
      BY <2>4, <3>1, <3>2 DEF work_barrier_done
  <2> QED
    BY <1>7, <2>1, <2>2, <2>3, <2>4
<1>8. ASSUME NEW o \in OnceThreads, work_post_once(o) \/ thread_run(o)
      PROVE  PoolInv'
  BY <1>8, OnceStep
<1>9. CASE UNCHANGED poolVars
  <2>1. /\ pool' = pool /\ work_q' = work_q /\ worker' = worker /\ barrier' = barrier
        /\ poster' = poster /\ ran' = ran
    BY <1>9 DEF poolVars
  <2>2. (\A S : At(worker, S)' = At(worker, S)) /\ ToPost' = ToPost
    BY <2>1 DEF At, ToPost
  <2> QED
    BY <2>1, <2>2 DEF PoolInv, PoolTyped, WorksAddUp, WorkersWake
<1> QED
  BY <1>1, <1>2, <1>3, <1>4, <1>5, <1>6, <1>7, <1>8, <1>9 DEF PoolNext

\* The counts of the pool hold in every state of it.
THEOREM PoolInvariant == PoolSpec => []PoolInv
<1>1. ASSUME PoolInit PROVE PoolInv
  <2>1. /\ 0 \in 0 .. Rounds /\ 0 \in 0 .. Count /\ Count \in Nat
        /\ pool \in [stop: BOOLEAN, pending: Nat, sem: Nat, active: Int]
        /\ work_q \in Seq(RoundIds)
    <3>1. pool = [stop |-> FALSE, pending |-> 0, sem |-> 0, active |-> 0] /\ work_q = <<>>
      BY <1>1 DEF PoolInit
    <3>2. work_q \in Seq(RoundIds)
      BY <3>1, EmptySeq
    <3>3. 0 \in 0 .. Rounds /\ 0 \in 0 .. Count /\ Count \in Nat
      BY PoolAssumption
    <3> QED
      BY <3>1, <3>2, <3>3
  <2>2. PoolTyped
    BY <1>1, <2>1 DEF PoolInit, PoolTyped, WorkerPcs
  <2>3. /\ poster.pc = "no pool" /\ poster.round = 0 /\ pool.pending = 0 /\ ~pool.stop
        /\ work_q = <<>> /\ \A w \in Workers : worker[w].pc = "off"
        /\ \A r \in RoundIds : ran[r] = 0 /\ ~(r < 0)
    <3>1. \A r \in RoundIds : ~(r < 0)
      BY PoolAssumption DEF RoundIds
    <3> QED
      BY <1>1, <3>1 DEF PoolInit
  <2>4. At(worker, Busy) = {} /\ At(worker, {"run", "ran"}) = {}
    BY <2>3 DEF At, Busy
  <2>5. Len(work_q) = 0 /\ Cardinality(At(worker, {"run", "ran"})) = 0
    BY <2>3, <2>4, FS_EmptySet, EmptySeq
  <2>6. WorksAddUp
    <3>1. \A r \in RoundIds : /\ r < poster.round => ran[r] = Count
                              /\ r > poster.round => ran[r] = 0
      BY <2>3
    <3>2. \A i \in 1 .. Len(work_q) : work_q[i] = poster.round
      BY <2>5
    <3>3. pool.pending = Len(work_q) + Cardinality(At(worker, {"run", "ran"}))
      <4>1. pool.pending = 0
        BY <2>3
      <4>2. 0 = 0 + 0
        OBVIOUS
      <4> QED
        BY <2>5, <4>1, <4>2, Zenon
    <3>4. poster.pc \notin InRound /\ work_q = <<>> /\ ~(poster.round > 0)
      <4>1. poster.pc = "no pool" /\ work_q = <<>> /\ poster.round = 0
        BY <2>3
      <4>2. ~(0 > 0) /\ "no pool" \notin InRound
        BY DEF InRound
      <4> QED
        BY <4>1, <4>2, Zenon
    <3>5. \A w \in Workers : worker[w].pc \notin Busy \union {"check"}
      BY <2>3 DEF Busy
    <3> QED
      BY <2>4, <3>1, <3>2, <3>3, <3>4, <3>5 DEF WorksAddUp
  <2>7. WorkersWake
    BY <2>3 DEF WorkersWake, InRound
  <2> QED
    BY <2>2, <2>6, <2>7 DEF PoolInv
<1> QED
  BY <1>1, PoolStep, PTL DEF PoolSpec

\* The threads of a single work that run now, and the threads counted as active:
\* those, and the workers while there is a pool.
RunningOnce == {o \in OnceThreads : once[o] = "run"}

PoolThreads == IF poster.pc = "no pool" THEN 0 ELSE Cardinality(Workers)

ThreadsCount ==
    /\ once \in [OnceThreads -> {"none", "run", "done"}]
    /\ pool.active = PoolThreads + Cardinality(RunningOnce)

LEMMA PoolNumbers ==
  /\ IsFiniteSet(RunningOnce) /\ Cardinality(RunningOnce) \in Nat
  /\ Cardinality(RunningOnce) <= Cardinality(OnceThreads)
  /\ Cardinality(Workers) \in Nat /\ Cardinality(OnceThreads) \in Nat
  /\ PoolThreads \in 0 .. Cardinality(Workers)
<1>1. RunningOnce \in SUBSET OnceThreads
  BY DEF RunningOnce
<1>2. IsFiniteSet(RunningOnce) /\ Cardinality(RunningOnce) <= Cardinality(OnceThreads)
  BY <1>1, PoolAssumption, FS_Subset
<1>3. Cardinality(Workers) \in Nat /\ Cardinality(OnceThreads) \in Nat
  BY PoolAssumption, FS_CardinalityType
<1>4. PoolThreads \in 0 .. Cardinality(Workers)
  <2>1. PoolThreads = 0 \/ PoolThreads = Cardinality(Workers)
    BY Zenon DEF PoolThreads
  <2>2. \A n \in Nat : 0 \in 0 .. n /\ n \in 0 .. n
    OBVIOUS
  <2> QED
    BY <1>3, <2>1, <2>2, Zenon
<1>5. Cardinality(RunningOnce) \in Nat
  BY <1>2, FS_CardinalityType
<1> QED
  BY <1>2, <1>3, <1>4, <1>5

\* One thread more or fewer.
LEMMA CountMoves ==
  \A a, c, d \in Int : /\ a = c + d => /\ a + 1 = c + (d + 1)
                                        /\ a - 1 = c + (d - 1)
                       /\ a = 0 + d => a + c = c + d
                       /\ a = c + d => a - c = 0 + d
OBVIOUS

\* A thread of a single work starts or ends.
LEMMA OnceCounted ==
  ASSUME PoolTyped, ThreadsCount, NEW o \in OnceThreads, work_post_once(o) \/ thread_run(o)
  PROVE  ThreadsCount'
<1>1. /\ pool \in [stop: BOOLEAN, pending: Nat, sem: Nat, active: Int]
      /\ once \in [OnceThreads -> {"none", "run", "done"}]
      /\ pool.active = PoolThreads + Cardinality(RunningOnce)
  BY DEF PoolTyped, ThreadsCount
<1>2. /\ IsFiniteSet(RunningOnce) /\ Cardinality(RunningOnce) \in Int
      /\ PoolThreads \in Int /\ pool.active \in Int
  BY <1>1, PoolNumbers
<1>3. PoolThreads' = PoolThreads
  BY DEF work_post_once, thread_run, PoolThreads
<1>4. CASE work_post_once(o)
  <2>1. /\ once[o] = "none" /\ once' = [once EXCEPT ![o] = "run"]
        /\ pool'.active = pool.active + 1
    BY <1>1, <1>4 DEF work_post_once
  <2>2. RunningOnce' = RunningOnce \cup {o} /\ o \notin RunningOnce
    BY <1>1, <2>1 DEF RunningOnce
  <2>3. Cardinality(RunningOnce') = Cardinality(RunningOnce) + 1
    BY <1>2, <2>2, FS_AddElement
  <2>4. once' \in [OnceThreads -> {"none", "run", "done"}]
    BY <1>1, <2>1
  <2>5. pool.active + 1 = PoolThreads + (Cardinality(RunningOnce) + 1)
    BY <1>1, <1>2, CountMoves
  <2>6. pool'.active = PoolThreads' + Cardinality(RunningOnce')
    BY <1>3, <2>1, <2>3, <2>5, Zenon
  <2> QED
    BY <2>4, <2>6 DEF ThreadsCount
<1>5. CASE thread_run(o)
  <2>1. /\ once[o] = "run" /\ once' = [once EXCEPT ![o] = "done"]
        /\ pool'.active = pool.active - 1
    BY <1>1, <1>5 DEF thread_run
  <2>2. RunningOnce' = RunningOnce \ {o} /\ o \in RunningOnce
    BY <1>1, <2>1 DEF RunningOnce
  <2>3. Cardinality(RunningOnce') = Cardinality(RunningOnce) - 1
    BY <1>2, <2>2, FS_RemoveElement
  <2>4. once' \in [OnceThreads -> {"none", "run", "done"}]
    BY <1>1, <2>1
  <2>5. pool.active - 1 = PoolThreads + (Cardinality(RunningOnce) - 1)
    BY <1>1, <1>2, CountMoves
  <2>6. pool'.active = PoolThreads' + Cardinality(RunningOnce')
    BY <1>3, <2>1, <2>3, <2>5, Zenon
  <2> QED
    BY <2>4, <2>6 DEF ThreadsCount
<1> QED
  BY <1>4, <1>5

LEMMA ThreadsCounted ==
  ASSUME PoolTyped, ThreadsCount, [PoolNext]_poolVars
  PROVE  ThreadsCount'
<1>1. /\ pool \in [stop: BOOLEAN, pending: Nat, sem: Nat, active: Int]
      /\ poster \in [pc: {"no pool", "idle", "post", "signal", "wait", "join"},
                     round: 0 .. Rounds, left: 0 .. Count]
  BY DEF PoolTyped
<1>2. /\ Cardinality(RunningOnce) \in Int /\ Cardinality(Workers) \in Int /\ pool.active \in Int
      /\ pool.active = PoolThreads + Cardinality(RunningOnce)
  <2>1. Cardinality(RunningOnce) \in Nat /\ Cardinality(Workers) \in Nat
    BY PoolNumbers
  <2>2. pool.active = PoolThreads + Cardinality(RunningOnce)
    BY DEF ThreadsCount
  <2>3. pool.active \in Int
    BY <1>1
  <2>4. \A n \in Nat : n \in Int
    OBVIOUS
  <2> QED
    BY <2>1, <2>2, <2>3, <2>4, Zenon
<1>3. ASSUME once' = once, pool'.active = pool.active,
             poster'.pc = "no pool" <=> poster.pc = "no pool"
      PROVE  ThreadsCount'
  BY <1>3 DEF ThreadsCount, RunningOnce, PoolThreads
<1>4. CASE PoolFactory
  <2>1. /\ once' = once /\ poster.pc = "no pool" /\ poster'.pc = "idle"
        /\ pool'.active = pool.active + Cardinality(Workers)
    BY <1>1, <1>4 DEF PoolFactory
  <2>2. PoolThreads = 0 /\ PoolThreads' = Cardinality(Workers) /\ RunningOnce' = RunningOnce
    BY <2>1 DEF PoolThreads, RunningOnce
  <2>3. pool.active + Cardinality(Workers) = Cardinality(Workers) + Cardinality(RunningOnce)
    BY <1>2, <2>2, CountMoves
  <2>4. pool'.active = PoolThreads' + Cardinality(RunningOnce')
    BY <2>1, <2>2, <2>3, Zenon
  <2> QED
    BY <2>1, <2>4 DEF ThreadsCount
<1>5. CASE PoolJoined
  <2>1. /\ once' = once /\ poster.pc = "join" /\ poster'.pc = "no pool"
        /\ pool'.active = pool.active - Cardinality(Workers)
    BY <1>1, <1>5 DEF PoolJoined
  <2>2. PoolThreads = Cardinality(Workers) /\ PoolThreads' = 0 /\ RunningOnce' = RunningOnce
    BY <2>1 DEF PoolThreads, RunningOnce
  <2>3. pool.active - Cardinality(Workers) = 0 + Cardinality(RunningOnce)
    BY <1>2, <2>2, CountMoves
  <2>4. pool'.active = PoolThreads' + Cardinality(RunningOnce')
    BY <2>1, <2>2, <2>3, Zenon
  <2> QED
    BY <2>1, <2>4 DEF ThreadsCount
<1>6. CASE barrier_init \/ barrier_wait \/ PoolDestroy
  <2>1. once' = once /\ pool'.active = pool.active
    BY <1>1, <1>6 DEF barrier_init, barrier_wait, PoolDestroy
  <2>2. poster.pc # "no pool"
    BY <1>6 DEF barrier_init, barrier_wait, PoolDestroy
  <2>3. poster'.pc # "no pool"
    <3>1. barrier_init => poster'.pc = "post"
      BY DEF barrier_init
    <3>2. barrier_wait \/ PoolDestroy => poster'.pc \in {"idle", "join"}
      BY <1>1 DEF barrier_wait, PoolDestroy
    <3> QED
      BY <1>6, <3>1, <3>2
  <2> QED
    BY <1>3, <2>1, <2>2, <2>3
<1>7. CASE work_post
  <2>1. once' = once /\ pool'.active = pool.active /\ poster.pc \in {"post", "signal"}
    BY <1>1, <1>7 DEF work_post
  <2>2. poster'.pc \in {"signal", "wait", "post"}
    BY <1>1, <1>7 DEF work_post
  <2> QED
    BY <1>3, <2>1, <2>2
<1>8. ASSUME NEW w \in Workers,
             WorkLoop(w) \/ work_get(w) \/ Wake(w) \/ RunWork(w) \/ CountDown(w) \/ work_barrier_done(w)
      PROVE  ThreadsCount'
  <2>1. once' = once /\ poster' = poster
    BY <1>8 DEF WorkLoop, work_get, Wake, RunWork, CountDown, work_barrier_done
  <2>2. pool'.active = pool.active
    BY <1>1, <1>8 DEF WorkLoop, work_get, Wake, RunWork, CountDown, work_barrier_done
  <2> QED
    BY <1>3, <2>1, <2>2
<1>9. ASSUME NEW o \in OnceThreads, work_post_once(o) \/ thread_run(o)
      PROVE  ThreadsCount'
  BY <1>9, OnceCounted
<1>10. CASE UNCHANGED poolVars
  BY <1>3, <1>10 DEF poolVars
<1> QED
  BY <1>4, <1>5, <1>6, <1>7, <1>8, <1>9, <1>10 DEF PoolNext

\* A round has its works posted one at a time, so no more are pending than there are.
LEMMA PendingBounded ==
  ASSUME PoolTyped, WorksAddUp
  PROVE  pool.pending \in 0 .. Count * Rounds
<1>1. /\ Count \in Nat /\ Rounds \in Nat /\ work_q \in Seq(RoundIds)
      /\ worker \in [Workers -> [pc: WorkerPcs, round: 0 .. Rounds]]
      /\ poster.round \in 0 .. Rounds /\ poster.left \in 0 .. Count
  BY PoolAssumption DEF PoolTyped
<1>2. /\ Len(work_q) \in Nat
      /\ Cardinality(At(worker, {"run", "ran"})) \in Nat /\ Cardinality(At(worker, Busy)) \in Nat
      /\ IsFiniteSet(At(worker, Busy))
  BY <1>1, AtIsFinite, LenProperties
<1>3. At(worker, {"run", "ran"}) \in SUBSET At(worker, Busy)
  BY DEF At, Busy
<1>4. Cardinality(At(worker, {"run", "ran"})) <= Cardinality(At(worker, Busy))
  BY <1>2, <1>3, FS_Subset
<1>5. pool.pending = Len(work_q) + Cardinality(At(worker, {"run", "ran"}))
  BY DEF WorksAddUp
<1>6. CASE poster.pc \in InRound
  <2>1. /\ poster.round > 0
        /\ poster.pc # "wait" => poster.left > 0
        /\ barrier[poster.round].pending = ToPost + Len(work_q) + Cardinality(At(worker, Busy))
    BY <1>6 DEF WorksAddUp
  <2>2. barrier[poster.round].pending \in 0 .. Count
    <3>1. poster.round \in RoundIds
      BY <1>1, <2>1 DEF RoundIds
    <3> QED
      BY <3>1 DEF PoolTyped
  <2>3. ToPost \in Nat
    BY <1>1, <1>6, <2>1 DEF ToPost, InRound
  <2>4. pool.pending \in Nat /\ pool.pending <= Count
    BY <1>1, <1>2, <1>4, <1>5, <2>1, <2>2, <2>3
  <2>5. Count <= Count * Rounds
    <3>1. \A c, r \in Nat : r > 0 => c <= c * r
      BY SMT
    <3> QED
      BY <1>1, <2>1, <3>1
  <2>6. Count * Rounds \in Nat
    BY <1>1
  <2>7. \A n, c, m \in Nat : n <= c /\ c <= m => n \in 0 .. m
    OBVIOUS
  <2> QED
    BY <1>1, <2>4, <2>5, <2>6, <2>7
<1>7. CASE poster.pc \notin InRound
  <2>1. Len(work_q) = 0 /\ At(worker, Busy) = {}
    BY <1>7, EmptySeq DEF WorksAddUp
  <2>2. Cardinality(At(worker, Busy)) = 0
    BY <2>1, FS_EmptySet
  <2>3. pool.pending = 0
    BY <1>2, <1>4, <1>5, <2>1, <2>2
  <2>4. Count * Rounds \in Nat
    BY <1>1
  <2> QED
    BY <2>3, <2>4
<1> QED
  BY <1>6, <1>7

\* The pool's counters stay in their bounds: pending_ in that of the works, and
\* active_nthreads_ in that of the threads, which work_post_once adds to on its
\* own (thread_pool.hpp).
THEOREM PoolTypeCorrect == PoolSpec => []PoolTypeOK
<1>1. ASSUME PoolInit PROVE ThreadsCount
  <2>1. RunningOnce = {}
    BY <1>1 DEF PoolInit, RunningOnce
  <2>2. Cardinality(RunningOnce) = 0
    BY <2>1, FS_EmptySet
  <2>3. once \in [OnceThreads -> {"none", "run", "done"}]
    BY <1>1 DEF PoolInit
  <2>4. pool.active = 0 /\ poster.pc = "no pool"
    BY <1>1 DEF PoolInit
  <2>5. PoolThreads = 0 /\ 0 = 0 + 0
    <3>1. PoolThreads = 0
      BY <2>4, Zenon DEF PoolThreads
    <3> QED
      BY <3>1
  <2>6. pool.active = PoolThreads + Cardinality(RunningOnce)
    BY <2>2, <2>4, <2>5, Zenon
  <2> QED
    BY <2>3, <2>6 DEF ThreadsCount
<1>2. PoolInv /\ ThreadsCount /\ [PoolNext]_poolVars => ThreadsCount'
  BY ThreadsCounted DEF PoolInv
<1>3. ASSUME PoolInv, ThreadsCount PROVE PoolTypeOK
  <2>1. PoolTyped /\ WorksAddUp
    BY <1>3 DEF PoolInv
  <2>2. pool.pending \in 0 .. Count * Rounds
    BY <2>1, PendingBounded
  <2>3. pool.active \in 0 .. Cardinality(Workers) + Cardinality(OnceThreads)
    <3>1. pool.active = PoolThreads + Cardinality(RunningOnce)
      BY <1>3 DEF ThreadsCount
    <3>2. \A t, r, m, n \in Nat : t \in 0 .. m /\ r <= n => t + r \in 0 .. m + n
      OBVIOUS
    <3>3. /\ PoolThreads \in Nat /\ PoolThreads \in 0 .. Cardinality(Workers)
          /\ Cardinality(RunningOnce) \in Nat /\ Cardinality(Workers) \in Nat
          /\ Cardinality(RunningOnce) <= Cardinality(OnceThreads) /\ Cardinality(OnceThreads) \in Nat
      BY PoolNumbers
    <3> QED
      BY <3>1, <3>2, <3>3
  <2>4. pool \in [stop: BOOLEAN, pending: 0 .. Count * Rounds, sem: Nat,
                  active: 0 .. Cardinality(Workers) + Cardinality(OnceThreads)]
    BY <2>1, <2>2, <2>3 DEF PoolTyped
  <2> QED
    BY <1>3, <2>1, <2>4 DEF PoolTyped, PoolTypeOK, ThreadsCount, WorkerPcs
<1> QED
  BY <1>1, <1>2, <1>3, PoolInvariant, PTL DEF PoolSpec

\* barrier_wait returns only when every callback of the round has returned
\* (thread_pool.hpp barrier_wait, done_), and no worker sleeps over work, or
\* through destroy: who posts work posts the semaphore after it (work_post,
\* work_get_), and destroy posts it once for every worker.
THEOREM PoolIsSound == PoolSpec => []PoolSound
<1>1. ASSUME PoolInv PROVE PoolSound
  <2>1. PoolTyped /\ WorksAddUp /\ WorkersWake
    BY <1>1 DEF PoolInv
  <2>2. BarrierMeansRan
    <3>1. ASSUME NEW r \in RoundIds, r < poster.round \/ (r = poster.round /\ poster.pc \in {"idle", "join"})
          PROVE  ran[r] = Count
      <4>1. r > 0
        BY PoolAssumption DEF RoundIds
      <4> QED
        BY <2>1, <3>1, <4>1 DEF WorksAddUp, InRound
    <3> QED
      BY <3>1 DEF BarrierMeansRan
  <2>3. NobodySleepsOverWork
    <3>1. PICK S : S = {w \in Workers : worker[w].pc = "sleep"}
      OBVIOUS
    <3>2. /\ Cardinality(S) \in Nat /\ Cardinality(S) <= Cardinality(At(worker, {"get", "sleep"}))
          /\ Cardinality(At(worker, {"get", "sleep"})) \in Nat
      <4>1. S \subseteq At(worker, {"get", "sleep"})
        BY <3>1 DEF At
      <4> QED
        BY <4>1, AtIsFinite, FS_Subset, FS_CardinalityType
    <3>3. pool.stop => pool.sem >= Cardinality(S)
      <4>1. pool.sem \in Nat
        BY <2>1 DEF PoolTyped
      <4> QED
        BY <2>1, <3>2, <4>1 DEF WorkersWake
    <3>4. work_q # <<>> /\ poster.pc # "signal" /\ S = Workers => pool.sem > 0
      BY <2>1, <3>1 DEF WorkersWake
    <3> QED
      BY <3>1, <3>3, <3>4 DEF NobodySleepsOverWork
  <2> QED
    BY <2>2, <2>3 DEF PoolSound
<1> QED
  BY <1>1, PoolInvariant, PTL

-----------------------------------------------------------------------------
(***************************************************************************)
(* The timer wheel, for any number of slices, timers and threads and for   *)
(* every set of timeouts.  An entry that is being moved is in no list for  *)
(* a while; that it is never lost or in two lists needs to know in whose   *)
(* hand it is (WheelHands), that the slice being walked is locked by the   *)
(* tick (WheelLocks) and that what is left of the walk is still in that    *)
(* slice (WheelWalk).  That no timer fires early is a matter of counting:  *)
(* the slices a timer has waited and those it still has to wait add up to  *)
(* its timeout at least (WheelTimes).  A slice that has been walked to the *)
(* timer's place is a whole turn away.                                     *)
(***************************************************************************)

\* What a thread has in its hand: the fields an entry is put back with.
TakenEntries == [home: {"list"}, slice: Slices, nspins: Nat, valid: BOOLEAN, periodic: BOOLEAN,
                 timeout: Nat]

WheelCalls == [op: {"add", "del"}, t: Timers, entry: TakenEntries] \union
              [op: {"upd"}, t: Timers, from: Slices, entry: TakenEntries]

Entries == [home: {"slab", "list", "held"}, slice: Slices, nspins: Nat, valid: BOOLEAN,
            periodic: BOOLEAN, timeout: Nat]

WheelTyped ==
    /\ curr_slice \in Slices
    /\ wheel \in [Slices -> Seq(Timers)]
    /\ twentry \in [Timers -> Entries]
    /\ slock \in [Slices -> {NoLock, Ticker} \union WheelUsers]
    /\ user \in [WheelUsers -> {NoCall} \union WheelCalls]
    /\ ticker \in [phase: {"new", "idle", "off"}] \union
                  [phase: {"walk"}, left: Seq(Timers)] \union
                  [phase: {"move"}, left: Seq(Timers), t: Timers, entry: TakenEntries]
    /\ age \in [Timers -> 0 .. MaxAge]
    /\ skips \subseteq Timers
    /\ missed \in 0 .. MaxMissed
    /\ is_running \in BOOLEAN

Walking == ticker.phase \in {"walk", "move"}

\* The lock of the slice being walked is the ticker's, and that of the slice an
\* update took its entry from is the updater's.
WheelLocks ==
    /\ \A s \in Slices : slock[s] = Ticker <=> Walking /\ s = curr_slice
    /\ \A s \in Slices, u \in WheelUsers :
         slock[s] = u <=> user[u].op = "upd" /\ user[u].from = s

\* What is left to visit is in the slice being walked, each entry once.
WheelWalk ==
    Walking => /\ IsInjective(ticker.left)
               /\ Range(ticker.left) \subseteq Range(wheel[curr_slice])

WheelLists ==
    /\ \A s \in Slices : IsInjective(wheel[s])
    /\ \A s \in Slices, t \in Timers :
         t \in Range(wheel[s]) <=> twentry[t].home = "list" /\ twentry[t].slice = s

\* An entry that is held is in one hand.
HeldBy(t, u) == user[u] # NoCall /\ user[u].t = t
Moved(t) == ticker.phase = "move" /\ ticker.t = t
WheelHands ==
    /\ \A t \in Timers : twentry[t].home # "list" => ~twentry[t].valid
    /\ \A t \in Timers :
         twentry[t].home = "held" <=> Moved(t) \/ \E u \in WheelUsers : HeldBy(t, u)
    /\ \A t \in Timers, u, v \in WheelUsers : HeldBy(t, u) /\ HeldBy(t, v) => u = v
    /\ \A t \in Timers, u \in WheelUsers : ~(HeldBy(t, u) /\ Moved(t))

\* How many slices are walked before slice s is.
Ahead(s) == IF s >= curr_slice THEN s - curr_slice ELSE s + NSlices - curr_slice
Seen(t) == Walking /\ t \notin Range(ticker.left)
ToGo(e, seen) ==
    e.nspins * NSlices + (IF seen /\ e.slice = curr_slice THEN NSlices ELSE Ahead(e.slice))
InTime(t, e) ==
    e.valid => /\ e.timeout \in Timeouts
               /\ t \notin skips => age[t] + ToGo(e, Seen(t)) >= e.timeout \div SliceIntvl
WheelTimes ==
    /\ \A t \in Timers : InTime(t, twentry[t])
    /\ \A u \in WheelUsers : user[u] # NoCall => InTime(user[u].t, user[u].entry)
    /\ ticker.phase = "move" => InTime(ticker.t, ticker.entry)
WheelInv == WheelTyped /\ WheelLocks /\ WheelWalk /\ WheelLists /\ WheelHands /\ WheelTimes

\* What unlink_timer_ and insert_timer_ do to a list, and the walk to what is left.
LEMMA Unlinked ==
  ASSUME NEW list \in Seq(Timers), IsInjective(list), NEW t \in Range(list)
  PROVE  /\ unlink_timer(list, t) \in Seq(Timers) /\ IsInjective(unlink_timer(list, t))
         /\ Range(unlink_timer(list, t)) = Range(list) \ {t}
<1> DEFINE k == CHOOSE i \in DOMAIN list : list[i] = t
           l == SubSeq(list, 1, k - 1)
           r == SubSeq(list, k + 1, Len(list))
<1>1. k \in 1 .. Len(list) /\ list[k] = t /\ DOMAIN list = 1 .. Len(list) /\ Len(list) \in Nat
  <2>1. \E i \in DOMAIN list : list[i] = t
    BY DEF Range
  <2> QED
    BY <2>1, LenProperties
<1> HIDE DEF k
<1>2. /\ l \in Seq(Timers) /\ Len(l) = k - 1 /\ \A i \in 1 .. k - 1 : l[i] = list[i]
  BY <1>1
<1>3. /\ r \in Seq(Timers) /\ Len(r) = Len(list) - k
      /\ \A i \in 1 .. Len(list) - k : r[i] = list[k + i]
  <2>1. /\ k + 1 \in 1 .. Len(list) + 1 /\ Len(list) \in 0 .. Len(list)
        /\ \A i \in 1 .. Len(list) - k : i \in 1 .. Len(list) - (k + 1) + 1 /\ (k + 1) + i - 1 = k + i
    BY <1>1
  <2>2. /\ SubSeq(list, k + 1, Len(list)) \in Seq(Timers)
        /\ Len(r) = IF k + 1 <= Len(list) THEN Len(list) - (k + 1) + 1 ELSE 0
        /\ \A i \in 1 .. Len(list) - (k + 1) + 1 : r[i] = list[(k + 1) + i - 1]
    BY <2>1, SubSeqProperties
  <2> HIDE DEF r
  <2>3. Len(r) = Len(list) - k
    <3>1. CASE k = Len(list)
      BY <1>1, <2>2, <3>1
    <3>2. CASE k + 1 <= Len(list)
      BY <1>1, <2>2, <3>2
    <3>3. k \in Int /\ Len(list) \in Int /\ k <= Len(list)
      BY <1>1
    <3> QED
      BY <3>1, <3>2, <3>3
  <2>4. \A i \in 1 .. Len(list) - k : r[i] = list[k + i]
    BY <2>1, <2>2
  <2> QED
    BY <2>2, <2>3, <2>4 DEF r
<1> HIDE DEF l, r
<1>4. /\ l \o r \in Seq(Timers) /\ Len(l \o r) = Len(list) - 1
      /\ \A i \in 1 .. Len(list) - 1 : (l \o r)[i] = IF i < k THEN list[i] ELSE list[i + 1]
  <2>1. /\ l \o r \in Seq(Timers) /\ Len(l \o r) = Len(l) + Len(r)
        /\ \A i \in 1 .. Len(l) + Len(r) : (l \o r)[i] = IF i <= Len(l) THEN l[i] ELSE r[i - Len(l)]
    BY <1>2, <1>3, ConcatProperties
  <2>2. Len(l) + Len(r) = Len(list) - 1
    BY <1>1, <1>2, <1>3
  <2>3. ASSUME NEW i \in 1 .. Len(list) - 1
        PROVE  (l \o r)[i] = IF i < k THEN list[i] ELSE list[i + 1]
    <3>1. CASE i < k
      BY <1>1, <1>2, <2>1, <2>2, <3>1
    <3>2. CASE ~(i < k)
      <4>1. ~(i <= Len(l)) /\ i - Len(l) \in 1 .. Len(list) - k /\ k + (i - Len(l)) = i + 1
        BY <1>1, <1>2, <3>2
      <4> QED
        BY <1>3, <2>1, <2>2, <3>2, <4>1
    <3> QED
      BY <3>1, <3>2
  <2> QED
    BY <2>1, <2>2, <2>3
<1> DEFINE u == l \o r
<1>5. unlink_timer(list, t) = u
  BY DEF unlink_timer, RemoveAt, k, l, r
<1> HIDE DEF u
<1>6. DOMAIN u = 1 .. Len(list) - 1 /\ u \in Seq(Timers)
      /\ \A i \in 1 .. Len(list) - 1 : u[i] = IF i < k THEN list[i] ELSE list[i + 1]
  BY <1>4 DEF u
<1>7. IsInjective(u)
  <2> SUFFICES ASSUME NEW i \in 1 .. Len(list) - 1, NEW j \in 1 .. Len(list) - 1, u[i] = u[j]
               PROVE  i = j
    BY <1>6 DEF IsInjective
  <2> DEFINE up(n) == IF n < k THEN n ELSE n + 1
  <2>1. up(i) \in DOMAIN list /\ up(j) \in DOMAIN list /\ list[up(i)] = list[up(j)]
    BY <1>1, <1>6
  <2>2. up(i) = up(j)
    BY <2>1 DEF IsInjective
  <2> QED
    BY <1>1, <2>2
<1>8. Range(u) = Range(list) \ {t}
  <2>1. ASSUME NEW x \in Range(u)
        PROVE  x \in Range(list) \ {t}
    <3>1. PICK i \in 1 .. Len(list) - 1 : u[i] = x
      BY <1>6 DEF Range
    <3>2. \E j \in DOMAIN list : j # k /\ list[j] = x
      BY <1>1, <1>6, <3>1
    <3> QED
      BY <1>1, <3>2 DEF Range, IsInjective
  <2>2. ASSUME NEW x \in Range(list), x # t
        PROVE  x \in Range(u)
    <3>1. PICK i \in DOMAIN list : list[i] = x
      BY DEF Range
    <3>2. i # k
      BY <1>1, <2>2, <3>1
    <3>3. \E j \in 1 .. Len(list) - 1 : u[j] = x
      <4>1. CASE i < k
        BY <1>1, <1>6, <3>1, <4>1
      <4>2. CASE i > k
        <5>1. i - 1 \in 1 .. Len(list) - 1 /\ ~(i - 1 < k) /\ (i - 1) + 1 = i
          BY <1>1, <4>2
        <5> QED
          BY <1>6, <3>1, <5>1
      <4> QED
        BY <1>1, <3>2, <4>1, <4>2
    <3> QED
      BY <1>6, <3>3 DEF Range
  <2> QED
    BY <2>1, <2>2
<1> QED
  BY <1>5, <1>6, <1>7, <1>8

LEMMA Inserted ==
  ASSUME NEW list \in Seq(Timers), IsInjective(list), NEW t \in Timers, t \notin Range(list)
  PROVE  /\ <<t>> \o list \in Seq(Timers) /\ IsInjective(<<t>> \o list)
         /\ Range(<<t>> \o list) = Range(list) \union {t}
<1> DEFINE u == <<t>> \o list
<1>1. /\ u \in Seq(Timers) /\ Len(u) = Len(list) + 1 /\ u[1] = t
      /\ \A i \in 2 .. Len(list) + 1 : u[i] = list[i - 1]
  OBVIOUS
<1>2. DOMAIN list = 1 .. Len(list) /\ DOMAIN u = 1 .. Len(list) + 1 /\ Len(list) \in Nat
  BY <1>1
<1> HIDE DEF u
<1>3. \A i \in 2 .. Len(list) + 1 : u[i] \in Range(list) /\ i - 1 \in DOMAIN list
  BY <1>1, <1>2 DEF Range
<1>4. IsInjective(u)
  <2> SUFFICES ASSUME NEW i \in DOMAIN u, NEW j \in DOMAIN u, u[i] = u[j]
               PROVE  i = j
    BY DEF IsInjective
  <2>1. CASE i = 1 \/ j = 1
    BY <1>1, <1>2, <1>3, <2>1
  <2>2. CASE i # 1 /\ j # 1
    <3>1. i - 1 \in DOMAIN list /\ j - 1 \in DOMAIN list /\ list[i - 1] = list[j - 1]
      BY <1>1, <1>2, <2>2
    <3> QED
      BY <1>2, <3>1 DEF IsInjective
  <2> QED
    BY <2>1, <2>2
<1>5. Range(u) = Range(list) \union {t}
  <2>1. \A x \in Range(u) : x \in Range(list) \union {t}
    BY <1>1, <1>2, <1>3 DEF Range
  <2>2. t \in Range(u)
    BY <1>1, <1>2 DEF Range
  <2>3. ASSUME NEW x \in Range(list)
        PROVE  x \in Range(u)
    <3>1. PICK i \in DOMAIN list : list[i] = x
      BY DEF Range
    <3>2. i + 1 \in DOMAIN u /\ u[i + 1] = x
      BY <1>1, <1>2, <3>1
    <3> QED
      BY <3>2 DEF Range
  <2> QED
    BY <2>1, <2>2, <2>3
<1> QED
  BY <1>1, <1>4, <1>5 DEF u

LEMMA Fronted ==
  ASSUME NEW list \in Seq(Timers), IsInjective(list), list # <<>>
  PROVE  /\ Front(list) \in Seq(Timers) /\ IsInjective(Front(list))
         /\ Last(list) \in Range(list) /\ Last(list) \in Timers
         /\ Range(Front(list)) = Range(list) \ {Last(list)}
<1> DEFINE n == Len(list)
           f == Front(list)
<1>1. n \in Nat \ {0} /\ DOMAIN list = 1 .. n /\ Last(list) = list[n] /\ list[n] \in Timers
  BY DEF Last
<1>2. f \in Seq(Timers) /\ Len(f) = n - 1 /\ \A i \in 1 .. n - 1 : f[i] = list[i]
  BY <1>1 DEF Front
<1>3. DOMAIN f = 1 .. n - 1
  BY <1>1, <1>2
<1> HIDE DEF f, n
<1>4. IsInjective(f)
  BY <1>1, <1>2, <1>3 DEF IsInjective
<1>5. Range(f) = Range(list) \ {list[n]}
  <2>1. \A i \in 1 .. n - 1 : list[i] # list[n]
    BY <1>1 DEF IsInjective
  <2> QED
    BY <1>1, <1>2, <1>3, <2>1 DEF Range
<1>6. Last(list) \in Range(list)
  BY <1>1 DEF Range
<1> QED
  BY <1>1, <1>2, <1>4, <1>5, <1>6 DEF f

\* A timeout in slices is its turns of the wheel and a rest below one turn.
LEMMA Arithmetic ==
  /\ WheelSpan \in Nat \ {0} /\ Slices = 0 .. NSlices - 1 /\ 0 \in Slices
  /\ \A t \in Nat : /\ t \div WheelSpan \in Nat /\ t \div SliceIntvl \in Nat
                    /\ (t % WheelSpan) \div SliceIntvl \in 0 .. NSlices - 1
BY WheelAssumption DEF WheelSpan, Slices

LEMMA Divided ==
  ASSUME NEW t \in Nat
  PROVE  /\ t \div WheelSpan \in Nat /\ t \div SliceIntvl \in Nat
         /\ (t % WheelSpan) \div SliceIntvl \in Nat
<1> DEFINE r == (t % WheelSpan) \div SliceIntvl
<1>1. r \in 0 .. NSlices - 1 /\ NSlices \in Nat
  BY Arithmetic, WheelAssumption
<1> HIDE DEF r
<1>2. r \in Nat
  BY <1>1
<1>3. t \div WheelSpan \in Nat /\ t \div SliceIntvl \in Nat
  BY Arithmetic
<1> QED
  BY <1>2, <1>3 DEF r

LEMMA TimeSplits ==
  ASSUME NEW t \in Nat
  PROVE  t \div SliceIntvl = (t \div WheelSpan) * NSlices + ((t % WheelSpan) \div SliceIntvl)
BY WheelAssumption DEF WheelSpan

LEMMA AskedTimeouts ==
  ASSUME NEW t \in Timeouts
  PROVE  t \in Nat /\ t \div SliceIntvl \in Nat /\ t \div SliceIntvl <= MaxAge /\ MaxAge \in Nat
<1>1. t \in Nat /\ t <= MaxTimeout /\ MaxTimeout \in Nat
  BY WheelAssumption
<1>2. t \div SliceIntvl \in Nat /\ MaxTimeout \div SliceIntvl \in Nat
  BY <1>1, Divided
<1>3. t \div SliceIntvl <= MaxTimeout \div SliceIntvl
  BY <1>1, WheelAssumption
<1> QED
  BY <1>1, <1>2, <1>3 DEF MaxAge

LEMMA OfTwo ==
  ASSUME NEW a \in Nat, NEW b \in Nat
  PROVE  /\ Max({a, b}) \in {a, b} /\ Max({a, b}) >= a /\ Max({a, b}) >= b
         /\ Min({a, b}) \in {a, b} /\ Min({a, b}) <= a /\ Min({a, b}) <= b
<1>1. \E x \in {a, b} : \A y \in {a, b} : x >= y
  OBVIOUS
<1>2. \E x \in {a, b} : \A y \in {a, b} : x <= y
  OBVIOUS
<1> QED
  BY <1>1, <1>2 DEF Max, Min

\* The slice next_slice_ picks is as many slices ahead as the timeout asks for,
\* or more; it is the current one only for an update that moves on into it.
LEMMA NextSlice ==
  ASSUME curr_slice \in Slices, NEW t \in Nat, NEW from \in Slices, NEW update \in BOOLEAN
  PROVE  LET s == next_slice(t, from, update) IN
         /\ s \in Slices
         /\ ~update \/ from = curr_slice => s # curr_slice
         /\ s # curr_slice => Ahead(s) >= (t % WheelSpan) \div SliceIntvl
<1> DEFINE r == (t % WheelSpan) \div SliceIntvl
           n == Max({1, r})
           s == (curr_slice + n) % NSlices
           next == (s + 1) % NSlices
<1>1. r \in 0 .. NSlices - 1 /\ NSlices \in Nat /\ NSlices > 1
  BY Arithmetic, WheelAssumption
<1>2. n \in 1 .. NSlices - 1 /\ n >= r
  <2>1. n \in {1, r} /\ n >= 1 /\ n >= r
    BY <1>1, OfTwo
  <2> QED
    BY <1>1, <2>1
<1>3. next_slice(t, from, update) = IF update /\ s = from THEN next ELSE s
  BY DEF next_slice
<1> HIDE DEF r, n
<1>4. curr_slice \in 0 .. NSlices - 1
  BY DEF Slices
<1>5. s = IF curr_slice + n < NSlices THEN curr_slice + n ELSE curr_slice + n - NSlices
  BY <1>1, <1>2, <1>4
<1>6. s \in 0 .. NSlices - 1
  BY <1>1, <1>2, <1>4, <1>5
<1> HIDE DEF s
<1>7. next = IF s + 1 < NSlices THEN s + 1 ELSE 0
  BY <1>1, <1>6
<1> HIDE DEF next
<1>8. s # curr_slice /\ Ahead(s) = n
  BY <1>1, <1>2, <1>4, <1>5 DEF Ahead
<1>9. next \in 0 .. NSlices - 1 /\ (next # curr_slice => Ahead(next) = n + 1)
  BY <1>1, <1>2, <1>4, <1>5, <1>7 DEF Ahead
<1>10. next_slice(t, from, update) \in Slices
  BY <1>3, <1>6, <1>9 DEF Slices
<1>11. s # curr_slice => s >= 0
  BY <1>6
<1> QED
  BY <1>1, <1>2, <1>3, <1>8, <1>9, <1>10 DEF r

\* An entry that is armed now has all of its time to go.
LEMMA Armed ==
  ASSUME curr_slice \in Slices, NEW t \in Nat, NEW later \in Nat, later >= t,
         later \div WheelSpan = t \div WheelSpan, NEW from \in Slices, NEW update \in BOOLEAN,
         next_slice(later, from, update) # curr_slice, NEW periodic \in BOOLEAN, NEW seen
  PROVE  ToGo(init_twentry(t, periodic, next_slice(later, from, update), TRUE), seen)
           >= t \div SliceIntvl
<1> DEFINE s == next_slice(later, from, update)
<1>1. s \in Slices /\ s # curr_slice /\ Ahead(s) >= (later % WheelSpan) \div SliceIntvl
  BY NextSlice
<1> HIDE DEF s
<1>2. ToGo(init_twentry(t, periodic, s, TRUE), seen) = (t \div WheelSpan) * NSlices + Ahead(s)
  BY <1>1 DEF ToGo, init_twentry
<1>3. Ahead(s) \in Nat
  BY <1>1, WheelAssumption DEF Ahead, Slices
<1>4. later \div SliceIntvl >= t \div SliceIntvl
  BY WheelAssumption
<1> DEFINE q == t \div WheelSpan
<1>5. /\ q \in Nat /\ q * NSlices \in Nat /\ (later % WheelSpan) \div SliceIntvl \in Nat
      /\ t \div SliceIntvl \in Nat
  <2>1. q \in Nat /\ (later % WheelSpan) \div SliceIntvl \in Nat /\ t \div SliceIntvl \in Nat
    BY Divided
  <2> HIDE DEF q
  <2>2. q * NSlices \in Nat
    BY <2>1, WheelAssumption
  <2> QED
    BY <2>1, <2>2
<1>6. later \div SliceIntvl = q * NSlices + ((later % WheelSpan) \div SliceIntvl)
  BY TimeSplits
<1> HIDE DEF q
<1>7. q * NSlices + Ahead(s) >= t \div SliceIntvl
  BY <1>1, <1>3, <1>4, <1>5, <1>6
<1> QED
  BY <1>2, <1>7 DEF s, q

LEMMA InitTwentryType ==
  ASSUME NEW t \in Nat, NEW periodic \in BOOLEAN, NEW s \in Slices, NEW valid \in BOOLEAN
  PROVE  /\ init_twentry(t, periodic, s, valid) \in TakenEntries
         /\ init_twentry(t, periodic, s, valid).valid = valid
         /\ init_twentry(t, periodic, s, valid).timeout = t
         /\ init_twentry(t, periodic, s, valid).slice = s
BY Arithmetic DEF init_twentry, TakenEntries

\* An entry leaves its list, to be held or free.
LEMMA Unlisted ==
  ASSUME wheel \in [Slices -> Seq(Timers)], twentry \in [Timers -> Entries], WheelLists,
         NEW t \in Timers, twentry[t].home = "list",
         wheel' = [wheel EXCEPT ![twentry[t].slice] = unlink_timer(@, t)],
         \A x \in Timers \ {t} : twentry'[x] = twentry[x],
         twentry'[t].home # "list"
  PROVE  /\ wheel' \in [Slices -> Seq(Timers)]
         /\ \A s \in Slices : Range(wheel'[s]) = Range(wheel[s]) \ {t}
         /\ WheelLists'
<1> DEFINE s == twentry[t].slice
<1>1. /\ s \in Slices /\ wheel[s] \in Seq(Timers) /\ IsInjective(wheel[s]) /\ t \in Range(wheel[s])
      /\ \A x \in Slices \ {s} : t \notin Range(wheel[x])
  BY DEF WheelLists, Entries
<1>2. wheel' = [wheel EXCEPT ![s] = unlink_timer(wheel[s], t)]
  OBVIOUS
<1>3. /\ unlink_timer(wheel[s], t) \in Seq(Timers) /\ IsInjective(unlink_timer(wheel[s], t))
      /\ Range(unlink_timer(wheel[s], t)) = Range(wheel[s]) \ {t}
  BY <1>1, Unlinked
<1>4. /\ wheel' \in [Slices -> Seq(Timers)]
      /\ \A x \in Slices : Range(wheel'[x]) = Range(wheel[x]) \ {t}
  BY <1>1, <1>2, <1>3
<1>5. \A x \in Slices : IsInjective(wheel'[x])
  BY <1>1, <1>2, <1>3 DEF WheelLists
<1> HIDE DEF s
<1>6. \A y \in Slices, x \in Timers :
        x \in Range(wheel'[y]) <=> twentry'[x].home = "list" /\ twentry'[x].slice = y
  <2>1. ASSUME NEW y \in Slices, NEW x \in Timers \ {t}
        PROVE  /\ x \in Range(wheel'[y]) <=> x \in Range(wheel[y])
               /\ twentry'[x] = twentry[x]
    BY <1>4
  <2>2. \A y \in Slices : t \notin Range(wheel'[y]) /\ twentry'[t].home # "list"
    BY <1>4
  <2> QED
    BY <2>1, <2>2 DEF WheelLists
<1> QED
  BY <1>4, <1>5, <1>6 DEF WheelLists

LEMMA Removed ==
  ASSUME wheel \in [Slices -> Seq(Timers)], twentry \in [Timers -> Entries], WheelLists,
         NEW t \in Timers, twentry[t].home = "list", remove_timer(t)
  PROVE  /\ wheel' \in [Slices -> Seq(Timers)] /\ twentry' \in [Timers -> Entries]
         /\ \A s \in Slices : Range(wheel'[s]) = Range(wheel[s]) \ {t}
         /\ \A x \in Timers \ {t} : twentry'[x] = twentry[x]
         /\ twentry'[t].home = "held" /\ twentry'[t].valid = FALSE
         /\ WheelLists'
<1>1. /\ twentry' \in [Timers -> Entries]
      /\ \A x \in Timers \ {t} : twentry'[x] = twentry[x]
      /\ twentry'[t].home = "held" /\ twentry'[t].valid = FALSE
  BY DEF remove_timer, Entries
<1>2. wheel' = [wheel EXCEPT ![twentry[t].slice] = unlink_timer(@, t)]
  BY DEF remove_timer
<1> QED
  BY <1>1, <1>2, Unlisted

LEMMA PutBack ==
  ASSUME wheel \in [Slices -> Seq(Timers)], twentry \in [Timers -> Entries], WheelLists,
         NEW t \in Timers, twentry[t].home # "list", NEW e \in TakenEntries, insert_timer(t, e)
  PROVE  /\ wheel' \in [Slices -> Seq(Timers)] /\ twentry' \in [Timers -> Entries]
         /\ wheel'[e.slice] = <<t>> \o wheel[e.slice]
         /\ \A s \in Slices \ {e.slice} : wheel'[s] = wheel[s]
         /\ Range(wheel'[e.slice]) = Range(wheel[e.slice]) \union {t}
         /\ \A x \in Timers \ {t} : twentry'[x] = twentry[x]
         /\ twentry'[t] = e /\ twentry'[t].home = "list"
         /\ WheelLists'
<1> DEFINE s == e.slice
<1>1. /\ s \in Slices /\ wheel[s] \in Seq(Timers) /\ IsInjective(wheel[s])
      /\ e \in Entries /\ e.home = "list"
      /\ \A x \in Slices : t \notin Range(wheel[x])
  BY DEF WheelLists, Entries, TakenEntries
<1>2. wheel' = [wheel EXCEPT ![s] = <<t>> \o wheel[s]]
  BY DEF insert_timer
<1>3. /\ <<t>> \o wheel[s] \in Seq(Timers) /\ IsInjective(<<t>> \o wheel[s])
      /\ Range(<<t>> \o wheel[s]) = Range(wheel[s]) \union {t}
  BY <1>1, Inserted
<1>4. /\ wheel' \in [Slices -> Seq(Timers)] /\ wheel'[s] = <<t>> \o wheel[s]
      /\ \A x \in Slices \ {s} : wheel'[x] = wheel[x]
  BY <1>1, <1>2, <1>3
<1>5. \A x \in Slices : IsInjective(wheel'[x])
  BY <1>1, <1>2, <1>3 DEF WheelLists
<1>6. /\ twentry' \in [Timers -> Entries] /\ twentry'[t] = e
      /\ \A x \in Timers \ {t} : twentry'[x] = twentry[x]
  BY <1>1 DEF insert_timer
<1>7. \A y \in Slices, x \in Timers :
        x \in Range(wheel'[y]) <=> twentry'[x].home = "list" /\ twentry'[x].slice = y
  <2> HIDE DEF s
  <2>1. ASSUME NEW y \in Slices, NEW x \in Timers \ {t}
        PROVE  x \in Range(wheel'[y]) <=> x \in Range(wheel[y])
    BY <1>3, <1>4, <2>1
  <2>2. \A y \in Slices : t \in Range(wheel'[y]) <=> y = s
    BY <1>1, <1>3, <1>4
  <2> QED
    BY <1>1, <1>6, <2>1, <2>2 DEF WheelLists, s
<1>8. WheelLists'
  BY <1>5, <1>7 DEF WheelLists
<1> QED
  BY <1>1, <1>3, <1>4, <1>6, <1>8

LEMMA ToGoType ==
  ASSUME curr_slice \in Slices, NEW e \in TakenEntries \union Entries
  PROVE  /\ \A seen : ToGo(e, seen) \in Nat
         /\ ToGo(e, TRUE) >= ToGo(e, FALSE)
         /\ \A seen : seen \in BOOLEAN => ToGo(e, seen) >= ToGo(e, FALSE)
<1>1. e.nspins \in Nat /\ e.slice \in Slices
  BY DEF TakenEntries, Entries
<1>2. e.nspins * NSlices \in Nat
  BY <1>1, WheelAssumption
<1>3. Ahead(e.slice) \in 0 .. NSlices - 1 /\ NSlices \in Nat
  BY <1>1, WheelAssumption DEF Ahead, Slices
<1> QED
  BY <1>2, <1>3 DEF ToGo

\* What a caller and the ticker have in hand.
LEMMA CallFacts ==
  ASSUME WheelTyped, NEW u \in WheelUsers
  PROVE  /\ user[u] # NoCall <=> user[u].op \in {"add", "del", "upd"}
         /\ user[u] # NoCall => user[u].t \in Timers /\ user[u].entry \in TakenEntries
         /\ user[u].op = "upd" => user[u].from \in Slices
BY DEF WheelTyped, WheelCalls, NoCall

LEMMA TickerFacts ==
  ASSUME WheelTyped
  PROVE  /\ ticker.phase \in {"new", "idle", "off", "walk", "move"}
         /\ Walking => ticker.left \in Seq(Timers)
         /\ ticker.phase = "walk" =>
              ticker = [phase |-> "walk", left |-> ticker.left]
         /\ ticker.phase = "move" => ticker.t \in Timers /\ ticker.entry \in TakenEntries
BY DEF WheelTyped, Walking

\* A thread takes an entry that is in nobody's hands.
LEMMA TakeInHand ==
  ASSUME WheelTyped, WheelHands, NEW u \in WheelUsers, user[u] = NoCall, NEW t \in Timers,
         twentry[t].home # "held", twentry'[t].home = "held", twentry'[t].valid = FALSE,
         \A x \in Timers \ {t} : twentry'[x] = twentry[x],
         NEW mine \in WheelCalls, mine.t = t, user' = [user EXCEPT ![u] = mine], UNCHANGED ticker
  PROVE  WheelHands'
<1>1. mine # NoCall
  BY DEF WheelCalls, NoCall
<1>2. user'[u] = mine /\ \A v \in WheelUsers \ {u} : user'[v] = user[v]
  BY DEF WheelTyped
<1>3. /\ \A x \in Timers, v \in WheelUsers \ {u} : HeldBy(x, v)' <=> HeldBy(x, v)
      /\ \A x \in Timers : HeldBy(x, u)' <=> x = t
      /\ \A x \in Timers : Moved(x)' <=> Moved(x)
  BY <1>1, <1>2 DEF HeldBy, Moved
<1>4. /\ ~Moved(t) /\ \A v \in WheelUsers : ~HeldBy(t, v)
      /\ \A x \in Timers : ~HeldBy(x, u)
  BY DEF WheelHands, HeldBy
<1>5. \A x \in Timers :
        twentry'[x].home = "held" <=> Moved(x)' \/ \E v \in WheelUsers : HeldBy(x, v)'
  <2>1. ASSUME NEW x \in Timers \ {t}
        PROVE  twentry'[x].home = "held" <=> Moved(x)' \/ \E v \in WheelUsers : HeldBy(x, v)'
    <3>1. (\E v \in WheelUsers : HeldBy(x, v)') <=> \E v \in WheelUsers : HeldBy(x, v)
      BY <1>3, <1>4, <2>1
    <3> QED
      BY <1>3, <3>1 DEF WheelHands
  <2> QED
    BY <1>3, <2>1
<1>6. \A x \in Timers, v, w \in WheelUsers : HeldBy(x, v)' /\ HeldBy(x, w)' => v = w
  BY <1>3, <1>4 DEF WheelHands
<1>7. \A x \in Timers, v \in WheelUsers : ~(HeldBy(x, v)' /\ Moved(x)')
  BY <1>3, <1>4 DEF WheelHands
<1>8. \A x \in Timers : twentry'[x].home # "list" => ~twentry'[x].valid
  BY DEF WheelHands
<1> QED
  BY <1>5, <1>6, <1>7, <1>8 DEF WheelHands

\* ... and puts it back.
LEMMA PutFromHand ==
  ASSUME WheelTyped, WheelHands, NEW u \in WheelUsers, user[u] # NoCall,
         twentry'[user[u].t].home = "list",
         \A x \in Timers \ {user[u].t} : twentry'[x] = twentry[x],
         user' = [user EXCEPT ![u] = NoCall], UNCHANGED ticker
  PROVE  WheelHands'
<1> DEFINE t == user[u].t
<1>1. t \in Timers /\ HeldBy(t, u)
  BY CallFacts DEF HeldBy
<1>2. user'[u] = NoCall /\ \A v \in WheelUsers \ {u} : user'[v] = user[v]
  BY DEF WheelTyped
<1>3. /\ \A x \in Timers, v \in WheelUsers : HeldBy(x, v)' <=> (HeldBy(x, v) /\ v # u)
      /\ \A x \in Timers : Moved(x)' <=> Moved(x)
  BY <1>2 DEF HeldBy, Moved
<1>4. \A x \in Timers \ {t} : ~HeldBy(x, u)
  BY DEF HeldBy
<1>5. /\ ~Moved(t) /\ \A v \in WheelUsers : HeldBy(t, v) => v = u
  BY <1>1 DEF WheelHands
<1> HIDE DEF t
<1>6. twentry'[t].home = "list" /\ \A x \in Timers \ {t} : twentry'[x] = twentry[x]
  BY DEF t
<1> QED
  BY <1>1, <1>3, <1>4, <1>5, <1>6 DEF WheelHands

\* A thread's step does not move the wheel on.
LEMMA TimesKept ==
  ASSUME WheelTimes, UNCHANGED <<curr_slice, ticker>>, NEW u \in WheelUsers, NEW t \in Timers,
         \A x \in Timers \ {t} : age'[x] = age[x] /\ (x \in skips' <=> x \in skips),
         \A x \in Timers \ {t} : twentry'[x] = twentry[x],
         \A v \in WheelUsers \ {u} : user'[v] = user[v] /\ ~HeldBy(t, v),
         WheelTyped, ~Moved(t),
         InTime(t, twentry[t])',
         NEW e, user'[u] # NoCall => user'[u].t = t /\ user'[u].entry = e /\ InTime(t, e)'
  PROVE  WheelTimes'
<1>1. \A x \in Timers \ {t} : \A y : InTime(x, y)' <=> InTime(x, y)
  BY DEF InTime, ToGo, Ahead, Seen, Walking
<1>2. \A x \in Timers : InTime(x, twentry[x])'
  BY <1>1 DEF WheelTimes
<1>3. ASSUME NEW v \in WheelUsers, user'[v] # NoCall
      PROVE  InTime(user[v].t, user[v].entry)'
  <2>1. CASE v = u
    BY <1>3, <2>1 DEF InTime, ToGo, Ahead, Seen, Walking
  <2>2. CASE v # u
    <3>1. user'[v] = user[v] /\ user[v].t \in Timers \ {t}
      BY <1>3, <2>2, CallFacts DEF HeldBy
    <3>2. InTime(user[v].t, user[v].entry)
      BY <1>3, <3>1 DEF WheelTimes
    <3> QED
      BY <1>1, <3>1, <3>2
  <2> QED
    BY <2>1, <2>2
<1>4. ASSUME ticker'.phase = "move"
      PROVE  InTime(ticker.t, ticker.entry)'
  <2>1. ticker.t \in Timers \ {t} /\ InTime(ticker.t, ticker.entry) /\ ticker' = ticker
    BY <1>4, TickerFacts DEF WheelTimes, Moved
  <2> QED
    BY <1>1, <2>1
<1> QED
  BY <1>2, <1>3, <1>4 DEF WheelTimes

\* What a thread takes out is not in the slice being walked.
LEMMA LeftAlone ==
  ASSUME WheelTyped, WheelLocks, WheelWalk, WheelLists, NEW t \in Timers, twentry[t].home = "list",
         slock[twentry[t].slice] = NoLock,
         \A x \in Slices : Range(wheel'[x]) = Range(wheel[x]) \ {t},
         UNCHANGED <<curr_slice, ticker>>
  PROVE  WheelWalk'
<1> SUFFICES ASSUME Walking'
             PROVE  /\ IsInjective(ticker.left)
                    /\ Range(ticker.left) \subseteq Range(wheel'[curr_slice])
  BY DEF WheelWalk
<1>1. Walking /\ IsInjective(ticker.left) /\ Range(ticker.left) \subseteq Range(wheel[curr_slice])
  BY DEF WheelWalk, Walking
<1>2. slock[curr_slice] = Ticker /\ curr_slice \in Slices
  BY <1>1 DEF WheelLocks, WheelTyped
<1>3. t \notin Range(wheel[curr_slice])
  BY <1>2 DEF WheelLists, NoLock, Ticker
<1> QED
  BY <1>1, <1>2, <1>3

\* Each step of a thread keeps the invariant.
LEMMA AddTimerStep ==
  ASSUME WheelInv, NEW u \in WheelUsers, NEW t \in Timers, NEW timeout \in Timeouts,
         NEW delay \in {0, SliceIntvl}, NEW periodic \in BOOLEAN,
         AddTimer(u, t, timeout, delay, periodic)
  PROVE  WheelInv'
<1> DEFINE s == next_slice(delay + timeout, 0, FALSE)
<1>0. PICK e : e = init_twentry(timeout, periodic, s, TRUE)
  OBVIOUS
<1> DEFINE mine == [op |-> "add", t |-> t, entry |-> e]
<1>1. /\ WheelTyped /\ WheelLocks /\ WheelWalk /\ WheelLists /\ WheelHands /\ WheelTimes
      /\ curr_slice \in Slices /\ timeout \in Nat /\ timeout \in 0 .. MaxTimeout /\ delay + timeout \in Nat
  BY WheelAssumption DEF WheelInv, WheelTyped
<1>2. s \in Slices /\ s # curr_slice
  BY <1>1, NextSlice, Arithmetic
<1>3. e \in TakenEntries /\ e.valid = TRUE /\ e.timeout = timeout /\ e.slice = s
  BY <1>0, <1>1, <1>2, InitTwentryType
<1>4. (delay + timeout) \div WheelSpan = timeout \div WheelSpan =>
        \A seen : ToGo(e, seen) >= timeout \div SliceIntvl
  <2> SUFFICES ASSUME (delay + timeout) \div WheelSpan = timeout \div WheelSpan, NEW seen
               PROVE  ToGo(e, seen) >= timeout \div SliceIntvl
    OBVIOUS
  <2>1. delay + timeout >= timeout /\ 0 \in Slices
    BY <1>1, Arithmetic, WheelAssumption
  <2> QED
    BY <1>0, <1>1, <1>2, <2>1, Armed
<1>5. /\ user[u] = NoCall /\ twentry[t].home = "slab" /\ user' = [user EXCEPT ![u] = mine]
      /\ twentry' = [twentry EXCEPT ![t].home = "held"] /\ age' = [age EXCEPT ![t] = 0]
      /\ skips' = IF (delay + timeout) \div WheelSpan = timeout \div WheelSpan
                  THEN skips \ {t} ELSE skips \union {t}
      /\ UNCHANGED <<curr_slice, wheel, slock, ticker, missed, is_running>>
  BY <1>0 DEF AddTimer
<1> HIDE DEF s
<1>6. mine \in WheelCalls /\ mine.t = t /\ mine.entry = e /\ mine.op = "add"
  BY <1>3 DEF WheelCalls
<1> HIDE DEF mine
<1>7. /\ \A x \in Timers \ {t} : twentry'[x] = twentry[x] /\ age'[x] = age[x]
      /\ twentry'[t].home = "held" /\ twentry'[t].valid = FALSE /\ age'[t] = 0
      /\ twentry' \in [Timers -> Entries]
  BY <1>1, <1>5 DEF WheelTyped, Entries, WheelHands
<1>8. /\ user'[u] = mine /\ \A v \in WheelUsers \ {u} : user'[v] = user[v]
      /\ user' \in [WheelUsers -> {NoCall} \union WheelCalls]
  BY <1>1, <1>5, <1>6 DEF WheelTyped
<1>9. 0 \in 0 .. MaxAge
  BY WheelAssumption DEF MaxAge
<1>10. WheelTyped'
  BY <1>1, <1>5, <1>7, <1>8, <1>9 DEF WheelTyped
<1>11. WheelLocks'
  BY <1>1, <1>5, <1>6, <1>8 DEF WheelLocks, Walking, NoCall
<1>12. WheelWalk'
  BY <1>1, <1>5 DEF WheelWalk, Walking
<1>13. WheelLists'
  BY <1>1, <1>5, <1>7 DEF WheelLists
<1>14. WheelHands'
  BY <1>1, <1>5, <1>6, <1>7, TakeInHand
<1>15. InTime(t, twentry[t])'
  BY <1>7 DEF InTime
<1>16. InTime(t, e)'
  <2>2. t \notin skips' => ToGo(e, Seen(t))' >= timeout \div SliceIntvl
    BY <1>4, <1>5 DEF ToGo, Ahead
  <2>3. \A seen : ToGo(e, seen) \in Nat
    BY <1>1, <1>3, ToGoType
  <2>4. ToGo(e, Seen(t))' \in Nat
    BY <1>5, <2>3 DEF ToGo, Ahead
  <2> QED
    BY <1>1, <1>3, <1>7, <2>2, <2>4 DEF InTime
<1>17. WheelTimes'
  <2>1. ~Moved(t) /\ \A v \in WheelUsers : ~HeldBy(t, v)
    BY <1>1, <1>5 DEF WheelHands
  <2>2. \A x \in Timers \ {t} : x \in skips' <=> x \in skips
    BY <1>5
  <2> QED
    BY <1>1, <1>5, <1>6, <1>7, <1>8, <1>15, <1>16, <2>1, <2>2, TimesKept
<1> QED
  BY <1>10, <1>11, <1>12, <1>13, <1>14, <1>17 DEF WheelInv

LEMMA DelTimerStep ==
  ASSUME WheelInv, NEW u \in WheelUsers, NEW t \in Timers, DelTimer(u, t)
  PROVE  WheelInv'
<1> DEFINE s == next_slice(DelayDelete, twentry[t].slice, TRUE)
<1>0. PICK e : e = init_twentry(DelayDelete, FALSE, s, FALSE)
  OBVIOUS
<1> DEFINE mine == [op |-> "del", t |-> t, entry |-> e]
<1>1. /\ WheelTyped /\ WheelLocks /\ WheelWalk /\ WheelLists /\ WheelHands /\ WheelTimes
      /\ curr_slice \in Slices /\ DelayDelete \in Nat /\ twentry[t].slice \in Slices
  BY WheelAssumption DEF WheelInv, WheelTyped, Entries
<1>2. s \in Slices
  BY <1>1, NextSlice
<1>3. e \in TakenEntries /\ e.valid = FALSE
  BY <1>0, <1>1, <1>2, InitTwentryType
<1>4. /\ user[u] = NoCall /\ twentry[t].home = "list" /\ slock[twentry[t].slice] = NoLock
      /\ user' = [user EXCEPT ![u] = mine] /\ remove_timer(t)
      /\ UNCHANGED <<curr_slice, slock, ticker, age, skips, missed, is_running>>
  BY <1>0 DEF DelTimer
<1> HIDE DEF s
<1>5. mine \in WheelCalls /\ mine.t = t /\ mine.entry = e /\ mine.op = "del"
  BY <1>3 DEF WheelCalls
<1> HIDE DEF mine
<1>6. /\ wheel' \in [Slices -> Seq(Timers)] /\ twentry' \in [Timers -> Entries]
      /\ \A x \in Slices : Range(wheel'[x]) = Range(wheel[x]) \ {t}
      /\ \A x \in Timers \ {t} : twentry'[x] = twentry[x]
      /\ twentry'[t].home = "held" /\ twentry'[t].valid = FALSE
      /\ WheelLists'
  BY <1>1, <1>4, Removed DEF WheelTyped
<1>7. /\ user'[u] = mine /\ \A v \in WheelUsers \ {u} : user'[v] = user[v]
      /\ user' \in [WheelUsers -> {NoCall} \union WheelCalls]
  BY <1>1, <1>4, <1>5 DEF WheelTyped
<1>8. WheelTyped'
  BY <1>1, <1>4, <1>6, <1>7 DEF WheelTyped
<1>9. WheelLocks'
  BY <1>1, <1>4, <1>5, <1>7 DEF WheelLocks, Walking, NoCall
<1>10. WheelWalk'
  BY <1>1, <1>4, <1>6, LeftAlone
<1>11. WheelHands'
  BY <1>1, <1>4, <1>5, <1>6, TakeInHand
<1>12. WheelTimes'
  <2>1. ~Moved(t) /\ \A v \in WheelUsers : ~HeldBy(t, v)
    BY <1>1, <1>4 DEF WheelHands
  <2>2. InTime(t, twentry[t])' /\ InTime(t, e)'
    BY <1>3, <1>6 DEF InTime
  <2> QED
    BY <1>1, <1>4, <1>5, <1>6, <1>7, <2>1, <2>2, TimesKept
<1> QED
  BY <1>6, <1>8, <1>9, <1>10, <1>11, <1>12 DEF WheelInv

LEMMA UpdTimerStep ==
  ASSUME WheelInv, NEW u \in WheelUsers, NEW t \in Timers, NEW timeout \in Timeouts,
         NEW periodic \in BOOLEAN, UpdTimer(u, t, timeout, periodic)
  PROVE  WheelInv'
<1> DEFINE from == twentry[t].slice
           s == next_slice(timeout, from, TRUE)
<1>0. PICK e : e = init_twentry(timeout, periodic, s, TRUE)
  OBVIOUS
<1>01. PICK mine : mine = [op |-> "upd", t |-> t, from |-> from, entry |-> e]
  OBVIOUS
<1>1. /\ WheelTyped /\ WheelLocks /\ WheelWalk /\ WheelLists /\ WheelHands /\ WheelTimes
      /\ curr_slice \in Slices /\ timeout \in Nat /\ timeout \in 0 .. MaxTimeout
      /\ from \in Slices
  BY WheelAssumption DEF WheelInv, WheelTyped, Entries
<1>2. s \in Slices
  BY <1>1, NextSlice
<1>3. e \in TakenEntries /\ e.valid = TRUE /\ e.timeout = timeout /\ e.slice = s
  BY <1>0, <1>1, <1>2, InitTwentryType
<1>4. s # curr_slice => \A seen : ToGo(e, seen) >= timeout \div SliceIntvl
  <2> SUFFICES ASSUME s # curr_slice, NEW seen
               PROVE  ToGo(e, seen) >= timeout \div SliceIntvl
    OBVIOUS
  <2>1. timeout >= timeout
    BY <1>1
  <2> QED
    BY <1>0, <1>1, <1>2, <2>1, Armed
<1>5. /\ user[u] = NoCall /\ twentry[t].home = "list" /\ slock[from] = NoLock
      /\ user' = [user EXCEPT ![u] = mine] /\ remove_timer(t)
      /\ slock' = [slock EXCEPT ![from] = u]
      /\ age' = [age EXCEPT ![t] = 0]
      /\ skips' = IF s = curr_slice THEN skips \union {t} ELSE skips \ {t}
      /\ UNCHANGED <<curr_slice, ticker, missed, is_running>>
  BY <1>0, <1>01 DEF UpdTimer
<1> HIDE DEF s
<1>6. mine \in WheelCalls /\ mine.t = t /\ mine.entry = e /\ mine.op = "upd" /\ mine.from = from
  BY <1>01, <1>1, <1>3 DEF WheelCalls
<1>7. /\ wheel' \in [Slices -> Seq(Timers)] /\ twentry' \in [Timers -> Entries]
      /\ \A x \in Slices : Range(wheel'[x]) = Range(wheel[x]) \ {t}
      /\ \A x \in Timers \ {t} : twentry'[x] = twentry[x]
      /\ twentry'[t].home = "held" /\ twentry'[t].valid = FALSE
      /\ WheelLists'
  BY <1>1, <1>5, Removed DEF WheelTyped
<1>8. /\ user'[u] = mine /\ \A v \in WheelUsers \ {u} : user'[v] = user[v]
      /\ user' \in [WheelUsers -> {NoCall} \union WheelCalls]
  BY <1>1, <1>5, <1>6 DEF WheelTyped
<1>9. /\ slock' \in [Slices -> {NoLock, Ticker} \union WheelUsers]
      /\ slock'[from] = u /\ \A x \in Slices \ {from} : slock'[x] = slock[x]
      /\ age' \in [Timers -> 0 .. MaxAge] /\ skips' \subseteq Timers
      /\ age'[t] = 0 /\ \A x \in Timers \ {t} : age'[x] = age[x]
  <2>1. 0 \in 0 .. MaxAge
    BY WheelAssumption DEF MaxAge
  <2> QED
    BY <1>1, <1>5, <2>1 DEF WheelTyped
<1>10. WheelTyped'
  BY <1>1, <1>5, <1>7, <1>8, <1>9 DEF WheelTyped
<1> HIDE DEF from
<1>11. WheelLocks'
  <2>1. u # NoLock /\ u # Ticker /\ NoLock # Ticker
    BY WheelAssumption DEF NoLock, Ticker
  <2>2. \A x \in Slices : slock'[x] = Ticker <=> Walking' /\ x = curr_slice'
    BY <1>1, <1>5, <1>9, <2>1 DEF WheelLocks, Walking
  <2>3. \A x \in Slices, v \in WheelUsers : slock'[x] = v <=> user'[v].op = "upd" /\ user'[v].from = x
    <3>1. \A x \in Slices : slock[x] # u
      BY <1>1, <1>5 DEF WheelLocks, NoCall
    <3>2. \A x \in Slices, v \in WheelUsers \ {u} :
            slock'[x] = v <=> user'[v].op = "upd" /\ user'[v].from = x
      BY <1>1, <1>5, <1>8, <1>9, <2>1, WheelAssumption DEF WheelLocks, NoLock
    <3>3. \A x \in Slices : slock'[x] = u <=> x = from
      BY <1>9, <3>1
    <3> QED
      BY <1>6, <1>8, <3>2, <3>3
  <2> QED
    BY <2>2, <2>3 DEF WheelLocks
<1>12. WheelWalk'
  BY <1>1, <1>5, <1>7, LeftAlone DEF from
<1>13. WheelHands'
  BY <1>1, <1>5, <1>6, <1>7, TakeInHand
<1>14. WheelTimes'
  <2>1. ~Moved(t) /\ \A v \in WheelUsers : ~HeldBy(t, v)
    BY <1>1, <1>5 DEF WheelHands
  <2>2. InTime(t, twentry[t])'
    BY <1>7 DEF InTime
  <2>3. InTime(t, e)'
    <3>1. t \notin skips' => ToGo(e, Seen(t))' >= timeout \div SliceIntvl
      BY <1>4, <1>5 DEF ToGo, Ahead
    <3>2. \A seen : ToGo(e, seen) \in Nat
      BY <1>1, <1>3, ToGoType
    <3>3. ToGo(e, Seen(t))' \in Nat
      BY <1>5, <3>2 DEF ToGo, Ahead
    <3> QED
      BY <1>1, <1>3, <1>9, <3>1, <3>3 DEF InTime
  <2>4. \A x \in Timers \ {t} : x \in skips' <=> x \in skips
    BY <1>5
  <2> QED
    BY <1>1, <1>5, <1>6, <1>7, <1>8, <1>9, <2>1, <2>2, <2>3, <2>4, TimesKept
<1> QED
  BY <1>7, <1>10, <1>11, <1>12, <1>13, <1>14 DEF WheelInv

\* AddInsert, DelInsert and UpdInsert put back what the caller has in hand.
LEMMA InsertStep ==
  ASSUME WheelInv, NEW u \in WheelUsers, AddInsert(u) \/ DelInsert(u) \/ UpdInsert(u)
  PROVE  WheelInv'
<1>0. PICK e, t : e = user[u].entry /\ t = user[u].t
  OBVIOUS
<1>1. /\ WheelTyped /\ WheelLocks /\ WheelWalk /\ WheelLists /\ WheelHands /\ WheelTimes
  BY DEF WheelInv
<1>2. /\ user[u] # NoCall /\ slock[e.slice] = NoLock /\ insert_timer(t, e)
      /\ user' = [user EXCEPT ![u] = NoCall]
      /\ UNCHANGED <<curr_slice, ticker, age, skips, missed, is_running>>
      /\ user[u].op = "upd" => slock' = [slock EXCEPT ![user[u].from] = NoLock]
      /\ user[u].op # "upd" => slock' = slock
  BY <1>0 DEF AddInsert, DelInsert, UpdInsert, NoCall
<1>3. /\ t \in Timers /\ e \in TakenEntries /\ HeldBy(t, u) /\ e.slice \in Slices
      /\ user[u].op = "upd" => user[u].from \in Slices
  BY <1>0, <1>1, <1>2, CallFacts DEF HeldBy, TakenEntries
<1>4. twentry[t].home = "held" /\ ~Moved(t) /\ \A v \in WheelUsers \ {u} : ~HeldBy(t, v)
  BY <1>1, <1>3 DEF WheelHands
<1>5. /\ wheel' \in [Slices -> Seq(Timers)] /\ twentry' \in [Timers -> Entries]
      /\ \A s \in Slices \ {e.slice} : wheel'[s] = wheel[s]
      /\ \A x \in Timers \ {t} : twentry'[x] = twentry[x]
      /\ twentry'[t] = e /\ twentry'[t].home = "list"
      /\ WheelLists'
  BY <1>1, <1>2, <1>3, <1>4, PutBack DEF WheelTyped
<1>6. /\ user'[u] = NoCall /\ \A v \in WheelUsers \ {u} : user'[v] = user[v]
      /\ user' \in [WheelUsers -> {NoCall} \union WheelCalls]
      /\ slock' \in [Slices -> {NoLock, Ticker} \union WheelUsers]
  BY <1>1, <1>2, <1>3 DEF WheelTyped
<1>7. WheelTyped'
  BY <1>1, <1>2, <1>5, <1>6 DEF WheelTyped
<1>8. WheelLocks'
  <2>1. u # NoLock /\ u # Ticker /\ NoLock # Ticker /\ \A v \in WheelUsers : v # NoLock /\ v # Ticker
    BY WheelAssumption DEF NoLock, Ticker
  <2>2. CASE user[u].op # "upd"
    BY <1>1, <1>2, <1>6, <2>2 DEF WheelLocks, Walking, NoCall
  <2>3. CASE user[u].op = "upd"
    <3>1. /\ slock[user[u].from] = u /\ slock'[user[u].from] = NoLock
          /\ \A s \in Slices \ {user[u].from} : slock'[s] = slock[s]
      BY <1>1, <1>2, <1>3, <2>3 DEF WheelLocks, WheelTyped
    <3>2. \A s \in Slices : slock'[s] = Ticker <=> slock[s] = Ticker
      BY <2>1, <3>1
    <3>3. \A s \in Slices : slock'[s] = Ticker <=> Walking' /\ s = curr_slice'
      BY <1>1, <1>2, <3>2 DEF WheelLocks, Walking
    <3>4. \A s \in Slices : slock'[s] # u
      BY <1>1, <2>1, <2>3, <3>1 DEF WheelLocks
    <3>5. \A s \in Slices, v \in WheelUsers \ {u} : slock'[s] = v <=> slock[s] = v
      BY <2>1, <3>1
    <3>6. \A s \in Slices, v \in WheelUsers : slock'[s] = v <=> user'[v].op = "upd" /\ user'[v].from = s
      BY <1>1, <1>6, <3>4, <3>5 DEF WheelLocks, NoCall
    <3> QED
      BY <3>3, <3>6 DEF WheelLocks
  <2> QED
    BY <2>2, <2>3
<1>9. WheelWalk'
  <2> SUFFICES ASSUME Walking'
               PROVE  /\ IsInjective(ticker.left)
                      /\ Range(ticker.left) \subseteq Range(wheel'[curr_slice])
    BY <1>2 DEF WheelWalk
  <2>1. Walking /\ IsInjective(ticker.left) /\ Range(ticker.left) \subseteq Range(wheel[curr_slice])
    BY <1>1, <1>2 DEF WheelWalk, Walking
  <2>2. slock[curr_slice] = Ticker /\ curr_slice \in Slices
    BY <1>1, <2>1 DEF WheelLocks, WheelTyped
  <2>3. wheel'[curr_slice] = wheel[curr_slice]
    BY <1>2, <1>5, <2>2 DEF NoLock, Ticker
  <2> QED
    BY <2>1, <2>3
<1>10. WheelHands'
  BY <1>0, <1>1, <1>2, <1>5, PutFromHand
<1>11. WheelTimes'
  <2>1. InTime(t, e)
    BY <1>0, <1>1, <1>2 DEF WheelTimes
  <2>2. InTime(t, twentry[t])'
    BY <1>2, <1>5, <2>1 DEF InTime, ToGo, Ahead, Seen, Walking
  <2> QED
    BY <1>1, <1>2, <1>3, <1>4, <1>5, <1>6, <2>2, TimesKept
<1> QED
  BY <1>5, <1>7, <1>8, <1>9, <1>10, <1>11 DEF WheelInv

\* And so does each step of the tick.
LEMMA TickSliceStep ==
  ASSUME WheelInv, TickSlice
  PROVE  WheelInv'
<1>1. /\ WheelTyped /\ WheelLocks /\ WheelWalk /\ WheelLists /\ WheelHands /\ WheelTimes
      /\ curr_slice \in Slices /\ wheel[curr_slice] \in Seq(Timers)
      /\ ticker.phase = "idle" /\ slock[curr_slice] = NoLock
      /\ slock' = [slock EXCEPT ![curr_slice] = Ticker]
      /\ ticker' = [phase |-> "walk", left |-> wheel[curr_slice]]
      /\ missed > 0 /\ missed' = missed - 1
      /\ UNCHANGED <<curr_slice, wheel, twentry, user, age, skips, is_running>>
  BY DEF WheelInv, WheelTyped, TickSlice
<1>2. /\ ticker'.phase = "walk" /\ ticker'.left = wheel[curr_slice]
      /\ ticker' \in [phase: {"walk"}, left: Seq(Timers)]
  BY <1>1
<1>3. /\ slock' \in [Slices -> {NoLock, Ticker} \union WheelUsers]
      /\ missed' \in 0 .. MaxMissed
  BY <1>1, WheelAssumption DEF WheelTyped
<1>4. WheelTyped'
  BY <1>1, <1>2, <1>3 DEF WheelTyped
<1>5. WheelLocks'
  <2>1. \A v \in WheelUsers : v # NoLock /\ v # Ticker
    BY WheelAssumption DEF NoLock, Ticker
  <2>2. /\ \A s \in Slices : slock'[s] = Ticker <=> s = curr_slice
        /\ \A s \in Slices, v \in WheelUsers : slock'[s] = v <=> slock[s] = v
    BY <1>1, <2>1 DEF WheelTyped, WheelLocks, Walking
  <2> QED
    BY <1>1, <1>2, <2>2 DEF WheelLocks, Walking
<1>6. WheelWalk'
  BY <1>1, <1>2 DEF WheelWalk, WheelLists
<1>7. WheelLists'
  BY <1>1 DEF WheelLists
<1>8. WheelHands'
  BY <1>1, <1>2 DEF WheelHands, HeldBy, Moved
<1>9. \A x \in Timers : ~Seen(x)
  BY <1>1 DEF Seen, Walking
<1>10. ASSUME NEW x \in Timers, NEW e \in TakenEntries \union Entries, InTime(x, e)
       PROVE  InTime(x, e)'
  <2>1. PICK seen \in BOOLEAN : seen = Seen(x)'
    BY DEF Seen, Walking
  <2>2. ToGo(e, seen) >= ToGo(e, FALSE) /\ ToGo(e, seen) \in Nat /\ ToGo(e, FALSE) \in Nat
    BY <1>1, ToGoType
  <2>3. ToGo(e, Seen(x)) = ToGo(e, FALSE) /\ ToGo(e, Seen(x))' = ToGo(e, seen)
    BY <1>1, <1>9, <2>1 DEF ToGo, Ahead
  <2>4. age[x] \in Nat /\ age'[x] = age[x]
    BY <1>1 DEF WheelTyped
  <2>5. e.timeout \in Timeouts => e.timeout \div SliceIntvl \in Nat
    BY AskedTimeouts
  <2>6. InTime(x, e)' <=> (e.valid => /\ e.timeout \in Timeouts
                                      /\ x \notin skips => age[x] + ToGo(e, seen) >= e.timeout \div SliceIntvl)
    BY <1>1, <2>3 DEF InTime
  <2>7. InTime(x, e) <=> (e.valid => /\ e.timeout \in Timeouts
                                     /\ x \notin skips => age[x] + ToGo(e, FALSE) >= e.timeout \div SliceIntvl)
    BY <2>3 DEF InTime
  <2>8. ASSUME e.valid, x \notin skips
        PROVE  age[x] + ToGo(e, seen) >= e.timeout \div SliceIntvl
    <3> DEFINE due == e.timeout \div SliceIntvl
               a == ToGo(e, FALSE)
               b == ToGo(e, seen)
    <3>1. due \in Nat /\ a \in Nat /\ b \in Nat /\ b >= a /\ age[x] \in Nat /\ age[x] + a >= due
      BY <1>10, <2>2, <2>4, <2>5, <2>7, <2>8
    <3> HIDE DEF due, a, b
    <3>2. age[x] + b >= due
      BY <3>1
    <3> QED
      BY <3>2 DEF due, b
  <2> QED
    BY <1>10, <2>6, <2>7, <2>8
<1>11. WheelTimes'
  <2>1. \A x \in Timers : InTime(x, twentry[x])'
    BY <1>1, <1>10 DEF WheelTimes, WheelTyped
  <2>2. ASSUME NEW u \in WheelUsers, user[u] # NoCall
        PROVE  InTime(user[u].t, user[u].entry)'
    BY <1>1, <1>10, <2>2, CallFacts DEF WheelTimes
  <2> QED
    BY <1>1, <1>2, <2>1, <2>2 DEF WheelTimes
<1> QED
  BY <1>4, <1>5, <1>6, <1>7, <1>8, <1>11 DEF WheelInv

\* What the walk visits next is in the slice it walks and in nobody's hands.
LEMMA Visited ==
  ASSUME WheelInv, ticker.phase = "walk", ticker.left # <<>>
  PROVE  LET t == Last(ticker.left) IN
         /\ t \in Timers /\ t \in Range(ticker.left)
         /\ twentry[t] \in Entries /\ twentry[t].home = "list" /\ twentry[t].slice = curr_slice
         /\ ~Moved(t) /\ \A u \in WheelUsers : ~HeldBy(t, u)
         /\ Front(ticker.left) \in Seq(Timers) /\ IsInjective(Front(ticker.left))
         /\ Range(Front(ticker.left)) = Range(ticker.left) \ {t}
<1> DEFINE t == Last(ticker.left)
<1>1. /\ WheelTyped /\ WheelLists /\ WheelHands /\ curr_slice \in Slices
      /\ ticker.left \in Seq(Timers) /\ IsInjective(ticker.left)
      /\ Range(ticker.left) \subseteq Range(wheel[curr_slice])
  BY TickerFacts DEF WheelInv, WheelTyped, WheelWalk, Walking
<1>2. /\ Front(ticker.left) \in Seq(Timers) /\ IsInjective(Front(ticker.left))
      /\ t \in Range(ticker.left) /\ t \in Timers
      /\ Range(Front(ticker.left)) = Range(ticker.left) \ {t}
  BY <1>1, Fronted
<1> HIDE DEF t
<1>3. twentry[t] \in Entries /\ twentry[t].home = "list" /\ twentry[t].slice = curr_slice
  BY <1>1, <1>2 DEF WheelLists, WheelTyped
<1>4. ~Moved(t) /\ \A u \in WheelUsers : ~HeldBy(t, u)
  BY <1>1, <1>2, <1>3 DEF WheelHands
<1> QED
  BY <1>2, <1>3, <1>4 DEF t

\* The visit of an entry leaves the time of the others alone.
LEMMA VisitTimes ==
  ASSUME WheelInv, ticker.phase = "walk", NEW t \in Timers, \A u \in WheelUsers : ~HeldBy(t, u),
         ticker'.phase \in {"walk", "move"},
         Range(ticker'.left) = Range(ticker.left) \ {t},
         UNCHANGED <<curr_slice, user>>,
         \A x \in Timers \ {t} : age'[x] = age[x] /\ (x \in skips' <=> x \in skips),
         \A x \in Timers \ {t} : twentry'[x] = twentry[x],
         InTime(t, twentry[t])',
         NEW e, ticker'.phase = "move" => ticker'.t = t /\ ticker'.entry = e /\ InTime(t, e)'
  PROVE  WheelTimes'
<1>1. WheelTyped /\ WheelTimes
  BY DEF WheelInv
<1>2. \A x \in Timers \ {t} : Seen(x)' <=> Seen(x)
  BY DEF Seen, Walking
<1>3. ASSUME NEW x \in Timers \ {t}, NEW y, InTime(x, y)
      PROVE  InTime(x, y)'
  <2>1. ToGo(y, Seen(x))' = ToGo(y, Seen(x))
    BY <1>2 DEF ToGo, Ahead
  <2>2. age'[x] = age[x] /\ (x \in skips' <=> x \in skips)
    OBVIOUS
  <2> QED
    BY <1>3, <2>1, <2>2 DEF InTime
<1>4. ASSUME NEW x \in Timers
      PROVE  InTime(x, twentry[x])'
  <2>1. CASE x = t
    BY <2>1
  <2>2. CASE x # t
    <3>1. PICK y : y = twentry[x]
      OBVIOUS
    <3>2. InTime(x, y)'
      BY <1>1, <1>3, <2>2, <3>1 DEF WheelTimes
    <3> QED
      BY <2>2, <3>1, <3>2
  <2> QED
    BY <2>1, <2>2
<1>5. ASSUME NEW u \in WheelUsers, user[u] # NoCall
      PROVE  InTime(user[u].t, user[u].entry)'
  <2>1. PICK x, y : x = user[u].t /\ y = user[u].entry
    OBVIOUS
  <2>2. x \in Timers \ {t} /\ InTime(x, y)
    BY <1>1, <1>5, <2>1, CallFacts DEF WheelTimes, HeldBy
  <2>3. InTime(x, y)'
    BY <1>3, <2>2
  <2> QED
    BY <2>1, <2>3
<1>6. ticker'.phase = "move" => InTime(ticker.t, ticker.entry)'
  OBVIOUS
<1> QED
  BY <1>4, <1>5, <1>6 DEF WheelTimes

LEMMA TickFreeStep ==
  ASSUME WheelInv, ticker.phase = "walk", ticker.left # <<>>, TickFree(Last(ticker.left)),
         UNCHANGED <<curr_slice, slock, user, missed, is_running>>
  PROVE  WheelInv'
<1>0. PICK t : t = Last(ticker.left)
  OBVIOUS
<1>1. /\ WheelTyped /\ WheelLocks /\ WheelWalk /\ WheelLists /\ WheelHands /\ WheelTimes
  BY DEF WheelInv
<1>2. /\ t \in Timers /\ t \in Range(ticker.left)
      /\ twentry[t] \in Entries /\ twentry[t].home = "list" /\ twentry[t].slice = curr_slice
      /\ ~Moved(t) /\ \A u \in WheelUsers : ~HeldBy(t, u)
      /\ Front(ticker.left) \in Seq(Timers) /\ IsInjective(Front(ticker.left))
      /\ Range(Front(ticker.left)) = Range(ticker.left) \ {t}
  BY <1>0, Visited
<1>3. /\ ~twentry[t].valid
      /\ wheel' = [wheel EXCEPT ![twentry[t].slice] = unlink_timer(@, t)]
      /\ twentry' = [twentry EXCEPT ![t].home = "slab"]
      /\ ticker' = [ticker EXCEPT !.left = Front(@)] /\ UNCHANGED <<age, skips>>
  BY <1>0 DEF TickFree
<1>4. ticker = [phase |-> "walk", left |-> ticker.left]
  BY <1>1, TickerFacts
<1>5. /\ ticker'.phase = "walk" /\ ticker'.left = Front(ticker.left)
      /\ ticker' \in [phase: {"walk"}, left: Seq(Timers)]
  BY <1>2, <1>3, <1>4
<1>6. /\ twentry' \in [Timers -> Entries] /\ \A x \in Timers \ {t} : twentry'[x] = twentry[x]
      /\ twentry'[t].home = "slab" /\ ~twentry'[t].valid
  BY <1>1, <1>2, <1>3 DEF WheelTyped, Entries
<1>7. /\ wheel' \in [Slices -> Seq(Timers)]
      /\ \A s \in Slices : Range(wheel'[s]) = Range(wheel[s]) \ {t}
      /\ WheelLists'
  BY <1>1, <1>2, <1>3, <1>6, Unlisted DEF WheelTyped
<1>8. WheelTyped'
  BY <1>1, <1>3, <1>5, <1>6, <1>7 DEF WheelTyped
<1>9. WheelLocks'
  BY <1>1, <1>5 DEF WheelLocks, Walking
<1>10. WheelWalk'
  BY <1>1, <1>2, <1>5, <1>7 DEF WheelWalk, WheelTyped, Walking
<1>11. WheelHands'
  <2>1. \A x \in Timers : (Moved(x)' <=> Moved(x)) /\ \A u \in WheelUsers : HeldBy(x, u)' <=> HeldBy(x, u)
    BY <1>5 DEF Moved, HeldBy
  <2>2. \A x \in Timers : twentry'[x].home = "held" <=> twentry[x].home = "held"
    BY <1>2, <1>6
  <2>3. \A x \in Timers : twentry'[x].home # "list" => ~twentry'[x].valid
    BY <1>1, <1>6 DEF WheelHands
  <2> QED
    BY <1>1, <2>1, <2>2, <2>3 DEF WheelHands
<1>12. InTime(t, twentry[t])'
  BY <1>6 DEF InTime
<1>13. WheelTimes'
  BY <1>2, <1>3, <1>5, <1>6, <1>12, VisitTimes
<1> QED
  BY <1>7, <1>8, <1>9, <1>10, <1>11, <1>13 DEF WheelInv

LEMMA TickSpinStep ==
  ASSUME WheelInv, ticker.phase = "walk", ticker.left # <<>>, TickSpin(Last(ticker.left)),
         UNCHANGED <<curr_slice, slock, user, missed, is_running>>
  PROVE  WheelInv'
<1>0. PICK t : t = Last(ticker.left)
  OBVIOUS
<1>1. /\ WheelTyped /\ WheelLocks /\ WheelWalk /\ WheelLists /\ WheelHands /\ WheelTimes
  BY DEF WheelInv
<1>2. /\ t \in Timers /\ t \in Range(ticker.left)
      /\ twentry[t] \in Entries /\ twentry[t].home = "list" /\ twentry[t].slice = curr_slice
      /\ ~Moved(t) /\ \A u \in WheelUsers : ~HeldBy(t, u)
      /\ Front(ticker.left) \in Seq(Timers) /\ IsInjective(Front(ticker.left))
      /\ Range(Front(ticker.left)) = Range(ticker.left) \ {t}
  BY <1>0, Visited
<1>3. /\ twentry[t].valid /\ twentry[t].nspins > 0
      /\ twentry' = [twentry EXCEPT ![t].nspins = @ - 1]
      /\ ticker' = [ticker EXCEPT !.left = Front(@)] /\ UNCHANGED <<wheel, age, skips>>
  BY <1>0 DEF TickSpin
<1>4. ticker = [phase |-> "walk", left |-> ticker.left]
  BY <1>1, TickerFacts
<1>5. /\ ticker'.phase = "walk" /\ ticker'.left = Front(ticker.left)
      /\ ticker' \in [phase: {"walk"}, left: Seq(Timers)]
  BY <1>2, <1>3, <1>4
<1>6. /\ twentry' \in [Timers -> Entries] /\ \A x \in Timers \ {t} : twentry'[x] = twentry[x]
      /\ twentry'[t] = [twentry[t] EXCEPT !.nspins = twentry[t].nspins - 1]
      /\ \A x \in Timers : /\ twentry'[x].home = twentry[x].home
                           /\ twentry'[x].slice = twentry[x].slice
                           /\ twentry'[x].valid = twentry[x].valid
  <2>1. PICK f : f = [twentry[t] EXCEPT !.nspins = twentry[t].nspins - 1]
    OBVIOUS
  <2>2. /\ f \in Entries /\ f.home = twentry[t].home /\ f.slice = twentry[t].slice
        /\ f.valid = twentry[t].valid
    <3>1. twentry[t].nspins - 1 \in Nat
      BY <1>2, <1>3 DEF Entries
    <3> QED
      BY <1>2, <2>1, <3>1 DEF Entries
  <2>3. twentry' = [twentry EXCEPT ![t] = f]
    BY <1>3, <2>1
  <2> QED
    BY <1>1, <1>2, <2>1, <2>2, <2>3 DEF WheelTyped
<1>7. WheelTyped'
  BY <1>1, <1>3, <1>5, <1>6 DEF WheelTyped
<1>8. WheelLocks'
  BY <1>1, <1>5 DEF WheelLocks, Walking
<1>9. WheelWalk'
  BY <1>1, <1>2, <1>3, <1>5 DEF WheelWalk, Walking
<1>10. WheelLists'
  BY <1>1, <1>3, <1>6 DEF WheelLists
<1>11. WheelHands'
  <2>1. \A x \in Timers : (Moved(x)' <=> Moved(x)) /\ \A u \in WheelUsers : HeldBy(x, u)' <=> HeldBy(x, u)
    BY <1>5 DEF Moved, HeldBy
  <2> QED
    BY <1>1, <1>6, <2>1 DEF WheelHands
<1>12. InTime(t, twentry[t])'
  <2>1. PICK e, f : e = twentry[t] /\ f = [e EXCEPT !.nspins = e.nspins - 1]
    OBVIOUS
  <2>2. /\ e.nspins \in Nat \ {0} /\ e.slice = curr_slice /\ InTime(t, e) /\ f.slice = curr_slice
        /\ f.nspins = e.nspins - 1 /\ f.valid = e.valid /\ f.timeout = e.timeout
    BY <1>1, <1>2, <1>3, <2>1 DEF Entries, WheelTimes
  <2>3. ~Seen(t) /\ Seen(t)'
    BY <1>2, <1>5 DEF Seen, Walking
  <2>4. Ahead(curr_slice) = 0
    BY <1>1, WheelAssumption DEF Ahead, WheelTyped, Slices
  <2>5. ToGo(e, Seen(t)) = e.nspins * NSlices /\ ToGo(f, Seen(t))' = (e.nspins - 1) * NSlices + NSlices
    <3>1. e.nspins * NSlices \in Nat
      BY <2>2, WheelAssumption
    <3> QED
      BY <2>2, <2>3, <2>4, <3>1 DEF ToGo
  <2>6. ToGo(f, Seen(t))' = ToGo(e, Seen(t))
    BY <2>2, <2>5, WheelAssumption
  <2>7. InTime(t, f)'
    BY <1>3, <2>2, <2>6 DEF InTime
  <2> QED
    BY <1>6, <2>1, <2>7
<1>13. WheelTimes'
  BY <1>2, <1>3, <1>5, <1>6, <1>12, VisitTimes
<1> QED
  BY <1>7, <1>8, <1>9, <1>10, <1>11, <1>13 DEF WheelInv

LEMMA TickFireStep ==
  ASSUME WheelInv, ticker.phase = "walk", ticker.left # <<>>, TickFire(Last(ticker.left)),
         UNCHANGED <<curr_slice, slock, user, missed, is_running>>
  PROVE  WheelInv'
<1>0. PICK t, rearm, timeout, s, e :
        /\ t = Last(ticker.left) /\ rearm = twentry[t].periodic
        /\ timeout = IF rearm THEN twentry[t].timeout ELSE DelayDelete
        /\ s = next_slice(timeout, twentry[t].slice, TRUE)
        /\ e = init_twentry(timeout, rearm, s, rearm)
  OBVIOUS
<1>1. /\ WheelTyped /\ WheelLocks /\ WheelWalk /\ WheelLists /\ WheelHands /\ WheelTimes
  BY DEF WheelInv
<1>2. /\ t \in Timers /\ t \in Range(ticker.left)
      /\ twentry[t] \in Entries /\ twentry[t].home = "list" /\ twentry[t].slice = curr_slice
      /\ ~Moved(t) /\ \A u \in WheelUsers : ~HeldBy(t, u)
      /\ Front(ticker.left) \in Seq(Timers) /\ IsInjective(Front(ticker.left))
      /\ Range(Front(ticker.left)) = Range(ticker.left) \ {t}
  BY <1>0, Visited
<1>3. /\ twentry[t].valid /\ remove_timer(t)
      /\ ticker' = [phase |-> "move", left |-> Front(ticker.left), t |-> t, entry |-> e]
      /\ age' = [age EXCEPT ![t] = 0] /\ skips' = skips \ {t}
  BY <1>0 DEF TickFire
<1>4. rearm \in BOOLEAN /\ timeout \in Nat /\ (rearm => timeout = twentry[t].timeout)
  BY <1>0, <1>2, WheelAssumption DEF Entries
<1>5. s \in Slices /\ s # curr_slice
  BY <1>0, <1>1, <1>2, <1>4, NextSlice DEF WheelTyped
<1>6. e \in TakenEntries /\ e.valid = rearm /\ e.timeout = timeout /\ e.slice = s
  <2>1. e = init_twentry(timeout, rearm, s, rearm)
    BY <1>0
  <2> QED
    BY <1>4, <1>5, <2>1, InitTwentryType
<1>7. /\ ticker'.phase = "move" /\ ticker'.left = Front(ticker.left) /\ ticker'.t = t /\ ticker'.entry = e
      /\ ticker' \in [phase: {"move"}, left: Seq(Timers), t: Timers, entry: TakenEntries]
  BY <1>2, <1>3, <1>6
<1>8. /\ wheel' \in [Slices -> Seq(Timers)] /\ twentry' \in [Timers -> Entries]
      /\ \A x \in Slices : Range(wheel'[x]) = Range(wheel[x]) \ {t}
      /\ \A x \in Timers \ {t} : twentry'[x] = twentry[x]
      /\ twentry'[t].home = "held" /\ twentry'[t].valid = FALSE
      /\ WheelLists'
  BY <1>1, <1>2, <1>3, Removed DEF WheelTyped
<1>9. /\ age' \in [Timers -> 0 .. MaxAge] /\ skips' \subseteq Timers /\ age'[t] = 0
      /\ \A x \in Timers \ {t} : age'[x] = age[x] /\ (x \in skips' <=> x \in skips)
  <2>1. 0 \in 0 .. MaxAge
    BY WheelAssumption DEF MaxAge
  <2> QED
    BY <1>1, <1>2, <1>3, <2>1 DEF WheelTyped
<1>10. WheelTyped'
  BY <1>1, <1>7, <1>8, <1>9 DEF WheelTyped
<1>11. WheelLocks'
  BY <1>1, <1>7 DEF WheelLocks, Walking
<1>12. WheelWalk'
  BY <1>1, <1>2, <1>7, <1>8 DEF WheelWalk, WheelTyped, Walking
<1>13. WheelHands'
  <2>1. \A x \in Timers : (Moved(x)' <=> x = t) /\ ~Moved(x)
    BY <1>7 DEF Moved
  <2>2. \A x \in Timers, u \in WheelUsers : HeldBy(x, u)' <=> HeldBy(x, u)
    BY DEF HeldBy
  <2>3. \A x \in Timers : twentry'[x].home = "held" <=> x = t \/ twentry[x].home = "held"
    BY <1>8
  <2>4. \A x \in Timers : twentry'[x].home # "list" => ~twentry'[x].valid
    BY <1>1, <1>8 DEF WheelHands
  <2> QED
    BY <1>1, <1>2, <2>1, <2>2, <2>3, <2>4 DEF WheelHands
<1>14. InTime(t, twentry[t])'
  BY <1>8 DEF InTime
<1>15. InTime(t, e)'
  <2> SUFFICES ASSUME rearm
               PROVE  /\ timeout \in Timeouts
                      /\ age'[t] + ToGo(e, Seen(t))' >= timeout \div SliceIntvl
    BY <1>6 DEF InTime
  <2>1. timeout \in Timeouts
    BY <1>1, <1>2, <1>3, <1>4 DEF WheelTimes, InTime
  <2>2. \A seen : ToGo(e, seen) >= timeout \div SliceIntvl
    <3>1. timeout >= timeout /\ TRUE \in BOOLEAN
      BY <1>4
    <3>2. rearm = TRUE
      BY <1>4
    <3>3. e = init_twentry(timeout, rearm, s, TRUE) /\ s = next_slice(timeout, twentry[t].slice, TRUE)
      BY <1>0, <3>2
    <3> QED
      BY <1>1, <1>2, <1>4, <1>5, <3>1, <3>3, Armed DEF WheelTyped, Entries
  <2>3. \A seen : ToGo(e, seen) \in Nat
    BY <1>1, <1>6, ToGoType DEF WheelTyped
  <2>4. ToGo(e, Seen(t))' >= timeout \div SliceIntvl /\ ToGo(e, Seen(t))' \in Nat
    BY <2>2, <2>3 DEF ToGo, Ahead
  <2> QED
    BY <1>9, <2>1, <2>4
<1>16. WheelTimes'
  BY <1>2, <1>7, <1>8, <1>9, <1>14, <1>15, VisitTimes
<1> QED
  BY <1>8, <1>10, <1>11, <1>12, <1>13, <1>16 DEF WheelInv

LEMMA TickMoveStep ==
  ASSUME WheelInv, TickMove
  PROVE  WheelInv'
<1>0. PICK t, e : t = ticker.t /\ e = ticker.entry
  OBVIOUS
<1>1. /\ WheelTyped /\ WheelLocks /\ WheelWalk /\ WheelLists /\ WheelHands /\ WheelTimes
  BY DEF WheelInv
<1>2. /\ ticker.phase = "move" /\ slock[e.slice] = NoLock /\ insert_timer(t, e)
      /\ ticker' = [phase |-> "walk", left |-> ticker.left]
      /\ UNCHANGED <<curr_slice, slock, user, age, skips, missed, is_running>>
  BY <1>0 DEF TickMove
<1>3. /\ t \in Timers /\ e \in TakenEntries /\ ticker.left \in Seq(Timers) /\ Moved(t)
      /\ e.slice \in Slices
  BY <1>0, <1>1, <1>2, TickerFacts DEF Walking, Moved, TakenEntries
<1>4. twentry[t].home = "held" /\ \A u \in WheelUsers : ~HeldBy(t, u)
  BY <1>1, <1>3 DEF WheelHands
<1>5. /\ wheel' \in [Slices -> Seq(Timers)] /\ twentry' \in [Timers -> Entries]
      /\ \A s \in Slices \ {e.slice} : wheel'[s] = wheel[s]
      /\ \A x \in Timers \ {t} : twentry'[x] = twentry[x]
      /\ twentry'[t] = e /\ twentry'[t].home = "list"
      /\ WheelLists'
  BY <1>1, <1>2, <1>3, <1>4, PutBack DEF WheelTyped
<1>6. /\ ticker'.phase = "walk" /\ ticker'.left = ticker.left
      /\ ticker' \in [phase: {"walk"}, left: Seq(Timers)]
  BY <1>2, <1>3
<1>7. WheelTyped'
  BY <1>1, <1>2, <1>5, <1>6 DEF WheelTyped
<1>8. WheelLocks'
  BY <1>1, <1>2, <1>6 DEF WheelLocks, Walking
<1>9. WheelWalk'
  <2>1. slock[curr_slice] = Ticker /\ curr_slice \in Slices
    BY <1>1, <1>2 DEF WheelLocks, WheelTyped, Walking
  <2>2. wheel'[curr_slice] = wheel[curr_slice]
    BY <1>2, <1>5, <2>1 DEF NoLock, Ticker
  <2> QED
    BY <1>1, <1>2, <1>6, <2>2 DEF WheelWalk, Walking
<1>10. WheelHands'
  <2>1. \A x \in Timers : ~Moved(x)' /\ (Moved(x) <=> x = t)
    BY <1>0, <1>2, <1>6 DEF Moved
  <2>2. \A x \in Timers, u \in WheelUsers : HeldBy(x, u)' <=> HeldBy(x, u)
    BY <1>2 DEF HeldBy
  <2>3. \A x \in Timers : twentry'[x].home = "held" <=> x # t /\ twentry[x].home = "held"
    BY <1>5
  <2>4. \A x \in Timers : twentry'[x].home # "list" => ~twentry'[x].valid
    BY <1>1, <1>5 DEF WheelHands
  <2> QED
    BY <1>1, <1>4, <2>1, <2>2, <2>3, <2>4 DEF WheelHands
<1>11. \A x, y : InTime(x, y) => InTime(x, y)'
  <2>1. \A x : Seen(x)' <=> Seen(x)
    BY <1>2, <1>6 DEF Seen, Walking
  <2> QED
    BY <1>2, <2>1 DEF InTime, ToGo, Ahead
<1>12. WheelTimes'
  <2>1. InTime(t, twentry[t])'
    BY <1>0, <1>1, <1>2, <1>5, <1>11 DEF WheelTimes
  <2>2. ASSUME NEW x \in Timers \ {t}
        PROVE  InTime(x, twentry[x])'
    <3>1. PICK y : y = twentry[x]
      OBVIOUS
    <3>2. InTime(x, y)'
      BY <1>1, <1>11, <3>1 DEF WheelTimes
    <3> QED
      BY <1>5, <3>1, <3>2
  <2>3. ASSUME NEW u \in WheelUsers, user[u] # NoCall
        PROVE  InTime(user[u].t, user[u].entry)'
    <3>1. PICK x, y : x = user[u].t /\ y = user[u].entry
      OBVIOUS
    <3>2. InTime(x, y)'
      BY <1>1, <1>11, <2>3, <3>1 DEF WheelTimes
    <3> QED
      BY <1>2, <3>1, <3>2
  <2> QED
    BY <1>2, <1>6, <2>1, <2>2, <2>3 DEF WheelTimes
<1> QED
  BY <1>5, <1>7, <1>8, <1>9, <1>10, <1>12 DEF WheelInv

\* The wheel turns by a slice: every armed timer is a slice older and has one
\* less to go.
LEMMA TickDoneStep ==
  ASSUME WheelInv, TickDone
  PROVE  WheelInv'
<1>1. /\ WheelTyped /\ WheelLocks /\ WheelWalk /\ WheelLists /\ WheelHands /\ WheelTimes
      /\ curr_slice \in Slices /\ age \in [Timers -> 0 .. MaxAge] /\ MaxAge \in Nat
  <2>1. MaxAge \in Nat
    BY WheelAssumption DEF MaxAge
  <2> QED
    BY <2>1 DEF WheelInv, WheelTyped
<1>2. /\ ticker.phase = "walk" /\ ticker.left = <<>>
      /\ slock' = [slock EXCEPT ![curr_slice] = NoLock]
      /\ curr_slice' = (curr_slice + 1) % NSlices
      /\ age' = [t \in Timers |-> IF twentry[t].home = "slab" THEN 0 ELSE Min({age[t] + 1, MaxAge})]
      /\ ticker' = [phase |-> "idle"] /\ ticker'.phase = "idle"
      /\ UNCHANGED <<wheel, twentry, user, skips, missed, is_running>>
  BY DEF TickDone
<1>3. /\ curr_slice' = IF curr_slice + 1 < NSlices THEN curr_slice + 1 ELSE 0
      /\ curr_slice' \in Slices
  <2>1. NSlices \in Nat /\ NSlices > 1 /\ curr_slice \in 0 .. NSlices - 1
    BY <1>1, WheelAssumption DEF Slices
  <2> QED
    BY <1>2, <2>1 DEF Slices
<1>4. \A s \in Slices : Ahead(s)' = IF s = curr_slice THEN NSlices - 1 ELSE Ahead(s) - 1
  BY <1>1, <1>3, WheelAssumption DEF Ahead, Slices
<1>5. /\ age' \in [Timers -> 0 .. MaxAge]
      /\ \A x \in Timers : twentry[x].home # "slab" => age'[x] = age[x] + 1 \/ age'[x] = MaxAge
  <2> SUFFICES ASSUME NEW x \in Timers
               PROVE  /\ age'[x] \in 0 .. MaxAge
                      /\ twentry[x].home # "slab" => age'[x] = age[x] + 1 \/ age'[x] = MaxAge
    BY <1>2
  <2>1. age[x] + 1 \in Nat /\ age[x] \in Nat
    BY <1>1
  <2>2. Min({age[x] + 1, MaxAge}) \in {age[x] + 1, MaxAge} /\ Min({age[x] + 1, MaxAge}) <= MaxAge
    BY <1>1, <2>1, OfTwo
  <2> QED
    BY <1>1, <1>2, <2>1, <2>2
<1>6. WheelTyped'
  <2>1. slock' \in [Slices -> {NoLock, Ticker} \union WheelUsers]
    BY <1>1, <1>2 DEF WheelTyped
  <2> QED
    BY <1>1, <1>2, <1>3, <1>5, <2>1 DEF WheelTyped
<1>7. WheelLocks'
  <2>1. /\ slock[curr_slice] = Ticker /\ NoLock # Ticker
        /\ \A v \in WheelUsers : v # NoLock /\ v # Ticker
    BY <1>1, <1>2, WheelAssumption DEF WheelLocks, Walking, NoLock, Ticker
  <2>2. /\ \A s \in Slices : slock'[s] # Ticker
        /\ \A s \in Slices, v \in WheelUsers : slock'[s] = v <=> slock[s] = v
    BY <1>1, <1>2, <2>1 DEF WheelTyped, WheelLocks
  <2> QED
    BY <1>1, <1>2, <2>2 DEF WheelLocks, Walking
<1>8. WheelWalk'
  BY <1>2 DEF WheelWalk, Walking
<1>9. WheelLists'
  BY <1>1, <1>2 DEF WheelLists
<1>10. WheelHands'
  BY <1>1, <1>2 DEF WheelHands, HeldBy, Moved
<1>11. \A x : Seen(x) /\ ~Seen(x)'
  BY <1>2 DEF Seen, Walking, Range
<1>12. ASSUME NEW x \in Timers, NEW e \in TakenEntries \union Entries, InTime(x, e),
              e.valid => twentry[x].home # "slab"
       PROVE  InTime(x, e)'
  <2>1. e.nspins \in Nat /\ e.slice \in Slices
    BY DEF TakenEntries, Entries
  <2>2. PICK n : n = e.nspins * NSlices
    OBVIOUS
  <2>3. n \in Nat
    BY <2>1, <2>2, WheelAssumption
  <2>4. ToGo(e, Seen(x)) = n + (IF e.slice = curr_slice THEN NSlices ELSE Ahead(e.slice))
    BY <1>11, <2>2 DEF ToGo
  <2>5. ToGo(e, Seen(x))' = n + Ahead(e.slice)'
    BY <1>11, <2>2 DEF ToGo
  <2>6. Ahead(e.slice) \in Nat /\ NSlices \in Nat
    BY <1>1, <2>1, WheelAssumption DEF Ahead, Slices
  <2>7. ToGo(e, Seen(x))' = ToGo(e, Seen(x)) - 1
    BY <1>4, <2>1, <2>3, <2>4, <2>5, <2>6
  <2>8. ToGo(e, Seen(x)) \in Nat /\ ToGo(e, Seen(x))' \in Nat
    <3>1. ToGo(e, Seen(x)) \in Nat
      BY <1>1, ToGoType
    <3>2. \A s \in Slices : Ahead(s)' \in Nat
      BY <1>3, WheelAssumption DEF Ahead, Slices
    <3> QED
      BY <2>1, <2>3, <2>5, <3>1, <3>2
  <2>9. ASSUME e.valid, x \notin skips
        PROVE  age'[x] + ToGo(e, Seen(x))' >= e.timeout \div SliceIntvl
    <3> DEFINE due == e.timeout \div SliceIntvl
               a == ToGo(e, Seen(x))
               b == ToGo(e, Seen(x))'
    <3>1. /\ due \in Nat /\ due <= MaxAge
      BY <1>12, <2>9, AskedTimeouts DEF InTime
    <3>2. age[x] + a >= due
      BY <1>12, <2>9 DEF InTime
    <3>3. age[x] \in Nat /\ a \in Nat /\ b \in Nat /\ b = a - 1
          /\ (age'[x] = age[x] + 1 \/ age'[x] = MaxAge)
      BY <1>1, <1>5, <1>12, <2>7, <2>8, <2>9
    <3> HIDE DEF due, a, b
    <3>4. age'[x] + b >= due
      BY <1>1, <3>1, <3>2, <3>3
    <3> QED
      BY <3>4 DEF due, b
  <2> QED
    BY <1>2, <1>12, <2>9 DEF InTime
<1>13. WheelTimes'
  <2>1. ASSUME NEW x \in Timers
        PROVE  InTime(x, twentry[x])'
    <3>1. PICK e : e = twentry[x]
      OBVIOUS
    <3>2. e \in Entries /\ InTime(x, e) /\ (e.valid => twentry[x].home # "slab")
      BY <1>1, <3>1 DEF WheelTyped, WheelTimes, WheelHands
    <3>3. InTime(x, e)'
      BY <1>12, <3>2
    <3> QED
      BY <1>2, <3>1, <3>3
  <2>2. ASSUME NEW u \in WheelUsers, user[u] # NoCall
        PROVE  InTime(user[u].t, user[u].entry)'
    <3>1. PICK x, e : x = user[u].t /\ e = user[u].entry
      OBVIOUS
    <3>2. x \in Timers /\ e \in TakenEntries /\ InTime(x, e) /\ HeldBy(x, u)
      BY <1>1, <2>2, <3>1, CallFacts DEF WheelTimes, HeldBy
    <3>3. twentry[x].home = "held"
      BY <1>1, <3>2 DEF WheelHands
    <3>4. InTime(x, e)'
      BY <1>12, <3>2, <3>3
    <3> QED
      BY <1>2, <3>1, <3>4
  <2> QED
    BY <1>2, <2>1, <2>2 DEF WheelTimes
<1> QED
  BY <1>6, <1>7, <1>8, <1>9, <1>10, <1>13 DEF WheelInv

\* The timer fd and the start and end of the thread leave the wheel alone.
LEMMA WheelRests ==
  ASSUME WheelInv, UNCHANGED <<curr_slice, wheel, twentry, slock, user, age, skips>>,
         missed' \in 0 .. MaxMissed, is_running' \in BOOLEAN,
         \/ UNCHANGED ticker
         \/ ~Walking /\ ticker' \in [phase: {"idle", "off"}]
  PROVE  WheelInv'
<1>1. /\ WheelTyped /\ WheelLocks /\ WheelWalk /\ WheelLists /\ WheelHands /\ WheelTimes
  BY DEF WheelInv
<1>2. /\ Walking' <=> Walking
      /\ Walking \/ ticker'.phase = "move" \/ ticker.phase = "move" => UNCHANGED ticker
  BY DEF Walking
<1>3. WheelTyped'
  BY <1>1 DEF WheelTyped
<1>4. WheelLocks' /\ WheelWalk' /\ WheelLists'
  BY <1>1, <1>2 DEF WheelLocks, WheelWalk, WheelLists
<1>5. WheelHands'
  BY <1>1, <1>2 DEF WheelHands, HeldBy, Moved
<1>6. \A x, y : InTime(x, y)' <=> InTime(x, y)
  <2>1. \A x : Seen(x)' <=> Seen(x)
    BY <1>2 DEF Seen
  <2> QED
    BY <2>1 DEF InTime, ToGo, Ahead
<1>7. WheelTimes'
  <2>1. \A x \in Timers : InTime(x, twentry[x])'
    BY <1>1, <1>6 DEF WheelTimes
  <2>2. ASSUME NEW u \in WheelUsers, user[u] # NoCall
        PROVE  InTime(user[u].t, user[u].entry)'
    BY <1>1, <1>6, <2>2 DEF WheelTimes
  <2>3. ticker'.phase = "move" => InTime(ticker.t, ticker.entry)'
    BY <1>1, <1>2, <1>6 DEF WheelTimes
  <2> QED
    BY <2>1, <2>2, <2>3 DEF WheelTimes
<1> QED
  BY <1>3, <1>4, <1>5, <1>7 DEF WheelInv

LEMMA WheelStarts ==
  ASSUME WheelInit
  PROVE  WheelInv
<1>1. /\ 0 \in Slices /\ 0 \in 0 .. MaxAge /\ 0 \in 0 .. MaxMissed
      /\ \A v \in WheelUsers : v # NoLock
      /\ NoLock # Ticker
  <2>1. 0 \in 0 .. MaxAge /\ 0 \in 0 .. MaxMissed
    BY WheelAssumption DEF MaxAge
  <2> QED
    BY <2>1, Arithmetic, WheelAssumption DEF NoLock, Ticker
<1>2. \A s \in Slices : /\ wheel[s] = <<>> /\ wheel[s] \in Seq(Timers)
                         /\ IsInjective(wheel[s]) /\ Range(wheel[s]) = {}
  BY DEF WheelInit, IsInjective, Range
<1>3. \A t \in Timers : twentry[t] \in Entries /\ ~twentry[t].valid /\ twentry[t].home = "slab"
  BY <1>1 DEF WheelInit, Entries
<1>4. /\ ~Walking /\ \A t \in Timers : ~Moved(t)
      /\ \A u \in WheelUsers : user[u] = NoCall
  BY DEF WheelInit, Walking, Moved
<1>5. WheelTyped
  BY <1>1, <1>2, <1>3 DEF WheelInit, WheelTyped
<1>6. WheelLocks /\ WheelWalk /\ WheelLists
  BY <1>1, <1>2, <1>3, <1>4 DEF WheelInit, WheelLocks, WheelWalk, WheelLists, NoCall
<1>7. WheelHands
  BY <1>3, <1>4 DEF WheelHands, HeldBy
<1>8. WheelTimes
  BY <1>3, <1>4 DEF WheelTimes, InTime, WheelInit
<1> QED
  BY <1>5, <1>6, <1>7, <1>8 DEF WheelInv

LEMMA WheelStep ==
  ASSUME WheelInv, [WheelNext]_wheelVars
  PROVE  WheelInv'
<1>1. missed \in 0 .. MaxMissed /\ is_running \in BOOLEAN /\ MaxMissed \in Nat
  BY WheelAssumption DEF WheelInv, WheelTyped
<1>2. CASE \E u \in WheelUsers, t \in Timers, timeout \in Timeouts, delay \in {0, SliceIntvl},
               periodic \in BOOLEAN : AddTimer(u, t, timeout, delay, periodic)
  BY <1>2, AddTimerStep
<1>3. CASE \E u \in WheelUsers, t \in Timers : DelTimer(u, t)
  BY <1>3, DelTimerStep
<1>4. CASE \E u \in WheelUsers, t \in Timers, timeout \in Timeouts, periodic \in BOOLEAN :
             UpdTimer(u, t, timeout, periodic)
  BY <1>4, UpdTimerStep
<1>5. CASE \E u \in WheelUsers : AddInsert(u) \/ DelInsert(u) \/ UpdInsert(u)
  BY <1>5, InsertStep
<1>6. CASE PeriodicInit \/ PeriodicExit
  <2>1. ~Walking /\ ticker' \in [phase: {"idle", "off"}]
    BY <1>6 DEF PeriodicInit, PeriodicExit, Walking
  <2>2. is_running' \in BOOLEAN /\ missed' \in 0 .. MaxMissed
        /\ UNCHANGED <<curr_slice, wheel, twentry, slock, user, age, skips>>
    BY <1>1, <1>6 DEF PeriodicInit, PeriodicExit
  <2> QED
    BY <2>1, <2>2, WheelRests
<1>7. CASE Expire
  <2>1. missed' \in 0 .. MaxMissed
    BY <1>1, <1>7 DEF Expire
  <2> QED
    BY <1>1, <1>7, <2>1, WheelRests DEF Expire
<1>8. CASE TickVisit
  BY <1>8, TickFreeStep, TickSpinStep, TickFireStep DEF TickVisit
<1>9. CASE UNCHANGED wheelVars
  BY <1>1, <1>9, WheelRests DEF wheelVars
<1> QED
  BY <1>2, <1>3, <1>4, <1>5, <1>6, <1>7, <1>8, <1>9, TickSliceStep, TickMoveStep, TickDoneStep
     DEF WheelNext

\* The invariant holds for every number of slices, timers and threads.
THEOREM WheelInvariant == WheelSpec => []WheelInv
BY WheelStarts, WheelStep, PTL DEF WheelSpec

\* The wheel, its entries, its locks and those who hold them are of their types
\* (twheel.hpp).
THEOREM WheelTypeCorrect == WheelSpec => []WheelTypeOK
<1>1. ASSUME WheelInv
      PROVE  WheelTypeOK
  <2>1. WheelTyped
    BY <1>1 DEF WheelInv
  <2>2. \A u \in WheelUsers : user[u] # NoCall => user[u].entry.slice \in Slices
    BY <2>1, CallFacts DEF TakenEntries
  <2>3. ticker.phase = "move" => ticker.entry.slice \in Slices
    BY <2>1, TickerFacts DEF TakenEntries
  <2> QED
    BY <2>1, <2>2, <2>3, TickerFacts DEF WheelTyped, WheelTypeOK, Entries
<1> QED
  BY <1>1, WheelInvariant, PTL

\* What the invariant says of the lists, and of the entry the walk comes to.
LEMMA WheelIsSound ==
  ASSUME WheelInv
  PROVE  WheelSound
<1>1. WheelTyped /\ WheelLists /\ WheelHands
  BY DEF WheelInv
<1>2. ASSUME NEW t \in Timers
      PROVE  {s \in Slices : t \in Range(wheel[s])} =
               IF twentry[t].home = "list" THEN {twentry[t].slice} ELSE {}
  BY <1>1 DEF WheelLists, WheelTyped, Entries
<1>3. ASSUME NEW t \in Timers
      PROVE  t \in InHand <=> Moved(t) \/ \E u \in WheelUsers : HeldBy(t, u)
  BY DEF InHand, Moved, HeldBy
<1>4. ASSUME NEW u \in WheelUsers, NEW v \in WheelUsers,
             user[u] # NoCall, user[v] # NoCall, user[u].t = user[v].t
      PROVE  u = v
  <2>1. user[u].t \in Timers /\ HeldBy(user[u].t, u) /\ HeldBy(user[u].t, v)
    BY <1>1, <1>4, CallFacts DEF HeldBy
  <2> QED
    BY <1>1, <2>1 DEF WheelHands
<1> QED
  BY <1>1, <1>2, <1>3, <1>4 DEF WheelSound, WheelLists, WheelHands

LEMMA NoneIsEarly ==
  ASSUME WheelInv
  PROVE  NeverEarly
<1> SUFFICES ASSUME ticker.phase = "walk", ticker.left # <<>>,
                    twentry[Last(ticker.left)].valid, twentry[Last(ticker.left)].nspins = 0,
                    Last(ticker.left) \notin skips
             PROVE  age[Last(ticker.left)] >= twentry[Last(ticker.left)].timeout \div SliceIntvl
  BY DEF NeverEarly
<1>0. PICK t, e : t = Last(ticker.left) /\ e = twentry[t]
  OBVIOUS
<1>1. /\ t \in Timers /\ t \in Range(ticker.left) /\ e.slice = curr_slice
  BY <1>0, Visited
<1>2. InTime(t, e) /\ curr_slice \in Slices /\ age[t] \in Nat
  BY <1>0, <1>1 DEF WheelInv, WheelTimes, WheelTyped
<1>3. ~Seen(t)
  BY <1>1 DEF Seen
<1>4. ToGo(e, Seen(t)) = 0
  <2>1. Ahead(curr_slice) = 0
    BY <1>2, WheelAssumption DEF Ahead, Slices
  <2>2. 0 * NSlices = 0
    BY WheelAssumption
  <2> QED
    BY <1>0, <1>1, <1>3, <2>1, <2>2 DEF ToGo
<1> QED
  BY <1>0, <1>2, <1>4 DEF InTime

\* An entry is in one list, free or in one hand, and no callback runs before its
\* time, with any number of threads and the tick at work on the wheel (twheel.cc).
THEOREM TimersAreKept == WheelSpec => []WheelKeepsTimers
<1>1. WheelInv => WheelKeepsTimers
  BY WheelIsSound, NoneIsEarly DEF WheelKeepsTimers
<1> QED
  BY <1>1, WheelInvariant, PTL

-----------------------------------------------------------------------------
(***************************************************************************)
(* The parts together.  A behaviour of MCSdk is one of each of its parts   *)
(* (the part that moves makes its own steps and the others stand still),   *)
(* so what is proved of a part holds of the instance that is checked.      *)
(***************************************************************************)
LEMMA SdkParts ==
  /\ SdkInit => EventThreadInit /\ IpcInit /\ WheelInit /\ SlabInit /\ PoolInit /\ WatchShowInit
  /\ [SdkNext]_sdkVars =>
         /\ [EventThreadNext]_eventThreadVars /\ [IpcNext]_ipcVars /\ [WheelNext]_wheelVars
         /\ [SlabNext]_slabVars /\ [PoolNext]_poolVars /\ [WatchShowNext]_watchShowVars
<1>1. SdkInit => EventThreadInit /\ IpcInit /\ WheelInit /\ SlabInit /\ PoolInit /\ WatchShowInit
  BY DEF SdkInit
<1>2. ASSUME [SdkNext]_sdkVars
      PROVE  /\ [EventThreadNext]_eventThreadVars /\ [IpcNext]_ipcVars /\ [WheelNext]_wheelVars
             /\ [SlabNext]_slabVars /\ [PoolNext]_poolVars /\ [WatchShowNext]_watchShowVars
  BY <1>2 DEF SdkNext, sdkVars
<1> QED
  BY <1>1, <1>2

\* Each part of the SDK, checked beside the others, behaves as it does alone.
THEOREM SdkIsItsParts ==
  SdkSpec => EventThreadSpec /\ IpcSpec /\ WheelSpec /\ SlabSpec /\ PoolSpec /\ WatchShowSpec
BY SdkParts, PTL DEF SdkSpec, EventThreadSpec, IpcSpec, WheelSpec, SlabSpec, PoolSpec, WatchShowSpec

\* The types of all of them: the counts of elements, requests, ticks, works and
\* threads are those the code declares.
THEOREM SdkTypeCorrect == SdkSpec => []SdkTypeOK
<1>1. SdkSpec => [](EventThreadTypeOK /\ IpcTypeOK /\ WheelTypeOK /\ SlabTypeOK
                  /\ PoolTypeOK /\ WatchShowTypeOK)
  BY SdkIsItsParts, LoopTypeCorrect, IpcTypeCorrect, WheelTypeCorrect, SlabTypeCorrect,
     PoolTypeCorrect, WatchShowTypeCorrect, PTL
<1> QED
  BY <1>1, PTL DEF SdkTypeOK
=============================================================================
