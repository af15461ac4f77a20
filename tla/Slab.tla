-------------------------------- MODULE Slab --------------------------------
(***************************************************************************)
(* The SDK's slab allocator (lib/slab): a doubly linked list of blocks of  *)
(* equal elements.  Every call holds the slab's spinlock throughout, so a  *)
(* call is one step.  The order of a block's free list is left out: any    *)
(* free element may be handed out.                                         *)
(***************************************************************************)
EXTENDS Naturals, FiniteSets

CONSTANTS
    SlabBlocks,     \* addresses the block allocator returns
    Null,           \* the null pointer
    ElemsPerBlock   \* elems_per_block_

ASSUME SlabAssumption ==
    /\ IsFiniteSet(SlabBlocks)
    /\ Null \notin SlabBlocks
    /\ ElemsPerBlock \in Nat /\ ElemsPerBlock > 1   \* factory refuses less

VARIABLES
    slab,       \* grow_on_demand_, block_head_, num_in_use_, whether it exists
    block,      \* address -> prev_, next_, free elements, elements in use, num_in_use_
    allocated,  \* blocks the slab got from the block allocator
    held        \* (block, index) -> how many callers hold that element

slabVars == <<slab, block, allocated, held>>

Elems   == 0 .. ElemsPerBlock - 1
Objects == SlabBlocks \X Elems
NoBlock == [prev |-> Null, next |-> Null, free |-> {}, in_use |-> {}, num_in_use |-> 0]

SlabTypeOK ==
    /\ slab \in [exists: BOOLEAN, grow: BOOLEAN, head: SlabBlocks \union {Null}, num_in_use: Nat]
    /\ block \in [SlabBlocks -> [prev: SlabBlocks \union {Null}, next: SlabBlocks \union {Null},
                                 free: SUBSET Elems, in_use: SUBSET Elems, num_in_use: Nat]]
    /\ allocated \subseteq SlabBlocks
    /\ held \in [Objects -> Nat]

\* The list as next_ links it: the i-th block, Null behind the end.
BlockAt == LET at[i \in 0 .. Cardinality(SlabBlocks)] ==
                 IF i = 0 THEN slab.head
                 ELSE IF at[i - 1] = Null THEN Null ELSE block[at[i - 1]].next
           IN  at
Positions == {i \in DOMAIN BlockAt : BlockAt[i] # Null}

\* The first block with a free element.
FirstFree(b) == \E i \in Positions :
                   /\ b = BlockAt[i]
                   /\ block[b].free # {}
                   /\ \A j \in 0 .. i - 1 : block[BlockAt[j]].free = {}

-----------------------------------------------------------------------------
\* factory and init: no block is allocated yet.
SlabFactory(grow) ==
    /\ ~slab.exists
    /\ slab' = [exists |-> TRUE, grow |-> grow, head |-> Null, num_in_use |-> 0]
    /\ UNCHANGED <<block, allocated, held>>

\* alloc_block_: a fresh block, all its elements in the free list, put at the
\* head of the list by alloc.
alloc_block(b) ==
    [x \in SlabBlocks |->
        IF x = b THEN [NoBlock EXCEPT !.next = slab.head, !.free = Elems]
        ELSE IF x = slab.head THEN [block[x] EXCEPT !.prev = b] ELSE block[x]]

\* The end of alloc: an element of block b leaves the free list.
TakeElem(blocks, head, b, e) ==
    /\ block' = [blocks EXCEPT ![b].free = @ \ {e}, ![b].in_use = @ \union {e},
                               ![b].num_in_use = @ + 1]
    /\ slab' = [slab EXCEPT !.head = head, !.num_in_use = @ + 1]
    /\ held' = [held EXCEPT ![<<b, e>>] = @ + 1]

\* alloc, out of a block of the list.
AllocFromBlock(b, e) ==
    /\ slab.exists
    /\ FirstFree(b)
    /\ e \in block[b].free
    /\ TakeElem(block, slab.head, b, e)
    /\ UNCHANGED allocated

\* alloc, when every block is full: the list grows, if it may or is empty.
AllocNewBlock(b, e) ==
    /\ slab.exists
    /\ ~ \E x \in SlabBlocks : FirstFree(x)
    /\ slab.grow \/ slab.head = Null
    /\ b \notin allocated
    /\ allocated' = allocated \union {b}
    /\ TakeElem(alloc_block(b), b, b, e)

\* free_block_: out of the list, back to the block allocator.
free_block(blocks, b) ==
    LET prev == blocks[b].prev
        next == blocks[b].next
    IN  /\ allocated' = allocated \ {b}
        /\ \/ /\ slab.head = b
              /\ slab' = [slab EXCEPT !.head = next, !.num_in_use = @ - 1]
              /\ block' = [blocks EXCEPT ![b] = NoBlock]
           \/ /\ slab.head # b
              /\ slab' = [slab EXCEPT !.num_in_use = @ - 1]
              /\ block' = [x \in SlabBlocks |->
                   IF x = b THEN NoBlock
                   ELSE IF x = prev THEN [blocks[x] EXCEPT !.next = next]
                   ELSE IF x = next THEN [blocks[x] EXCEPT !.prev = prev] ELSE blocks[x]]

\* Mutant of FreesBlock: a block may go when the slab can grow.
FreesBlockMutant(freed) == slab.grow /\ freed.next # Null

\* The condition under which free_ gives a block back.
FreesBlock(freed) == freed.num_in_use = 0 /\ slab.grow /\ freed.next # Null

\* free: the element back into its block, which goes when it was the last one
\* and the block is not the tail of the list.  An element of no active block
\* trips an assertion, which is no step.
SlabFree(b, e) ==
    /\ held[<<b, e>>] > 0
    /\ b \in allocated
    /\ held' = [held EXCEPT ![<<b, e>>] = @ - 1]
    /\ LET freed  == [block[b] EXCEPT !.free = @ \union {e}, !.in_use = @ \ {e},
                                      !.num_in_use = @ - 1]
           blocks == [block EXCEPT ![b] = freed]
       IN  \/ /\ FreesBlock(freed)
              /\ free_block(blocks, b)
           \/ /\ ~FreesBlock(freed)
              /\ block' = blocks
              /\ slab' = [slab EXCEPT !.num_in_use = @ - 1]
              /\ UNCHANGED allocated

\* destroy: all blocks of the list go, used or not, and the slab.
SlabDestroy ==
    /\ slab.exists
    /\ slab' = [slab EXCEPT !.exists = FALSE, !.head = Null, !.num_in_use = 0]
    /\ allocated' = allocated \ {BlockAt[i] : i \in Positions}
    /\ block' = [b \in SlabBlocks |-> NoBlock]
    /\ held' = [o \in Objects |-> 0]

SlabInit ==
    /\ slab = [exists |-> FALSE, grow |-> FALSE, head |-> Null, num_in_use |-> 0]
    /\ block = [b \in SlabBlocks |-> NoBlock]
    /\ allocated = {}
    /\ held = [o \in Objects |-> 0]

SlabNext ==
    \/ \E grow \in BOOLEAN : SlabFactory(grow)
    \/ \E b \in SlabBlocks, e \in Elems :
         AllocFromBlock(b, e) \/ AllocNewBlock(b, e) \/ SlabFree(b, e)
    \/ SlabDestroy

SlabSpec == SlabInit /\ [][SlabNext]_slabVars

-----------------------------------------------------------------------------
Abstract == INSTANCE Allocator WITH Elements <- Objects, held <- held

\* Growing, shrinking and reusing blocks (alloc, free_block_) never hands out an
\* element that some caller holds.
SlabAllocator == Abstract!Spec
=============================================================================
