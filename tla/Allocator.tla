------------------------------ MODULE Allocator ------------------------------
(***************************************************************************)
(* What a caller may rely on from an allocator of elements: one that it    *)
(* gets is in no other caller's hands, and stays its own until it frees it *)
(* or the allocator is destroyed.  Slab implements this.                   *)
(***************************************************************************)
EXTENDS Naturals

CONSTANT Elements

VARIABLE held    \* element -> how many callers hold it

Nobody == [o \in Elements |-> 0]

Acquire(o) == held[o] = 0 /\ held' = [held EXCEPT ![o] = 1]
Release(o) == held[o] = 1 /\ held' = [held EXCEPT ![o] = 0]
Destroy    == held' = Nobody

Init == held = Nobody
Next == Destroy \/ \E o \in Elements : Acquire(o) \/ Release(o)
Spec == Init /\ [][Next]_held
=============================================================================
