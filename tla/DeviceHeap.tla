----------------------------- MODULE DeviceHeap -----------------------------
(***************************************************************************)
(* What cudaMalloc and cudaFree promise a program: a pointer that is       *)
(* handed out belongs to one caller until that caller gives it back, and   *)
(* the memory behind it is at least as large as the request.               *)
(***************************************************************************)
EXTENDS Naturals

CONSTANTS
    Ptr,        \* device pointers
    Bytes       \* the sizes a program asks for

VARIABLES
    held,       \* Ptr -> bytes the holder asked for, 0 when nobody holds it
    extent      \* Ptr -> bytes reserved at the pointer

heapVars == <<held, extent>>

NotHeld == 0

HeapInit == held = [p \in Ptr |-> NotHeld] /\ extent \in [Ptr -> Nat]

\* A call of cudaMalloc returns p.
Malloc(p, bytes) ==
    /\ held[p] = NotHeld
    /\ held' = [held EXCEPT ![p] = bytes]
    /\ extent'[p] >= bytes

\* A program calls cudaFree(p).
Free(p) ==
    /\ held[p] # NotHeld
    /\ held' = [held EXCEPT ![p] = NotHeld]

\* What the runtime reserves may change in any way that leaves the memory of
\* the held pointers alone.
Reserve == held' = held

HeldIsStable == \A p \in Ptr : held[p] # NotHeld => extent'[p] = extent[p]

HeapNext ==
    /\ \/ \E p \in Ptr, bytes \in Bytes : Malloc(p, bytes)
       \/ \E p \in Ptr : Free(p)
       \/ Reserve
    /\ HeldIsStable

HeapSpec == HeapInit /\ [][HeapNext]_heapVars
=============================================================================
