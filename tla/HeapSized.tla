------------------------------ MODULE HeapSized ------------------------------
(***************************************************************************)
(* Heap on a machine whose sizes stay inside a 32-bit word: what the code  *)
(* takes for granted, as named assumptions, and the abstract allocator the *)
(* heap implements under them.                                             *)
(***************************************************************************)
EXTENDS Heap

ASSUME ConstantTypes ==
    /\ {WORD, PAGE_SIZE, PT_ENTRIES, ALIGN, SIZEOF_BLOCK} \subseteq Nat \ {0}
    /\ {INITIAL, HEAP_PAGES} \subseteq Nat
    /\ Requests \subseteq Nat

\* the kernel image ends below the top of RAM, and not in frame 0
ASSUME KernelBelowTop ==
    /\ page_frame_min \in Nat \ {0}
    /\ page_frame_max \in Nat
    /\ page_frame_min <= page_frame_max

\* RAM is smaller than the addresses from KERNEL_MALLOC to the page tables
ASSUME RamFitsWindow ==
    /\ page_frame_max - page_frame_min <= HEAP_PAGES
    /\ page_frame_max < WORD

\* no size computation of kmalloc or ensure_capacity wraps around
ASSUME NoWrap ==
    \A n \in Requests \cup {INITIAL} :
       HEAP_PAGES * PAGE_SIZE + n + SIZEOF_BLOCK + 3 * ALIGN + PAGE_SIZE <= WORD

A == INSTANCE Allocator WITH Arena <- HEAP_PAGES * PAGE_SIZE, regions <- Regions

\* Every behaviour of the heap is one of the abstract allocator: each grant is
\* as long as asked and overlaps no other (kmalloc.c:79-119).
ImplementsAllocator == A!Spec
=============================================================================
