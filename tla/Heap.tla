-------------------------------- MODULE Heap --------------------------------
(***************************************************************************)
(* The kernel heap of src/kernel/kmalloc.c over the frame allocator and    *)
(* the page mapping of Memory.  Addresses are offsets from heap_base.      *)
(* A block is named by the offset of its header.  kmalloc's mapping loop   *)
(* runs one page per step; nothing else runs on the heap meanwhile, as     *)
(* interrupt handlers never touch it.                                      *)
(***************************************************************************)
EXTENDS Memory, Sequences, SequencesExt

CONSTANTS ALIGN,        \* 8u
          SIZEOF_BLOCK, \* sizeof(block_t)
          INITIAL,      \* kmalloc_init's initial_heap_size
          HEAP_PAGES,   \* pages from KERNEL_MALLOC to the recursive tables
          Requests      \* sizes callers ask for

VARIABLES pc,           \* "init", "idle", or "kmalloc" while pages are mapped
          req,          \* the size kmalloc was called with, or INITIAL
          mapped_pages, \* mapped_bytes / PAGE_SIZE
          brk_offset,
          size,         \* header contents: block -> its size field
          free_list,    \* blocks on the free list, head first
          live          \* block -> size its owner asked for (not in the code)

heapVars == <<pc, req, mapped_pages, brk_offset, size, free_list, live>>
vars == <<memVars, heapVars>>

align_up(x, a) == LET y == (x + (a - 1)) % WORD IN y - (y % a)

header_size  == align_up(SIZEOF_BLOCK, ALIGN)
mapped_bytes == mapped_pages * PAGE_SIZE

need  == align_up(req, ALIGN)
start == align_up(brk_offset, ALIGN)

endHeaderOnly == (start + header_size) % WORD

end == (start + header_size + need) % WORD

\* Mutant: the target is rounded down.
wantDown == LET e == IF pc = "init" THEN req ELSE end IN e - (e % PAGE_SIZE)

\* ensure_capacity's target: the requested end rounded up to a page boundary.
want == align_up(IF pc = "init" THEN req ELSE end, PAGE_SIZE)

\* The first block on the free list that is large enough, as a set of indices.
FirstFit(n) ==
    {i \in DOMAIN free_list :
        /\ size[free_list[i]] >= n
        /\ \A j \in 1..(i - 1) : size[free_list[j]] < n}

Init ==
    /\ InitMemory
    /\ pc = "init"
    /\ req = INITIAL
    /\ mapped_pages = 0
    /\ brk_offset = 0
    /\ size = << >>
    /\ free_list = << >>
    /\ live = << >>

-----------------------------------------------------------------------------
(***************************************************************************)
(* map_more_until, one iteration: map the next page, or give up when the   *)
(* frame allocator answers 0.  kmalloc then returns NULL; kmalloc_init     *)
(* reports the failure and goes on.                                        *)
(***************************************************************************)
MapNext ==
    /\ pc \in {"init", "kmalloc"}
    /\ mapped_bytes < want
    /\ MapPage(mapped_pages)
    /\ mapped_pages' = mapped_pages + 1
    /\ UNCHANGED <<pc, req, brk_offset, size, free_list, live>>

MapFailEarly ==
    /\ pc \in {"init", "kmalloc"}
    /\ mapped_bytes < want
    /\ Cardinality(free_frames) <= 2
    /\ pc' = "idle"
    /\ UNCHANGED <<memVars, req, mapped_pages, brk_offset, size, free_list, live>>

MapFailRetries ==
    /\ pc \in {"init", "kmalloc"}
    /\ mapped_bytes < want
    /\ free_frames = {}
    /\ UNCHANGED vars

MapFail ==
    /\ pc \in {"init", "kmalloc"}
    /\ mapped_bytes < want
    /\ free_frames = {}
    /\ pc' = "idle"
    /\ UNCHANGED <<memVars, req, mapped_pages, brk_offset, size, free_list, live>>

InitDone ==
    /\ pc = "init"
    /\ mapped_bytes >= want
    /\ pc' = "idle"
    /\ UNCHANGED <<memVars, req, mapped_pages, brk_offset, size, free_list, live>>

\* Mutant: the block is handed out but stays on the list.
KmallocReuseKeeps(n) ==
    /\ pc = "idle" /\ n # 0
    /\ \E i \in FirstFit(align_up(n, ALIGN)) : live' = With(live, free_list[i], n)
    /\ UNCHANGED <<memVars, pc, req, mapped_pages, brk_offset, size, free_list>>

(***************************************************************************)
(* kmalloc: an earlier block from the free list, whole, when one fits;     *)
(* otherwise a new block at the break once the pages are mapped.           *)
(***************************************************************************)
KmallocReuse(n) ==
    /\ pc = "idle" /\ n # 0
    /\ \E i \in FirstFit(align_up(n, ALIGN)) :
         /\ free_list' = RemoveAt(free_list, i)
         /\ live' = With(live, free_list[i], n)
    /\ UNCHANGED <<memVars, pc, req, mapped_pages, brk_offset, size>>

KmallocBump(n) ==
    /\ pc = "idle" /\ n # 0
    /\ FirstFit(align_up(n, ALIGN)) = {}
    /\ pc' = "kmalloc"
    /\ req' = n
    /\ UNCHANGED <<memVars, mapped_pages, brk_offset, size, free_list, live>>

KmallocCommit ==
    /\ pc = "kmalloc"
    /\ mapped_bytes >= want
    /\ size' = With(size, start, need)
    /\ live' = With(live, start, req)
    /\ brk_offset' = end
    /\ pc' = "idle"
    /\ UNCHANGED <<memVars, req, mapped_pages, free_list>>

\* kfree of a block its caller owns; the pointer is block + header_size.
Kfree(b) ==
    /\ pc = "idle"
    /\ free_list' = <<b>> \o free_list
    /\ live' = [c \in DOMAIN live \ {b} |-> live[c]]
    /\ UNCHANGED <<memVars, pc, req, mapped_pages, brk_offset, size>>

Next ==
    \/ MapNext
    \/ MapFail
    \/ InitDone
    \/ \E n \in Requests : KmallocReuse(n)
    \/ \E n \in Requests : KmallocBump(n)
    \/ KmallocCommit
    \/ \E b \in DOMAIN live : Kfree(b)

Spec == Init /\ [][Next]_vars

\* The processor keeps executing a call that has been entered.
FairSpec == Spec /\ WF_vars(MapNext \/ MapFail \/ InitDone \/ KmallocCommit)

-----------------------------------------------------------------------------
TypeOK ==
    /\ MemTypeOK
    /\ pc \in {"init", "idle", "kmalloc"}
    /\ req \in Nat
    /\ mapped_pages \in Nat
    /\ brk_offset \in Nat
    /\ DOMAIN size \subseteq Nat
    /\ \A b \in DOMAIN size : size[b] \in Nat
    /\ free_list \in Seq(DOMAIN size)
    /\ DOMAIN live \subseteq DOMAIN size
    /\ \A b \in DOMAIN live : live[b] \in Nat

\* The bytes of block b, header included, end here.
BlockEnd(b) == b + header_size + size[b]

\* No two blocks the heap ever carved overlap, and all lie below the break.
BlocksDisjoint ==
    /\ \A b, c \in DOMAIN size : b < c => BlockEnd(b) <= c
    /\ \A b \in DOMAIN size : BlockEnd(b) <= brk_offset

\* What lies below the break is mapped, page by page: a header write or a
\* caller's write to its block never faults (kmalloc.c:101).
BelowBreakMapped ==
    /\ brk_offset <= mapped_bytes
    /\ \A p \in 0..(mapped_pages - 1) :
         p \in DOMAIN page_table /\ p \div PT_ENTRIES \in DOMAIN page_dir

\* A block is owned by a caller or is on the free list, once: kmalloc never
\* hands out a block twice and kfree never loses one.
OwnedOrFree ==
    /\ \A i, j \in DOMAIN free_list : i # j => free_list[i] # free_list[j]
    /\ \A b \in DOMAIN size : b \in DOMAIN live <=> \A i \in DOMAIN free_list : free_list[i] # b

\* A caller gets the bytes it asked for: "kmalloc <size>: allocate <size>
\* bytes" (shell.c:65), all of them mapped.
KmallocServes ==
    \A b \in DOMAIN live : /\ live[b] <= size[b]
                           /\ b + header_size + live[b] <= mapped_bytes

\* The pages a block has bytes in, its header's among them.
PagesOf(b) == (b \div PAGE_SIZE)..((BlockEnd(b) - 1) \div PAGE_SIZE)

\* Neither the owner of a block nor kmalloc, which reads and writes headers of
\* owned and of free ones, can touch a page that is not there (kmalloc.c:86-119).
BlocksMapped ==
    \A b \in DOMAIN size : \A p \in PagesOf(b) :
      p \in DOMAIN page_table /\ p \div PT_ENTRIES \in DOMAIN page_dir

\* Blocks are apart, have one owner each, and that owner has all the bytes it
\* asked for, through any mix of kmalloc and kfree (kmalloc.c:79-119).
BlocksSound == BlocksDisjoint /\ OwnedOrFree /\ KmallocServes

\* The break stays below what is counted as mapped, all of that is mapped, also
\* when the frames ran out in the middle, and so is each byte of every block,
\* whichever pages it straddles (kmalloc.c:36-54, 96-109).
HeapMapped == BelowBreakMapped /\ BlocksMapped

\* A frame serves one purpose, and what pmm_get_stats reports as free is free.
FramesSound == FramesExclusive /\ StatsCountFrames

\* kmalloc gives up only when no frame is left, and then the blocks, the break
\* and the free list are as they were.
FailsOnlyWhenOut ==
    [][(pc = "kmalloc" /\ pc' = "idle" /\ live' = live) =>
          free_frames = {} /\ UNCHANGED <<size, free_list, brk_offset>>]_vars

\* Every call returns: the mapping loop ends in a block or in NULL.
KmallocReturns == (pc \in {"init", "kmalloc"}) ~> (pc = "idle")

\* What the heap promises (module Allocator), with a region for every owned
\* block: it starts after the header and is as long as the header says.
Regions == [p \in {b + header_size : b \in DOMAIN live} |-> size[p - header_size]]
=============================================================================
